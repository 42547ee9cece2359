-------------------------- MODULE PersonDayProofs --------------------------
(***************************************************************************)
(* TLAPS proofs about PersonDay, for any number of computers, records,     *)
(* days, grants, reports and faults: its types; what holds of a sum over   *)
(* any finite set, by induction over sets of naturals and of subsets (the  *)
(* induction theorems that take an operator cannot be cited, those about   *)
(* sets can); and its safety.  The person's day is counted once and never  *)
(* shrinks, a grant is on record once, and no token is told 410 before a   *)
(* parent removes its record.  None of these is inductive.                 *)
(***************************************************************************)
EXTENDS PersonDay, FiniteSetTheorems, WellFoundedInduction, TLAPS

\* Every computer, record, report and grant has its rows from the start.
LEMMA TypeInit == Init => TypeOK
<1> SUFFICES ASSUME Init PROVE TypeOK
  OBVIOUS
<1> USE BoundsAssumption
<1>1. Blank \in [Day -> Booking]
  BY DEF Blank, Nobody, Booking
<1>2. RecordTypes
  BY <1>1 DEF Init, RecordTypes, Rec
<1>3. RequestTypes
  BY DEF Init, RequestTypes, Report, NoRep
<1>4. AnswerTypes
  BY DEF Init, AnswerTypes, NoRep, NoFar
<1>5. AgentTypes
  BY DEF Init, AgentTypes, Day
<1>6. HistoryTypes
  BY DEF Init, HistoryTypes
<1> QED
  BY <1>2, <1>3, <1>4, <1>5, <1>6 DEF TypeOK

LEMMA RecordTypesKept == RecordTypes /\ UNCHANGED dbVars => RecordTypes'
  BY DEF RecordTypes, dbVars

LEMMA RequestTypesKept == RequestTypes /\ UNCHANGED <<rep, grant>> => RequestTypes'
  BY DEF RequestTypes

LEMMA AnswerTypesKept == AnswerTypes /\ UNCHANGED <<rep, ans, far, today>> => AnswerTypes'
  BY DEF AnswerTypes

LEMMA AgentTypesKept == AgentTypes /\ UNCHANGED <<cred, today, here, got, applied>> => AgentTypes'
  BY DEF AgentTypes

LEMMA HistoryTypesKept == HistoryTypes /\ UNCHANGED histVars => HistoryTypes'
  BY DEF HistoryTypes, histVars

\* A merge of two books is a book, and holds no less than either.
LEMMA MergeType ==
  ASSUME NEW a \in [Day -> Booking], NEW b \in [Day -> Booking]
  PROVE  Merge(a, b) \in [Day -> Booking]
  BY DEF Merge, Greatest, Booking

\* A booking changed in one column is a booking.
LEMMA BookUpdate ==
  ASSUME NEW b \in [Rec -> [Day -> Booking]], NEW r \in Rec, NEW d \in Day, NEW n \in Nat
  PROVE  /\ [b EXCEPT ![r][d].used = n] \in [Rec -> [Day -> Booking]]
         /\ [b EXCEPT ![r][d].earned = n] \in [Rec -> [Day -> Booking]]
<1>1. [b[r][d] EXCEPT !.used = n] \in Booking /\ [b[r][d] EXCEPT !.earned = n] \in Booking
  <2>1. b[r][d] \in Booking
    OBVIOUS
  <2> QED
    BY <2>1 DEF Booking
<1>2. /\ [b[r] EXCEPT ![d].used = n] \in [Day -> Booking]
      /\ [b[r] EXCEPT ![d].earned = n] \in [Day -> Booking]
  BY <1>1
<1> QED
  BY <1>2

\* A token speaks for a record or for none.
LEMMA ResolveType ==
  ASSUME RecordTypes, NEW c
  PROVE  Resolve(c) \in 0..MaxRec /\ (Resolve(c) # 0 => Resolve(c) \in Rec)
  BY BoundsAssumption DEF Resolve, Exists, RecordTypes, Rec

\* Nothing is asked of the answer to a report that has none yet.
LEMMA Unanswered ==
  ASSUME RequestTypes, AnswerTypes, NEW q \in Slot, NEW x, NEW f,
         rep' = [rep EXCEPT ![q] = x], x.at # "answer",
         ans' = [ans EXCEPT ![q] = f] \/ ans' = ans, UNCHANGED <<far, today>>
  PROVE  AnswerTypes'
<1>1. DOMAIN ans' = Slot
  BY DEF AnswerTypes
<1>2. ASSUME NEW p \in Slot, rep'[p].at = "answer"
      PROVE  ans'[p].day = rep'[p].day
  BY <1>2 DEF RequestTypes, AnswerTypes
<1> QED
  BY <1>1, <1>2 DEF AnswerTypes

LEMMA UseType ==
  ASSUME TypeOK, NEW m \in Machine, Use(m) PROVE TypeOK'
<1> USE DEF Use, TypeOK
<1>1. RecordTypes' BY RecordTypesKept
<1>2. RequestTypes' BY RequestTypesKept
<1>3. AnswerTypes' BY AnswerTypesKept DEF agentVars
<1>4. AgentTypes' BY DEF AgentTypes
<1>5. HistoryTypes' BY DEF HistoryTypes, AgentTypes
<1> QED BY <1>1, <1>2, <1>3, <1>4, <1>5

LEMMA RollDayType ==
  ASSUME TypeOK, NEW m \in Machine, RollDay(m) PROVE TypeOK'
<1> USE DEF RollDay, TypeOK
<1>1. RecordTypes' BY RecordTypesKept
<1>2. RequestTypes' BY RequestTypesKept
<1>3. AnswerTypes'
  BY DEF AnswerTypes, AgentTypes, NoFar
<1>4. AgentTypes' BY BoundsAssumption DEF AgentTypes, Day
<1>5. HistoryTypes' BY HistoryTypesKept
<1> QED BY <1>1, <1>2, <1>3, <1>4, <1>5

LEMMA RetireType ==
  ASSUME TypeOK, NEW m \in Machine, Retire(m) PROVE TypeOK'
<1> USE DEF Retire, TypeOK
<1>1. RecordTypes' BY RecordTypesKept
<1>2. RequestTypes' BY RequestTypesKept
<1>3. AnswerTypes' BY DEF AnswerTypes, NoFar
<1>4. AgentTypes' BY BoundsAssumption DEF AgentTypes
<1>5. HistoryTypes' BY DEF HistoryTypes
<1> QED BY <1>1, <1>2, <1>3, <1>4, <1>5

LEMMA SendReportType ==
  ASSUME TypeOK, NEW q \in Slot, SendReport(q) PROVE TypeOK'
<1> DEFINE r == Resolve(cred[q[1]])
<1> USE DEF SendReport, TypeOK
<1>1. q[1] \in Machine BY DEF Slot
<1>2. r \in Rec BY ResolveType
<1>3. RecordTypes' BY RecordTypesKept
<1>4. RequestTypes'
  BY <1>1, <1>2, BoundsAssumption DEF RequestTypes, AgentTypes, Report, Rec, Day
<1>5. AnswerTypes'
  <2> DEFINE f == [NoFar EXCEPT !.mine = book[r][today[q[1]]].earned]
             x == [at |-> "read", rec |-> r, by |-> cred[q[1]], day |-> today[q[1]],
                   used |-> here[q[1]]]
  <2>1. ans' = [ans EXCEPT ![q] = f] /\ rep' = [rep EXCEPT ![q] = x]
    BY Zenon
  <2>2. x.at # "answer" /\ UNCHANGED <<far, today>>
    BY DEF agentVars
  <2>3. RequestTypes /\ AnswerTypes
    OBVIOUS
  <2> HIDE DEF f, x, SendReport, TypeOK
  <2> QED
    BY <2>1, <2>2, <2>3, Unanswered, Zenon
<1>6. AgentTypes' BY AgentTypesKept DEF agentVars
<1>7. HistoryTypes' BY <1>2 DEF HistoryTypes
<1> QED BY <1>3, <1>4, <1>5, <1>6, <1>7

LEMMA FileUsageType ==
  ASSUME TypeOK, NEW q \in Slot, FileUsage(q) PROVE TypeOK'
<1> USE DEF FileUsage, TypeOK
<1>1. rep[q].rec \in Rec /\ rep[q].day \in Day /\ rep[q].used \in Nat
  BY DEF RequestTypes, Report
<1>2. book' \in [Rec -> [Day -> Booking]]
  <2>1. CASE Exists(rep[q].rec)
    <3>1. PICK n : n = Greatest(book[rep[q].rec][rep[q].day].used, rep[q].used)
      OBVIOUS
    <3>2. n \in Nat
      BY <1>1, <3>1 DEF RecordTypes, Booking, Greatest
    <3>3. book' = [book EXCEPT ![rep[q].rec][rep[q].day].used = n]
      BY <2>1, <3>1
    <3> QED
      BY <1>1, <3>2, <3>3, BookUpdate DEF RecordTypes
  <2>2. CASE ~ Exists(rep[q].rec)
    BY <2>2 DEF RecordTypes
  <2> QED
    BY <2>1, <2>2
<1>3. RecordTypes' BY <1>2 DEF RecordTypes
<1>4. RequestTypes'
  <2>1. PICK x : /\ rep' = [rep EXCEPT ![q] = x]
                 /\ x = [rep[q] EXCEPT !.at = "filed"] \/ x = NoRep
    OBVIOUS
  <2>2. rep[q] \in Report
    BY DEF RequestTypes
  <2>3. x \in Report
    BY <2>1, <2>2, BoundsAssumption DEF Report, NoRep
  <2>4. x.at # "idle" => x.rec \in Rec /\ x.day \in Day
    BY <1>1, <2>1, <2>2 DEF Report, NoRep
  <2>5. rep' \in [Slot -> Report]
    BY <2>1, <2>3 DEF RequestTypes
  <2>6. \A p \in Slot : rep'[p].at # "idle" => rep'[p].rec \in Rec /\ rep'[p].day \in Day
    BY <2>1, <2>4 DEF RequestTypes
  <2> QED
    BY <2>5, <2>6 DEF RequestTypes
<1>5. AnswerTypes'
  <2>1. CASE Exists(rep[q].rec)
    <3>1. rep' = [rep EXCEPT ![q] = [rep[q] EXCEPT !.at = "filed"]] /\ ans' = ans
      BY <2>1
    <3>2. [rep[q] EXCEPT !.at = "filed"].at # "answer"
      BY DEF RequestTypes, Report
    <3> QED
      BY <3>1, <3>2, Unanswered DEF agentVars
  <2>2. CASE ~ Exists(rep[q].rec)
    BY <2>2, Unanswered DEF NoRep, agentVars
  <2> QED
    BY <2>1, <2>2
<1>6. AgentTypes' BY AgentTypesKept DEF agentVars
<1>7. HistoryTypes' BY HistoryTypesKept
<1> QED BY <1>3, <1>4, <1>5, <1>6, <1>7

LEMMA AnswerType ==
  ASSUME TypeOK, NEW q \in Slot, Answer(q) PROVE TypeOK'
<1> USE DEF Answer, TypeOK
<1>1. RecordTypes' BY RecordTypesKept
<1>2. RequestTypes' BY DEF RequestTypes, Report
<1>3. AnswerTypes' BY DEF AnswerTypes, RequestTypes, Report, agentVars
<1>4. AgentTypes' BY AgentTypesKept DEF agentVars
<1>5. HistoryTypes' BY HistoryTypesKept
<1> QED BY <1>1, <1>2, <1>3, <1>4, <1>5

LEMMA DeliverType ==
  ASSUME TypeOK, NEW q \in Slot, Deliver(q) PROVE TypeOK'
<1> USE DEF Deliver, TypeOK
<1>1. RecordTypes' BY RecordTypesKept
<1>2. RequestTypes' BY BoundsAssumption DEF RequestTypes, Report, NoRep
<1>3. AnswerTypes'
  <2>1. DOMAIN ans' = Slot /\ DOMAIN far' = Machine
    BY DEF AnswerTypes
  <2>2. ASSUME NEW p \in Slot, rep'[p].at = "answer"
        PROVE  ans'[p].day = rep'[p].day
    BY <2>2 DEF RequestTypes, AnswerTypes, NoRep
  <2>3. ASSUME NEW m \in Machine
        PROVE  far'[m].day \in {0, today'[m]}
    BY DEF AnswerTypes
  <2> QED
    BY <2>1, <2>2, <2>3 DEF AnswerTypes
<1>4. AgentTypes' BY AgentTypesKept
<1>5. HistoryTypes' BY HistoryTypesKept
<1> QED BY <1>1, <1>2, <1>3, <1>4, <1>5

LEMMA LoseReportType ==
  ASSUME TypeOK, NEW q \in Slot, LoseReport(q) PROVE TypeOK'
<1> USE DEF LoseReport, TypeOK
<1>1. RecordTypes' BY RecordTypesKept
<1>2. RequestTypes' BY BoundsAssumption DEF RequestTypes, Report, NoRep
<1>3. AnswerTypes'
  <2>1. NoRep.at # "answer" /\ UNCHANGED <<far, today>>
    BY DEF NoRep, agentVars
  <2> QED
    BY <2>1, Unanswered
<1>4. AgentTypes' BY AgentTypesKept DEF agentVars
<1>5. HistoryTypes' BY BoundsAssumption DEF HistoryTypes, Fault
<1> QED BY <1>1, <1>2, <1>3, <1>4, <1>5

\* What a fold reads is what its records hold.
LEMMA FoldReadType ==
  ASSUME TypeOK, NEW r \in Rec, FoldRead(r) PROVE TypeOK'
<1> USE DEF FoldRead, TypeOK
<1>1. Amounts(r) \subseteq Nat
  <2>1. \A h \in Held(r), d \in Day : h[d].used \in Nat /\ h[d].earned \in Nat
    BY DEF Held, Twins, KeptOf, RecordTypes, Booking
  <2> QED
    BY <2>1 DEF Amounts
<1>2. PICK s \in [Day -> [used : Amounts(r), earned : Amounts(r)]] : snap' = [snap EXCEPT ![r] = s]
  OBVIOUS
<1>3. s \in [Day -> Booking]
  BY <1>1, <1>2 DEF Booking
<1>4. RecordTypes' BY <1>2, <1>3 DEF RecordTypes
<1>5. RequestTypes' BY RequestTypesKept
<1>6. AnswerTypes' BY AnswerTypesKept DEF agentVars
<1>7. AgentTypes' BY AgentTypesKept DEF agentVars
<1>8. HistoryTypes' BY HistoryTypesKept
<1> QED BY <1>4, <1>5, <1>6, <1>7, <1>8

LEMMA BlankType == Blank \in [Day -> Booking]
BY DEF Blank, Nobody, Booking

LEMMA FoldType ==
  ASSUME TypeOK, NEW r \in Rec, Fold(r) PROVE TypeOK'
<1> USE DEF Fold, TypeOK
<1>1. Merge(book[r], snap[r]) \in [Day -> Booking]
  BY MergeType DEF RecordTypes
<1>2. stage' \in [Rec -> {"none", "spent", "folding", "ready", "live", "closing", "gone"}]
  BY DEF RecordTypes
<1>3. book' \in [Rec -> [Day -> Booking]] /\ kept' \in [Rec -> [Day -> Booking]]
  BY <1>1, BlankType DEF RecordTypes
<1>4. heir' \in [Rec -> 0..MaxRec]
  BY BoundsAssumption DEF RecordTypes, Rec
<1>5. RecordTypes'
  <2>1. \A o \in Rec : stage'[o] # "none" => stage[o] # "none"
    BY DEF RecordTypes, Twins, Exists
  <2> QED
    BY <1>2, <1>3, <1>4, <2>1, BlankType DEF RecordTypes
<1>6. RequestTypes' BY RequestTypesKept
<1>7. AnswerTypes' BY AnswerTypesKept DEF agentVars
<1>8. AgentTypes' BY AgentTypesKept DEF agentVars
<1>9. HistoryTypes' BY HistoryTypesKept
<1> QED BY <1>5, <1>6, <1>7, <1>8, <1>9

\* The other steps of an enrollment, and a removal.
LEMMA EnrollType ==
  ASSUME TypeOK, NEW r \in Rec,
         \/ \E m \in Machine : EnrollSpend(m, r)
         \/ FoldFails(r) \/ Reply(r) \/ EnrollRetry(r)
  PROVE  TypeOK'
<1> USE DEF TypeOK
<1>1. CASE \E m \in Machine : EnrollSpend(m, r)
  <2>1. RecordTypes' BY <1>1 DEF RecordTypes, EnrollSpend
  <2> QED
    BY <1>1, <2>1, RequestTypesKept, AnswerTypesKept, AgentTypesKept, HistoryTypesKept
       DEF EnrollSpend, agentVars
<1>2. CASE FoldFails(r)
  <2>1. RecordTypes' BY <1>2, BlankType DEF RecordTypes, FoldFails
  <2>2. HistoryTypes'
    <3>1. mach[r] \in Machine
      BY <1>2 DEF FoldFails, RecordTypes
    <3> QED
      BY <1>2, <3>1, BoundsAssumption DEF FoldFails, Fault, HistoryTypes
  <2> QED
    BY <1>2, <2>1, <2>2, RequestTypesKept, AnswerTypesKept, AgentTypesKept DEF FoldFails, agentVars
<1>3. CASE Reply(r)
  <2>1. RecordTypes' BY <1>3 DEF RecordTypes, Reply
  <2>2. AgentTypes'
    <3>1. r \in 0..MaxRec
      BY BoundsAssumption DEF Rec
    <3> QED
      BY <1>3, <3>1 DEF AgentTypes, Reply
  <2> QED
    BY <1>3, <2>1, <2>2, RequestTypesKept, AnswerTypesKept, HistoryTypesKept DEF Reply
<1>4. CASE EnrollRetry(r)
  <2>1. RecordTypes' BY <1>4 DEF RecordTypes, EnrollRetry
  <2> QED
    BY <1>4, <2>1, RequestTypesKept, AnswerTypesKept, AgentTypesKept, HistoryTypesKept
       DEF EnrollRetry, agentVars
<1> QED BY <1>1, <1>2, <1>3, <1>4

LEMMA RemovalType ==
  ASSUME TypeOK, NEW r \in Rec, RemoveRead(r) \/ Remove(r) PROVE TypeOK'
<1> USE DEF TypeOK
<1>1. CASE RemoveRead(r)
  <2>1. RecordTypes' BY <1>1 DEF RecordTypes, RemoveRead
  <2> QED
    BY <1>1, <2>1, RequestTypesKept, AnswerTypesKept, AgentTypesKept, HistoryTypesKept
       DEF RemoveRead, agentVars
<1>2. CASE Remove(r)
  <2>1. RecordTypes' BY <1>2, BlankType, BoundsAssumption DEF RecordTypes, Remove
  <2>2. HistoryTypes' BY <1>2 DEF HistoryTypes, Remove
  <2> QED
    BY <1>2, <2>1, <2>2, RequestTypesKept, AnswerTypesKept, AgentTypesKept DEF Remove, agentVars
<1> QED BY <1>1, <1>2

LEMMA GrantType ==
  ASSUME TypeOK, NEW g \in Grant, GrantStep(g) PROVE TypeOK'
<1> USE DEF TypeOK
<1>1. CASE \E r \in Rec : Credit(g, r)
  <2>1. PICK r \in Rec, d \in Day :
              /\ book' = [book EXCEPT ![r][d].earned = @ + 1]
              /\ grant' = [grant EXCEPT ![g] = [at |-> "credited", rec |-> r, day |-> d]]
              /\ UNCHANGED <<stage, mach, kept, heir, snap, rep, ans, agentVars, histVars>>
    BY <1>1 DEF Credit
  <2>2. book[r][d].earned + 1 \in Nat
    BY DEF RecordTypes, Booking
  <2>3. book' \in [Rec -> [Day -> Booking]]
    BY <2>1, <2>2, BookUpdate DEF RecordTypes
  <2>4. RecordTypes' BY <2>1, <2>3 DEF RecordTypes
  <2>5. RequestTypes' BY <2>1, BoundsAssumption DEF RequestTypes, Rec, Day
  <2> QED
    BY <2>1, <2>4, <2>5, AnswerTypesKept, AgentTypesKept, HistoryTypesKept DEF agentVars
<1>2. CASE Enqueue(g)
  <2>1. RequestTypes' BY <1>2 DEF RequestTypes, Enqueue
  <2> QED
    BY <1>2, <2>1, RecordTypesKept, AnswerTypesKept, AgentTypesKept, HistoryTypesKept
       DEF Enqueue, agentVars
<1>3. CASE \E m \in Machine : CreditTime(m, g)
  <2>1. AgentTypes' BY <1>3 DEF AgentTypes, CreditTime
  <2> QED
    BY <1>3, <2>1, RecordTypesKept, RequestTypesKept, AnswerTypesKept, HistoryTypesKept
       DEF CreditTime
<1> QED BY <1>1, <1>2, <1>3 DEF GrantStep

LEMMA TypeStutter == TypeOK /\ UNCHANGED vars => TypeOK'
BY RecordTypesKept, RequestTypesKept, AnswerTypesKept, AgentTypesKept, HistoryTypesKept
   DEF TypeOK, vars, agentVars

\* Every step keeps the types.
LEMMA TypeStep == TypeOK /\ [Next]_vars => TypeOK'
<1> SUFFICES ASSUME TypeOK, [Next]_vars PROVE TypeOK'
  OBVIOUS
<1>1. ASSUME NEW m \in Machine, Use(m) \/ RollDay(m) \/ Retire(m) PROVE TypeOK'
  BY <1>1, UseType, RollDayType, RetireType
<1>2. ASSUME NEW q \in Slot, ReportStep(q) PROVE TypeOK'
  BY <1>2, SendReportType, FileUsageType, AnswerType, DeliverType, LoseReportType DEF ReportStep
<1>3. ASSUME NEW r \in Rec, RecordStep(r) PROVE TypeOK'
  BY <1>3, EnrollType, FoldReadType, FoldType, RemovalType DEF RecordStep
<1>4. ASSUME NEW g \in Grant, GrantStep(g) PROVE TypeOK'
  BY <1>4, GrantType
<1> QED
  BY <1>1, <1>2, <1>3, <1>4, TypeStutter DEF Next

\* Every reachable state has rows, requests and ledgers the code can write,
\* and a computer's kept answer is for the day it is counting.
THEOREM TypeCorrect == Spec => []TypeOK
BY TypeInit, TypeStep, PTL DEF Spec

(***************************************************************************)
(* Sums (SumFunction of module Functions).                                 *)
(***************************************************************************)

\* Every set of naturals has a least one.
LEMMA Least ==
  ASSUME NEW T \in SUBSET Nat, T # {}
  PROVE  \E n \in T : \A k \in T : n <= k
<1>1. PICK n \in T : \A k \in T : ~ (<<k, n>> \in OpToRel(<, Nat))
  BY NatLessThanWellFounded, WFMin
<1>2. \A k \in T : ~ (k < n)
  BY <1>1 DEF OpToRel
<1> QED
  BY <1>2

\* Induction over the naturals, for a set in place of a predicate.
LEMMA Induction ==
  ASSUME NEW T, 0 \in T, \A n \in Nat : n \in T => n + 1 \in T
  PROVE  Nat \subseteq T
<1> SUFFICES ASSUME Nat \ T # {} PROVE FALSE
  OBVIOUS
<1>1. PICK n \in Nat \ T : \A k \in Nat \ T : n <= k
  <2> DEFINE U == Nat \ T
  <2>1. U \in SUBSET Nat /\ U # {}
    OBVIOUS
  <2> HIDE DEF U
  <2>2. \E n \in U : \A k \in U : n <= k
    BY <2>1, Least
  <2> QED BY <2>2 DEF U
<1>2. n # 0 /\ n - 1 \in Nat
  BY <1>1
<1>3. n - 1 \in T
  BY <1>1, <1>2
<1> QED
  BY <1>1, <1>2, <1>3

Some(s) == CHOOSE x \in s : TRUE

\* the equation of the fold
Sums(iter, f, S) == iter = [s \in SUBSET S |-> IF s = {} THEN 0 ELSE f[Some(s)] + iter[s \ {Some(s)}]]

LEMMA FoldIs ==
  ASSUME NEW f, NEW S
  PROVE  SumFunctionOnSet(f, S) = (CHOOSE iter : Sums(iter, f, S))[S]
BY DEF SumFunctionOnSet, FoldFunctionOnSet, MapThenFoldSet, Sums, Some

Small(S, n) == {s \in SUBSET S : Cardinality(s) <= n}
SumsUpTo(g, f, S, n) ==
    g = [s \in Small(S, n) |-> IF s = {} THEN 0 ELSE f[Some(s)] + g[s \ {Some(s)}]]

LEMMA SomeOne == ASSUME NEW s, s # {} PROVE Some(s) \in s
BY DEF Some

LEMMA Smaller ==
  ASSUME NEW S, IsFiniteSet(S), NEW s \in SUBSET S, NEW x \in s
  PROVE  /\ s \ {x} \in SUBSET S
         /\ Cardinality(s) \in Nat /\ Cardinality(s \ {x}) = Cardinality(s) - 1
         /\ Cardinality(s) >= 1
<1>1. IsFiniteSet(s)
  BY FS_Subset
<1>2. Cardinality(s) \in Nat /\ Cardinality(s \ {x}) \in Nat
  BY <1>1, FS_CardinalityType, FS_RemoveElement
<1>3. Cardinality(s \ {x}) = Cardinality(s) - 1
  BY <1>1, FS_RemoveElement
<1> QED
  BY <1>2, <1>3

LEMMA NoneSmall ==
  ASSUME NEW S, IsFiniteSet(S), NEW s \in Small(S, 0)
  PROVE  s = {}
<1>1. s \in SUBSET S /\ Cardinality(s) <= 0
  BY DEF Small
<1>2. ASSUME NEW x \in s PROVE FALSE
  <2>1. Cardinality(s) \in Nat /\ Cardinality(s) >= 1
    BY <1>1, Smaller
  <2> QED BY <1>1, <2>1
<1> QED BY <1>2

\* One function that satisfies the equation for all sets of up to n elements.
LEMMA SumsExist ==
  ASSUME NEW f, NEW S, IsFiniteSet(S)
  PROVE  \E iter : Sums(iter, f, S)
<1> DEFINE T == {n \in Nat : \E g : SumsUpTo(g, f, S, n)}
<1>1. 0 \in T
  <2> DEFINE g == [s \in Small(S, 0) |-> 0]
  <2>1. \A s \in Small(S, 0) : s = {}
    BY NoneSmall
  <2>2. SumsUpTo(g, f, S, 0)
    BY <2>1 DEF SumsUpTo
  <2> QED BY <2>2
<1>2. ASSUME NEW n \in Nat, n \in T PROVE n + 1 \in T
  <2>1. PICK g : SumsUpTo(g, f, S, n)
    BY <1>2
  <2> DEFINE V(h, s) == IF s = {} THEN 0 ELSE f[Some(s)] + h[s \ {Some(s)}]
             h == [s \in Small(S, n + 1) |-> V(g, s)]
  <2>2. \A s \in Small(S, n) : s \in Small(S, n + 1) /\ h[s] = g[s]
    <3> SUFFICES ASSUME NEW s \in Small(S, n) PROVE s \in Small(S, n + 1) /\ h[s] = g[s]
      OBVIOUS
    <3>1. Cardinality(s) \in Nat
      BY FS_Subset, FS_CardinalityType DEF Small
    <3>2. s \in Small(S, n + 1)
      BY <3>1 DEF Small
    <3>3. g[s] = V(g, s)
      BY <2>1 DEF SumsUpTo
    <3> QED BY <3>2, <3>3
  <2>3. \A s \in Small(S, n + 1) : V(g, s) = V(h, s)
    <3> SUFFICES ASSUME NEW s \in Small(S, n + 1), s # {} PROVE g[s \ {Some(s)}] = h[s \ {Some(s)}]
      OBVIOUS
    <3>1. s \ {Some(s)} \in Small(S, n)
      BY Smaller, SomeOne DEF Small
    <3> QED BY <3>1, <2>2
  <2>4. SumsUpTo(h, f, S, n + 1)
    BY <2>3 DEF SumsUpTo
  <2> QED BY <2>4
<1> HIDE DEF T
<1>3. Nat \subseteq T
  BY <1>1, <1>2, Induction
<1>4. Cardinality(S) \in Nat
  BY FS_CardinalityType
<1>5. PICK g : SumsUpTo(g, f, S, Cardinality(S))
  BY <1>3, <1>4 DEF T
<1>6. Small(S, Cardinality(S)) = SUBSET S
  BY FS_Subset DEF Small
<1>7. Sums(g, f, S)
  BY <1>5, <1>6 DEF Sums, SumsUpTo
<1> QED BY <1>7

\* What holds of a set when it holds of all one smaller, holds of all subsets.
LEMMA SubsetInduction ==
  ASSUME NEW S, IsFiniteSet(S), NEW P,
         \A s \in SUBSET S : (\A x \in s : s \ {x} \in P) => s \in P
  PROVE  SUBSET S \subseteq P
<1> DEFINE T == {n \in Nat : Small(S, n) \subseteq P}
<1>1. 0 \in T
  <2>1. ASSUME NEW s \in Small(S, 0) PROVE s \in P
    <3>1. s = {}
      BY NoneSmall
    <3> QED BY <3>1
  <2> QED BY <2>1
<1>2. ASSUME NEW n \in Nat, n \in T PROVE n + 1 \in T
  <2>1. ASSUME NEW s \in Small(S, n + 1) PROVE s \in P
    <3>1. s \in SUBSET S /\ Cardinality(s) <= n + 1
      BY DEF Small
    <3>2. \A x \in s : s \ {x} \in Small(S, n)
      BY <3>1, Smaller DEF Small
    <3> QED BY <3>1, <3>2, <1>2
  <2> QED BY <2>1
<1> HIDE DEF T
<1>3. Nat \subseteq T
  BY <1>1, <1>2, Induction
<1>4. Cardinality(S) \in T
  BY <1>3, FS_CardinalityType
<1> QED
  BY <1>4, FS_Subset DEF T, Small

\* What a sum over s has come to.
Part(f, S, s) == (CHOOSE iter : Sums(iter, f, S))[s]

LEMMA PartIs ==
  ASSUME NEW f, NEW S, IsFiniteSet(S), NEW s \in SUBSET S
  PROVE  Part(f, S, s) = IF s = {} THEN 0 ELSE f[Some(s)] + Part(f, S, s \ {Some(s)})
<1> DEFINE it == CHOOSE iter : Sums(iter, f, S)
<1>1. Sums(it, f, S)
  BY SumsExist
<1> HIDE DEF it
<1>2. it[s] = IF s = {} THEN 0 ELSE f[Some(s)] + it[s \ {Some(s)}]
  BY <1>1 DEF Sums
<1> QED
  BY <1>2 DEF Part, it

LEMMA PartEmpty ==
  ASSUME NEW f, NEW S, IsFiniteSet(S) PROVE Part(f, S, {}) = 0
BY PartIs

LEMMA PartType ==
  ASSUME NEW S, IsFiniteSet(S), NEW f \in [S -> Nat], NEW s \in SUBSET S
  PROVE  Part(f, S, s) \in Nat
<1> DEFINE P == {t \in SUBSET S : Part(f, S, t) \in Nat}
<1>1. ASSUME NEW t \in SUBSET S, \A x \in t : t \ {x} \in P PROVE t \in P
  <2>1. CASE t = {}
    BY <2>1, PartEmpty
  <2>2. CASE t # {}
    <3>1. Some(t) \in t
      BY <2>2, SomeOne
    <3>2. Part(f, S, t \ {Some(t)}) \in Nat /\ f[Some(t)] \in Nat
      BY <1>1, <3>1
    <3>3. Part(f, S, t) = f[Some(t)] + Part(f, S, t \ {Some(t)})
      BY <2>2, PartIs
    <3> QED BY <3>2, <3>3
  <2> QED BY <2>1, <2>2
<1>2. SUBSET S \subseteq P
  <2> HIDE DEF P
  <2> QED BY <1>1, SubsetInduction
<1> QED
  BY <1>2

\* Any element may be taken out first.
LEMMA TakeOut ==
  ASSUME NEW S, IsFiniteSet(S), NEW f \in [S -> Nat], NEW s \in SUBSET S, NEW x \in s
  PROVE  Part(f, S, s) = f[x] + Part(f, S, s \ {x})
<1> DEFINE P == {t \in SUBSET S : \A y \in t : Part(f, S, t) = f[y] + Part(f, S, t \ {y})}
<1>1. ASSUME NEW t \in SUBSET S, \A y \in t : t \ {y} \in P, NEW y \in t
      PROVE  Part(f, S, t) = f[y] + Part(f, S, t \ {y})
  <2> DEFINE c == Some(t)
  <2>1. c \in t
    BY SomeOne
  <2> HIDE DEF c
  <2>2. Part(f, S, t) = f[c] + Part(f, S, t \ {c})
    BY PartIs, <2>1 DEF c
  <2>3. CASE y = c
    BY <2>2, <2>3
  <2>4. CASE y # c
    <3> DEFINE r == (t \ {c}) \ {y}
    <3>1. (t \ {y}) \ {c} = r
      OBVIOUS
    <3>2. Part(f, S, t \ {c}) = f[y] + Part(f, S, r)
      BY <1>1, <2>1, <2>4
    <3>3. Part(f, S, t \ {y}) = f[c] + Part(f, S, r)
      BY <1>1, <2>1, <2>4, <3>1
    <3>4. r \in SUBSET S /\ f[y] \in Nat /\ f[c] \in Nat
      BY <2>1
    <3> HIDE DEF r
    <3>5. Part(f, S, r) \in Nat
      BY <3>4, PartType
    <3> QED BY <2>2, <3>2, <3>3, <3>4, <3>5
  <2> QED BY <2>3, <2>4
<1>2. SUBSET S \subseteq P
  <2>1. \A t \in SUBSET S : (\A y \in t : t \ {y} \in P) => t \in P
    BY <1>1
  <2> HIDE DEF P
  <2> QED BY <2>1, SubsetInduction
<1> QED
  BY <1>2

LEMMA PartMonotonic ==
  ASSUME NEW S, IsFiniteSet(S), NEW f \in [S -> Nat], NEW g \in [S -> Nat],
         NEW s \in SUBSET S, \A x \in s : f[x] <= g[x]
  PROVE  Part(f, S, s) <= Part(g, S, s)
<1> DEFINE P == {t \in SUBSET S : t \subseteq s => Part(f, S, t) <= Part(g, S, t)}
<1>1. ASSUME NEW t \in SUBSET S, \A x \in t : t \ {x} \in P, t \subseteq s
      PROVE  Part(f, S, t) <= Part(g, S, t)
  <2>1. CASE t = {}
    BY <2>1, PartIs
  <2>2. CASE t # {}
    <3>1. PICK x \in t : TRUE
      BY <2>2
    <3>2. Part(f, S, t \ {x}) <= Part(g, S, t \ {x})
      BY <1>1
    <3>3. Part(f, S, t) = f[x] + Part(f, S, t \ {x}) /\ Part(g, S, t) = g[x] + Part(g, S, t \ {x})
      BY TakeOut
    <3>4. Part(f, S, t \ {x}) \in Nat /\ Part(g, S, t \ {x}) \in Nat
      BY PartType
    <3>5. f[x] \in Nat /\ g[x] \in Nat /\ f[x] <= g[x]
      BY <1>1
    <3> QED BY <3>2, <3>3, <3>4, <3>5
  <2> QED BY <2>1, <2>2
<1>2. SUBSET S \subseteq P
  <2>1. \A t \in SUBSET S : (\A x \in t : t \ {x} \in P) => t \in P
    BY <1>1
  <2> HIDE DEF P
  <2> QED BY <2>1, SubsetInduction
<1> QED
  BY <1>2

LEMMA SumIsPart ==
  ASSUME NEW S, NEW f \in [S -> Nat] PROVE SumFunction(f) = Part(f, S, S)
BY DEF SumFunction, SumFunctionOnSet, FoldFunctionOnSet, MapThenFoldSet, Sums, Some, Part

LEMMA SumType ==
  ASSUME NEW S, IsFiniteSet(S), NEW f \in [S -> Nat] PROVE SumFunction(f) \in Nat
BY SumIsPart, PartType

LEMMA SumMonotonic ==
  ASSUME NEW S, IsFiniteSet(S), NEW f \in [S -> Nat], NEW g \in [S -> Nat],
         \A x \in S : f[x] <= g[x]
  PROVE  SumFunction(f) <= SumFunction(g)
BY SumIsPart, PartMonotonic

LEMMA SumZero ==
  ASSUME NEW S, IsFiniteSet(S), NEW f \in [S -> Nat], \A x \in S : f[x] = 0
  PROVE  SumFunction(f) = 0
<1> DEFINE P == {t \in SUBSET S : Part(f, S, t) = 0}
<1>1. ASSUME NEW t \in SUBSET S, \A x \in t : t \ {x} \in P PROVE t \in P
  <2>1. CASE t = {}
    BY <2>1, PartEmpty
  <2>2. CASE t # {}
    <3>1. Some(t) \in t
      BY <2>2, SomeOne
    <3>2. Part(f, S, t \ {Some(t)}) = 0 /\ f[Some(t)] = 0
      BY <1>1, <3>1
    <3>3. Part(f, S, t) = f[Some(t)] + Part(f, S, t \ {Some(t)})
      BY <2>2, PartIs
    <3> QED BY <3>2, <3>3
  <2> QED BY <2>1, <2>2
<1>2. SUBSET S \subseteq P
  <2> HIDE DEF P
  <2> QED BY <1>1, SubsetInduction
<1> QED
  BY <1>2, SumIsPart

\* One more at one place is one more in all.
LEMMA SumOneMore ==
  ASSUME NEW S, IsFiniteSet(S), NEW f \in [S -> Nat], NEW g \in [S -> Nat], NEW x \in S,
         \A z \in S \ {x} : f[z] <= g[z], f[x] <= g[x] + 1
  PROVE  SumFunction(f) <= SumFunction(g) + 1
<1> DEFINE r == S \ {x}
           a == Part(f, S, r)
           b == Part(g, S, r)
<1>1. a \in Nat /\ b \in Nat /\ f[x] \in Nat /\ g[x] \in Nat
  BY PartType
<1>2. SumFunction(f) = f[x] + a /\ SumFunction(g) = g[x] + b
  BY SumIsPart, TakeOut
<1>3. a <= b
  BY PartMonotonic
<1> HIDE DEF a, b
<1> QED
  BY <1>1, <1>2, <1>3

\* What moves from one place to another is not counted again.
LEMMA SumMoved ==
  ASSUME NEW S, IsFiniteSet(S), NEW f \in [S -> Nat], NEW g \in [S -> Nat],
         NEW x \in S, NEW y \in S, x # y,
         \A z \in S \ {x, y} : f[z] <= g[z], f[x] + f[y] <= g[x] + g[y]
  PROVE  SumFunction(f) <= SumFunction(g)
<1> DEFINE r == (S \ {x}) \ {y}
           a == Part(f, S, r)
           b == Part(g, S, r)
<1>1. /\ a \in Nat /\ b \in Nat
      /\ f[x] \in Nat /\ g[x] \in Nat /\ f[y] \in Nat /\ g[y] \in Nat
  BY PartType
<1>2. /\ SumFunction(f) = f[x] + Part(f, S, S \ {x})
      /\ SumFunction(g) = g[x] + Part(g, S, S \ {x})
  BY SumIsPart, TakeOut
<1>3. Part(f, S, S \ {x}) = f[y] + a /\ Part(g, S, S \ {x}) = g[y] + b
  BY TakeOut
<1>4. a <= b
  BY PartMonotonic
<1> HIDE DEF a, b
<1> QED
  BY <1>1, <1>2, <1>3, <1>4

Settled   == {"ready", "live", "closing"}
Enrollees == {"spent", "folding"}

\* Live usage is under records that exist, kept usage under those gone.
Placed ==
    /\ \A r \in Rec, d \in Day :
          /\ ~ Exists(r) => book[r][d].used = 0
          /\ stage[r] # "gone" => kept[r][d].used = 0
    /\ \A r \in removed : stage[r] = "gone"

\* Nothing on record, or read by a transaction, is more than was used.
Bounded ==
    \A r \in Rec, d \in Day : stage[r] # "none" =>
        /\ book[r][d].used <= spent[mach[r]][d]
        /\ kept[r][d].used <= spent[mach[r]][d]
        /\ stage[r] \in {"folding", "closing"} => snap[r][d].used <= spent[mach[r]][d]

\* A removal has read no more than is there; it never meets a fold.
Reading ==
    \A r \in Rec : stage[r] = "closing" =>
        /\ \A d \in Day : snap[r][d].used <= book[r][d].used
        /\ \A o \in Rec : mach[o] = mach[r] => stage[o] # "folding"

\* Tokens, tombstones and reports speak for records of their own machine.
Pointers ==
    /\ \A m \in Machine : cred[m] # 0 => stage[cred[m]] # "none" /\ mach[cred[m]] = m
    /\ \A o \in Rec : heir[o] # 0 =>
          stage[o] = "gone" /\ Exists(heir[o]) /\ mach[heir[o]] = mach[o]
    /\ \A q \in Slot : rep[q].at # "idle" =>
          stage[rep[q].rec] # "none" /\ mach[rep[q].rec] = q[1]

\* A computer reports what it was used.
Honest ==
    /\ \A m \in Machine : here[m] <= spent[m][today[m]]
    /\ \A q \in Slot : rep[q].at # "idle" => rep[q].used <= spent[q[1]][rep[q].day]

NoUse(r, d) == book[r][d].used = 0 /\ kept[r][d].used = 0
Empty(r)    == \A d \in Day : NoUse(r, d)

\* Nobody has heard of the record yet.
Fresh(r) ==
    /\ Empty(r)
    /\ \A m \in Machine : cred[m] # r
    /\ \A o \in Rec : heir[o] # r
    /\ \A q \in Slot : rep[q].at # "idle" => rep[q].rec # r

Alone(r) == \A o \in Rec \ {r} : mach[o] = mach[r] => ~ Exists(o) /\ Empty(o)

\* One enrollment of a machine at a time.
OneEnrolls ==
    \A r, o \in Rec :
        stage[r] \in Enrollees /\ stage[o] \in Enrollees /\ mach[o] = mach[r] => o = r

\* A record in use is the only one of its machine that is, or has anything
\* on it.
Apart ==
    \A r, o \in Rec :
        mach[r] \notin unfolded /\ stage[r] \in Settled /\ o # r /\ mach[o] = mach[r]
            => stage[o] \notin Settled /\ Empty(o)

\* One being enrolled is unheard of, or its machine's only one.
Untouched ==
    \A r \in Rec :
        mach[r] \notin unfolded /\ stage[r] \in Enrollees => Fresh(r) \/ Alone(r)

\* A minute is under one record of its machine.
Once ==
    \A r, o \in Rec, d \in Day :
        stage[r] # "none" /\ mach[r] \notin unfolded /\ o # r /\ mach[o] = mach[r]
            => NoUse(r, d) \/ NoUse(o, d)

Inv == /\ Placed /\ Bounded /\ Reading /\ Pointers /\ Honest
       /\ OneEnrolls /\ Apart /\ Untouched /\ Once

IInv == TypeOK /\ Inv

(***************************************************************************)
(* A part survives a step that leaves what it is about alone.              *)
(***************************************************************************)

\* No step but those below moves a minute.
SameUse == \A r \in Rec, d \in Day : book'[r][d].used = book[r][d].used

LEMMA PlacedKept ==
  Placed /\ SameUse /\ UNCHANGED <<stage, kept, removed>> => Placed'
BY DEF Placed, SameUse, Exists

LEMMA BoundedKept ==
  Bounded /\ SameUse /\ UNCHANGED <<stage, mach, kept, snap, spent>> => Bounded'
BY DEF Bounded, SameUse

LEMMA ReadingKept ==
  Reading /\ SameUse /\ UNCHANGED <<stage, mach, snap>> => Reading'
BY DEF Reading, SameUse

LEMMA PointersKept ==
  Pointers /\ UNCHANGED <<stage, mach, heir, cred, rep>> => Pointers'
BY DEF Pointers, Exists

LEMMA HonestKept ==
  Honest /\ UNCHANGED <<here, spent, today, rep>> => Honest'
BY DEF Honest

LEMMA OneEnrollsKept ==
  OneEnrolls /\ UNCHANGED <<stage, mach>> => OneEnrolls'
BY DEF OneEnrolls

LEMMA ApartKept ==
  Apart /\ SameUse /\ UNCHANGED <<stage, mach, kept, unfolded>> => Apart'
BY DEF Apart, SameUse, Empty, NoUse

LEMMA UntouchedKept ==
  Untouched /\ SameUse /\ UNCHANGED <<stage, mach, kept, unfolded, cred, heir, rep>> => Untouched'
BY DEF Untouched, SameUse, Empty, NoUse, Fresh, Alone, Exists

LEMMA OnceKept ==
  Once /\ SameUse /\ UNCHANGED <<stage, mach, kept, unfolded>> => Once'
BY DEF Once, SameUse, NoUse

(***************************************************************************)
(* A computer's own steps.                                                 *)
(***************************************************************************)

LEMMA UseKeeps ==
  ASSUME TypeOK, Inv, NEW m \in Machine, Use(m) PROVE Inv'
<1> USE DEF Use, Inv, dbVars
<1>1. SameUse
  BY DEF SameUse
<1>2. spent' \in [Machine -> [Day -> Nat]] /\ \A n \in Machine, d \in Day : spent'[n][d] >= spent[n][d]
  BY DEF TypeOK, HistoryTypes, AgentTypes
<1>3. Bounded'
  <2> SUFFICES ASSUME NEW r \in Rec, NEW d \in Day, stage[r] # "none"
               PROVE  /\ book[r][d].used <= spent'[mach[r]][d]
                      /\ kept[r][d].used <= spent'[mach[r]][d]
                      /\ stage[r] \in {"folding", "closing"} => snap[r][d].used <= spent'[mach[r]][d]
    BY DEF Bounded
  <2>1. /\ mach[r] \in Machine
        /\ book[r][d].used \in Nat /\ kept[r][d].used \in Nat /\ snap[r][d].used \in Nat
        /\ spent[mach[r]][d] \in Nat /\ spent'[mach[r]][d] \in Nat
    BY <1>2 DEF TypeOK, RecordTypes, HistoryTypes, Booking
  <2> QED
    BY <1>2, <2>1 DEF Bounded
<1>4. Honest'
  <2>1. ASSUME NEW n \in Machine PROVE here'[n] <= spent'[n][today[n]]
    BY DEF Honest, TypeOK, AgentTypes, HistoryTypes
  <2>2. ASSUME NEW q \in Slot, rep[q].at # "idle" PROVE rep[q].used <= spent'[q[1]][rep[q].day]
    <3>1. /\ q[1] \in Machine /\ rep[q].day \in Day /\ rep[q].used \in Nat
          /\ spent[q[1]][rep[q].day] \in Nat /\ spent'[q[1]][rep[q].day] \in Nat
      BY <1>2, <2>2 DEF TypeOK, RequestTypes, Report, HistoryTypes, Slot
    <3> QED
      BY <1>2, <2>2, <3>1 DEF Honest
  <2> QED
    BY <2>1, <2>2 DEF Honest
<1> QED
  BY <1>1, <1>3, <1>4, PlacedKept, ReadingKept, PointersKept, OneEnrollsKept, ApartKept,
     UntouchedKept, OnceKept

LEMMA RollDayKeeps ==
  ASSUME TypeOK, Inv, NEW m \in Machine, RollDay(m) PROVE Inv'
<1> USE DEF RollDay, Inv, dbVars, histVars
<1>1. SameUse
  BY DEF SameUse
<1>2. Honest'
  <2>1. ASSUME NEW n \in Machine PROVE here'[n] <= spent[n][today'[n]]
    <3>1. today'[n] \in Day
      BY BoundsAssumption DEF TypeOK, AgentTypes, Day
    <3> QED
      BY <3>1 DEF Honest, TypeOK, AgentTypes, HistoryTypes
  <2> QED
    BY <2>1 DEF Honest
<1> QED
  BY <1>1, <1>2, PlacedKept, BoundedKept, ReadingKept, PointersKept, OneEnrollsKept, ApartKept,
     UntouchedKept, OnceKept

LEMMA RetireKeeps ==
  ASSUME TypeOK, Inv, NEW m \in Machine, Retire(m) PROVE Inv'
<1> USE DEF Retire, Inv, dbVars
<1>1. SameUse
  BY DEF SameUse
<1>2. Honest'
  BY DEF Honest, TypeOK, AgentTypes, HistoryTypes
<1>3. Pointers'
  BY DEF Pointers, Exists, TypeOK, AgentTypes
<1>4. Untouched'
  <2> SUFFICES ASSUME NEW r \in Rec, mach[r] \notin unfolded, stage[r] \in Enrollees
               PROVE  Fresh(r)' \/ Alone(r)'
    BY DEF Untouched
  <2>1. 0 \notin Rec
    BY DEF Rec
  <2>2. \A n \in Machine : cred'[n] \in {0, cred[n]}
    BY DEF TypeOK, AgentTypes
  <2> QED
    BY <2>1, <2>2 DEF Untouched, Fresh, Alone, Empty, NoUse, Exists
<1> QED
  BY <1>1, <1>2, <1>3, <1>4, PlacedKept, BoundedKept, ReadingKept, OneEnrollsKept, ApartKept, OnceKept

(***************************************************************************)
(* A report's steps.                                                       *)
(***************************************************************************)

\* A report that goes on, or away, speaks for no other record.
LEMMA ReportGoesOn ==
  ASSUME TypeOK, Inv, NEW q \in Slot, NEW x,
         rep' = [rep EXCEPT ![q] = x],
         \/ x.at = "idle"
         \/ rep[q].at # "idle" /\ x.rec = rep[q].rec /\ x.day = rep[q].day /\ x.used = rep[q].used,
         SameUse, UNCHANGED <<stage, mach, kept, heir, cred, unfolded, spent, here, today>>
  PROVE  Pointers' /\ Honest' /\ Untouched'
<1>1. \A p \in Slot : rep'[p].at = "idle" \/
         /\ rep[p].at # "idle" /\ rep'[p].rec = rep[p].rec
         /\ rep'[p].day = rep[p].day /\ rep'[p].used = rep[p].used
  BY DEF TypeOK, RequestTypes
<1>2. Pointers'
  BY <1>1 DEF Inv, Pointers, Exists
<1>3. Honest'
  BY <1>1 DEF Inv, Honest
<1>4. Untouched'
  BY <1>1 DEF Inv, Untouched, SameUse, Fresh, Alone, Empty, NoUse, Exists
<1> QED
  BY <1>2, <1>3, <1>4

LEMMA SendReportKeeps ==
  ASSUME TypeOK, Inv, NEW q \in Slot, SendReport(q) PROVE Inv'
<1> DEFINE r == Resolve(cred[q[1]])
<1> USE DEF SendReport, dbVars, agentVars
<1>1. SameUse
  BY DEF SameUse
<1>2. q[1] \in Machine /\ cred[q[1]] # 0 /\ r # 0 /\ cred[q[1]] \in Rec
  BY BoundsAssumption DEF Slot, TypeOK, AgentTypes, Rec
<1>3. r \in Rec /\ Exists(r) /\ mach[r] = q[1] /\ (r = cred[q[1]] \/ r = heir[cred[q[1]]])
  BY <1>2 DEF Resolve, Inv, Pointers, Exists
<1>4. \A p \in Slot : rep'[p] = IF p = q
         THEN [at |-> "read", rec |-> r, by |-> cred[q[1]], day |-> today[q[1]], used |-> here[q[1]]]
         ELSE rep[p]
  BY DEF TypeOK, RequestTypes
<1>5. Pointers'
  BY <1>2, <1>3, <1>4 DEF Inv, Pointers, Exists
<1>6. Honest'
  BY <1>2, <1>4 DEF Inv, Honest
<1>7. Untouched'
  <2> SUFFICES ASSUME NEW o \in Rec, mach[o] \notin unfolded, stage[o] \in Enrollees
               PROVE  Fresh(o)' \/ Alone(o)'
    BY DEF Untouched
  <2>1. CASE Alone(o)
    BY <2>1 DEF Alone, Exists, Empty, NoUse
  <2>2. CASE Fresh(o)
    <3>1. o # r
      BY <1>2, <1>3, <2>2 DEF Fresh
    <3> QED
      BY <1>4, <2>2, <3>1 DEF Fresh, Empty, NoUse
  <2> QED
    BY <2>1, <2>2 DEF Inv, Untouched
<1> QED
  BY <1>1, <1>5, <1>6, <1>7, PlacedKept, BoundedKept, ReadingKept, OneEnrollsKept, ApartKept,
     OnceKept DEF Inv

LEMMA AnswerKeeps ==
  ASSUME TypeOK, Inv, NEW q \in Slot, Answer(q) \/ Deliver(q) \/ LoseReport(q) PROVE Inv'
<1>1. SameUse /\ UNCHANGED <<stage, mach, book, kept, heir, snap, cred, unfolded, removed, spent, here, today>>
  BY DEF SameUse, Answer, Deliver, LoseReport, dbVars, agentVars, histVars
<1>2. Pointers' /\ Honest' /\ Untouched'
  <2>1. CASE Answer(q)
    <3> DEFINE x == [rep[q] EXCEPT !.at = "answer"]
    <3>1. rep' = [rep EXCEPT ![q] = x] /\ rep[q].at # "idle"
      BY <2>1 DEF Answer
    <3>2. x.rec = rep[q].rec /\ x.day = rep[q].day /\ x.used = rep[q].used
      BY DEF TypeOK, RequestTypes, Report
    <3> HIDE DEF x
    <3> QED
      BY <1>1, <3>1, <3>2, ReportGoesOn
  <2>2. CASE Deliver(q) \/ LoseReport(q)
    <3>1. rep' = [rep EXCEPT ![q] = NoRep] /\ NoRep.at = "idle"
      BY <2>2 DEF Deliver, LoseReport, NoRep
    <3> QED
      BY <1>1, <3>1, ReportGoesOn
  <2> QED
    BY <2>1, <2>2
<1> QED
  BY <1>1, <1>2, PlacedKept, BoundedKept, ReadingKept, OneEnrollsKept, ApartKept, OnceKept DEF Inv

\* The machine of a record that was heard from has nothing on record elsewhere.
LEMMA HeardIsAlone ==
  ASSUME TypeOK, Inv, NEW q \in Slot, rep[q].at # "idle", Exists(rep[q].rec),
         mach[rep[q].rec] \notin unfolded,
         NEW o \in Rec, o # rep[q].rec, mach[o] = mach[rep[q].rec]
  PROVE  Empty(o)
<1> DEFINE r == rep[q].rec
<1>1. r \in Rec /\ stage[r] \in Settled \cup Enrollees
  BY DEF TypeOK, RequestTypes, RecordTypes, Exists, Settled, Enrollees
<1>2. CASE stage[r] \in Settled
  BY <1>1, <1>2 DEF Inv, Apart
<1>3. CASE stage[r] \in Enrollees
  <2>1. ~ Fresh(r)
    BY DEF Fresh
  <2>2. Alone(r)
    BY <1>1, <1>3, <2>1 DEF Inv, Untouched
  <2> QED
    BY <2>2 DEF Alone
<1> QED
  BY <1>1, <1>2, <1>3

LEMMA FileUsageKeeps ==
  ASSUME TypeOK, Inv, NEW q \in Slot, FileUsage(q) PROVE Inv'
<1> DEFINE r == rep[q].rec
           d == rep[q].day
<1>0. /\ r \in Rec /\ d \in Day /\ rep[q].at # "idle" /\ rep[q].used \in Nat /\ q[1] \in Machine
      /\ UNCHANGED <<stage, mach, kept, heir, snap, cred, unfolded, removed, spent, here, today>>
  BY DEF TypeOK, RequestTypes, Report, Slot, FileUsage, agentVars, histVars
<1>1. CASE ~ Exists(r)
  <2>1. SameUse /\ rep' = [rep EXCEPT ![q] = NoRep] /\ NoRep.at = "idle"
    BY <1>1 DEF FileUsage, SameUse, NoRep
  <2>2. Pointers' /\ Honest' /\ Untouched'
    BY <1>0, <2>1, ReportGoesOn
  <2> QED
    BY <1>0, <2>1, <2>2, PlacedKept, BoundedKept, ReadingKept, OneEnrollsKept, ApartKept, OnceKept
       DEF Inv
<1>2. CASE Exists(r)
  <2>1. PICK n : n = Greatest(book[r][d].used, rep[q].used)
    OBVIOUS
  <2>2. book' = [book EXCEPT ![r][d].used = n]
    BY <1>2, <2>1 DEF FileUsage
  <2>3. /\ n \in Nat /\ n >= book[r][d].used
        /\ n <= spent[mach[r]][d] /\ mach[r] = q[1]
    BY <1>0, <1>2, <2>1
       DEF Greatest, Inv, Bounded, Honest, Pointers, Exists, TypeOK, RecordTypes, HistoryTypes, Booking
  <2>4. \A o \in Rec, e \in Day :
           /\ book[o][e].used \in Nat /\ snap[o][e].used \in Nat
           /\ book'[o][e].used = IF o = r /\ e = d THEN n ELSE book[o][e].used
    BY <1>0, <2>2 DEF TypeOK, RecordTypes, Booking
  <2>5. ASSUME mach[r] \notin unfolded, NEW o \in Rec, o # r, mach[o] = mach[r]
        PROVE  Empty(o)
    BY <1>0, <1>2, <2>5, HeardIsAlone
  <2>6. Placed'
    BY <1>0, <1>2, <2>4 DEF Inv, Placed, Exists
  <2>7. Bounded'
    BY <1>0, <2>3, <2>4 DEF Inv, Bounded
  <2>8. Reading'
    <3> SUFFICES ASSUME NEW o \in Rec, stage[o] = "closing", NEW e \in Day
                 PROVE  snap[o][e].used <= book'[o][e].used
      BY <1>0 DEF Inv, Reading
    <3>1. snap[o][e].used <= book[o][e].used
      BY DEF Inv, Reading
    <3> QED
      BY <1>0, <2>3, <2>4, <3>1
  <2>9. Pointers' /\ Honest'
    <3>1. \A p \in Slot : /\ rep'[p].rec = rep[p].rec /\ rep'[p].day = rep[p].day
                          /\ rep'[p].used = rep[p].used
                          /\ (rep'[p].at # "idle" => rep[p].at # "idle")
      BY <1>0, <1>2 DEF FileUsage, TypeOK, RequestTypes, Report
    <3> QED
      BY <1>0, <3>1 DEF Inv, Pointers, Honest, Exists
  <2>10. OneEnrolls'
    BY <1>0, OneEnrollsKept DEF Inv
  <2>11. \A o \in Rec : o # r => (Empty(o) <=> Empty(o)')
    BY <1>0, <2>4 DEF Empty, NoUse
  <2>12. Apart'
    <3> SUFFICES ASSUME NEW x \in Rec, NEW o \in Rec,
                        mach[x] \notin unfolded, stage[x] \in Settled, o # x, mach[o] = mach[x]
                 PROVE  stage[o] \notin Settled /\ Empty(o)'
      BY <1>0 DEF Apart
    <3>1. stage[o] \notin Settled /\ Empty(o)
      BY DEF Inv, Apart
    <3>2. CASE o # r
      BY <2>11, <3>1, <3>2
    <3>3. CASE o = r
      <4>1. stage[r] \in Enrollees
        BY <1>0, <1>2, <3>1, <3>3 DEF Exists, Settled, Enrollees, TypeOK, RecordTypes
      <4>2. ~ Fresh(r)
        BY <1>0 DEF Fresh
      <4>3. Alone(r)
        BY <1>0, <3>3, <4>1, <4>2 DEF Inv, Untouched
      <4> QED
        BY <3>3, <4>3 DEF Alone, Exists, Settled
    <3> QED
      BY <3>2, <3>3
  <2>13. Untouched'
    <3> SUFFICES ASSUME NEW x \in Rec, mach[x] \notin unfolded, stage[x] \in Enrollees
                 PROVE  Fresh(x)' \/ Alone(x)'
      BY <1>0 DEF Untouched
    <3>1. CASE Fresh(x)
      <4>1. x # r
        BY <1>0, <3>1 DEF Fresh
      <4>2. \A p \in Slot : rep'[p].at # "idle" => rep[p].at # "idle" /\ rep'[p].rec = rep[p].rec
        BY <1>0, <1>2 DEF FileUsage, TypeOK, RequestTypes, Report
      <4> QED
        BY <1>0, <2>11, <3>1, <4>1, <4>2 DEF Fresh
    <3>2. CASE Alone(x)
      <4>1. x = r \/ mach[x] # mach[r]
        BY <1>0, <1>2, <3>2 DEF Alone
      <4> QED
        BY <1>0, <2>11, <3>2, <4>1 DEF Alone, Exists
    <3> QED
      BY <3>1, <3>2 DEF Inv, Untouched
  <2>14. Once'
    <3> SUFFICES ASSUME NEW x \in Rec, NEW o \in Rec, NEW e \in Day,
                        stage[x] # "none", mach[x] \notin unfolded, o # x, mach[o] = mach[x]
                 PROVE  NoUse(x, e)' \/ NoUse(o, e)'
      BY <1>0 DEF Once
    <3>1. CASE x = r \/ o = r
      BY <1>0, <2>5, <2>11, <3>1 DEF Empty
    <3>2. CASE x # r /\ o # r
      BY <1>0, <2>4, <3>2 DEF Inv, Once, NoUse
    <3> QED
      BY <3>1, <3>2
  <2> QED
    BY <2>6, <2>7, <2>8, <2>9, <2>10, <2>12, <2>13, <2>14 DEF Inv
<1> QED
  BY <1>1, <1>2

LEMMA GrantKeeps ==
  ASSUME TypeOK, Inv, NEW g \in Grant, GrantStep(g) PROVE Inv'
<1>1. UNCHANGED <<stage, mach, kept, heir, snap, rep, cred, today, here, histVars>>
  BY DEF GrantStep, Credit, Enqueue, CreditTime, dbVars, agentVars
<1>2. SameUse
  <2>1. CASE UNCHANGED book
    BY <2>1 DEF SameUse
  <2>2. CASE \E r \in Rec, d \in Day : book' = [book EXCEPT ![r][d].earned = @ + 1]
    BY <2>2 DEF SameUse, TypeOK, RecordTypes, Booking
  <2> QED
    BY <2>1, <2>2 DEF GrantStep, Credit, Enqueue, CreditTime, dbVars
<1> QED
  BY <1>1, <1>2, PlacedKept, BoundedKept, ReadingKept, PointersKept, HonestKept, OneEnrollsKept,
     ApartKept, UntouchedKept, OnceKept DEF Inv, histVars

(***************************************************************************)
(* Enrollment.                                                             *)
(***************************************************************************)

LEMMA EnrollSpendKeeps ==
  ASSUME TypeOK, Inv, NEW m \in Machine, NEW r \in Rec, EnrollSpend(m, r) PROVE Inv'
<1>0. /\ stage[r] = "none" /\ ~ Enrolling(m)
      /\ SameUse /\ UNCHANGED <<book, kept, heir, snap, rep, cred, unfolded, removed, spent, here, today>>
      /\ \A o \in Rec : /\ stage'[o] = IF o = r THEN "spent" ELSE stage[o]
                        /\ mach'[o] = IF o = r THEN m ELSE mach[o]
  <2>1. stage[r] = "none" /\ ~ Enrolling(m)
    BY DEF EnrollSpend
  <2>2. SameUse /\ UNCHANGED <<book, kept, heir, snap, rep, cred, unfolded, removed, spent, here, today>>
    BY DEF EnrollSpend, SameUse, agentVars, histVars
  <2>3. \A o \in Rec : /\ stage'[o] = IF o = r THEN "spent" ELSE stage[o]
                       /\ mach'[o] = IF o = r THEN m ELSE mach[o]
    BY DEF EnrollSpend, TypeOK, RecordTypes
  <2> QED
    BY <2>1, <2>2, <2>3
<1>1. Empty(r)
  BY <1>0 DEF Inv, Placed, Empty, NoUse, Exists
<1>2. Fresh(r)
  <2>1. \A n \in Machine : cred[n] # r
    BY <1>0 DEF Inv, Pointers, Rec
  <2>2. \A o \in Rec : heir[o] # r
    BY <1>0 DEF Inv, Pointers, Exists, Rec
  <2>3. \A q \in Slot : rep[q].at # "idle" => rep[q].rec # r
    BY <1>0 DEF Inv, Pointers
  <2> QED
    BY <1>1, <2>1, <2>2, <2>3 DEF Fresh
<1>3. Placed'
  BY <1>0, <1>1 DEF Inv, Placed, Exists, Empty, NoUse, TypeOK, HistoryTypes
<1>4. Bounded'
  <2> SUFFICES ASSUME NEW d \in Day
               PROVE  book[r][d].used <= spent[m][d] /\ kept[r][d].used <= spent[m][d]
    BY <1>0 DEF Inv, Bounded
  <2> QED
    BY <1>1 DEF Empty, NoUse, TypeOK, HistoryTypes
<1>5. Reading'
  BY <1>0 DEF Inv, Reading
<1>6. Pointers'
  <2>1. ASSUME NEW n \in Machine, cred[n] # 0 PROVE cred[n] \in Rec /\ cred[n] # r
    BY <1>2, <2>1, BoundsAssumption DEF Fresh, TypeOK, AgentTypes, Rec
  <2>2. ASSUME NEW o \in Rec, heir[o] # 0
        PROVE  heir[o] \in Rec /\ Exists(heir[o]) /\ mach[heir[o]] = mach[o] /\ heir[o] # r /\ o # r
    BY <1>0, <1>2, <2>2 DEF Fresh, Inv, Pointers, Exists, TypeOK, RecordTypes
  <2>3. ASSUME NEW q \in Slot, rep[q].at # "idle" PROVE rep[q].rec \in Rec /\ rep[q].rec # r
    BY <1>2, <2>3 DEF Fresh, TypeOK, RequestTypes
  <2> QED
    BY <1>0, <2>1, <2>2, <2>3 DEF Inv, Pointers, Exists
<1>7. Honest'
  BY <1>0, HonestKept DEF Inv
<1>8. OneEnrolls'
  BY <1>0 DEF Inv, OneEnrolls, Enrolling, Enrollees
<1>9. \A o \in Rec : Empty(o)' <=> Empty(o)
  BY <1>0 DEF Empty, NoUse
<1>10. Apart'
  BY <1>0, <1>1, <1>9 DEF Inv, Apart, Settled
<1>11. Untouched'
  <2> SUFFICES ASSUME NEW x \in Rec, mach'[x] \notin unfolded, stage'[x] \in Enrollees
               PROVE  Fresh(x)' \/ Alone(x)'
    BY <1>0 DEF Untouched
  <2>1. CASE x = r
    BY <1>0, <1>2, <1>9, <2>1 DEF Fresh
  <2>2. CASE x # r /\ Fresh(x)
    BY <1>0, <1>9, <2>2 DEF Fresh
  <2>3. CASE x # r /\ Alone(x)
    <3>1. mach[x] # m
      BY <1>0, <2>3 DEF Enrolling, Enrollees
    <3> QED
      BY <1>0, <1>9, <2>3, <3>1 DEF Alone, Exists
  <2> QED
    BY <1>0, <2>1, <2>2, <2>3 DEF Inv, Untouched
<1>12. Once'
  BY <1>0, <1>1 DEF Inv, Once, Empty, NoUse
<1> QED
  BY <1>3, <1>4, <1>5, <1>6, <1>7, <1>8, <1>10, <1>11, <1>12 DEF Inv

\* A record goes from one stage to another and exists in both.
LEMMA StageMoves ==
  ASSUME TypeOK, Inv, NEW r \in Rec, NEW s \in {"spent", "folding", "ready", "live", "closing"},
         Exists(r), stage' = [stage EXCEPT ![r] = s],
         UNCHANGED <<mach, book, kept, heir, rep, removed>>
  PROVE  /\ \A o \in Rec : /\ stage'[o] = IF o = r THEN s ELSE stage[o]
                           /\ Exists(o)' <=> Exists(o)
                           /\ Empty(o)' <=> Empty(o)
         /\ SameUse /\ Placed'
         /\ (\A m \in Machine : cred'[m] = cred[m] \/ (cred'[m] = r /\ mach[r] = m)) => Pointers'
         /\ unfolded \subseteq unfolded' => Once'
<1>1. \A o \in Rec : stage'[o] = IF o = r THEN s ELSE stage[o]
  BY DEF TypeOK, RecordTypes
<1>2. \A o \in Rec : Exists(o)' <=> Exists(o)
  BY <1>1 DEF Exists
<1>3. \A o \in Rec : Empty(o)' <=> Empty(o)
  BY DEF Empty, NoUse
<1>4. SameUse
  BY DEF SameUse
<1>5. Placed'
  BY <1>1 DEF Inv, Placed, Exists, TypeOK, HistoryTypes
<1>6. ASSUME \A m \in Machine : cred'[m] = cred[m] \/ (cred'[m] = r /\ mach[r] = m)
      PROVE  Pointers'
  <2>1. ASSUME NEW m \in Machine, cred'[m] # 0
        PROVE  stage'[cred'[m]] # "none" /\ mach[cred'[m]] = m
    <3>1. cred'[m] \in Rec
      BY <1>6, <2>1, BoundsAssumption DEF TypeOK, AgentTypes, Rec
    <3> QED
      BY <1>1, <1>6, <2>1, <3>1 DEF Inv, Pointers
  <2>2. ASSUME NEW o \in Rec, heir[o] # 0
        PROVE  stage'[o] = "gone" /\ Exists(heir[o])' /\ mach[heir[o]] = mach[o]
    BY <1>1, <1>2, <2>2 DEF Inv, Pointers, Exists
  <2>3. ASSUME NEW q \in Slot, rep[q].at # "idle"
        PROVE  stage'[rep[q].rec] # "none" /\ mach[rep[q].rec] = q[1]
    BY <1>1, <2>3 DEF Inv, Pointers, TypeOK, RequestTypes
  <2> QED
    BY <2>1, <2>2, <2>3 DEF Pointers
<1>7. ASSUME unfolded \subseteq unfolded' PROVE Once'
  BY <1>1, <1>7 DEF Inv, Once, NoUse, Exists
<1> QED
  BY <1>1, <1>2, <1>3, <1>4, <1>5, <1>6, <1>7

LEMMA FoldReadKeeps ==
  ASSUME TypeOK, Inv, NEW r \in Rec, FoldRead(r) PROVE Inv'
<1>0. /\ stage[r] = "spent" /\ Exists(r)
      /\ stage' = [stage EXCEPT ![r] = "folding"]
      /\ UNCHANGED <<mach, book, kept, heir, rep, cred, unfolded, removed, spent, here, today>>
  BY DEF FoldRead, Exists, agentVars, histVars
<1>1. /\ \A o \in Rec : /\ stage'[o] = IF o = r THEN "folding" ELSE stage[o]
                        /\ Exists(o)' <=> Exists(o)
                        /\ Empty(o)' <=> Empty(o)
      /\ SameUse /\ Placed' /\ Pointers' /\ Once'
  <2>1. unfolded \subseteq unfolded' /\ \A m \in Machine : cred'[m] = cred[m] \/ (cred'[m] = r /\ mach[r] = m)
    BY <1>0
  <2> QED
    BY <1>0, <2>1, StageMoves
<1>2. PICK s \in [Day -> [used : Amounts(r), earned : Amounts(r)]] :
            IsLargest(s, r) /\ snap' = [snap EXCEPT ![r] = s]
  BY DEF FoldRead
<1>3. ASSUME NEW d \in Day PROVE s[d].used <= spent[mach[r]][d]
  <2>1. CASE s[d].used = 0
    BY <1>0, <2>1 DEF TypeOK, HistoryTypes, RecordTypes
  <2>2. CASE \E h \in Held(r) : s[d].used = h[d].used
    <3>1. PICK o \in Rec : /\ stage[o] # "none" /\ mach[o] = mach[r]
                           /\ s[d].used = book[o][d].used \/ s[d].used = kept[o][d].used
      BY <2>2 DEF Held, Twins, KeptOf, Exists
    <3> QED
      BY <3>1 DEF Inv, Bounded
  <2> QED
    BY <1>2, <2>1, <2>2 DEF IsLargest
<1>4. Bounded'
  BY <1>0, <1>1, <1>2, <1>3 DEF Inv, Bounded, TypeOK, RecordTypes
<1>5. Reading'
  <2>1. \A o \in Rec : mach[o] = mach[r] => stage[o] # "closing"
    BY <1>0 DEF FoldRead, Twins, Exists
  <2> QED
    BY <1>0, <1>1, <1>2, <2>1 DEF Inv, Reading, TypeOK, RecordTypes
<1>6. Honest'
  BY <1>0, HonestKept DEF Inv
<1>7. OneEnrolls'
  BY <1>0, <1>1 DEF Inv, OneEnrolls, Enrollees
<1>8. Apart'
  BY <1>0, <1>1 DEF Inv, Apart, Settled
<1>9. Untouched'
  BY <1>0, <1>1 DEF Inv, Untouched, Fresh, Alone, Enrollees
<1> QED
  BY <1>1, <1>4, <1>5, <1>6, <1>7, <1>8, <1>9 DEF Inv

LEMMA FoldFailsKeeps ==
  ASSUME TypeOK, Inv, NEW r \in Rec, FoldFails(r) PROVE Inv'
<1>0. /\ stage[r] \in Enrollees /\ Exists(r)
      /\ stage' = [stage EXCEPT ![r] = "ready"] /\ snap' = [snap EXCEPT ![r] = Blank]
      /\ unfolded' = unfolded \cup {mach[r]}
      /\ UNCHANGED <<mach, book, kept, heir, rep, cred, removed, spent, here, today>>
  BY DEF FoldFails, Exists, Enrollees, agentVars
<1>1. /\ \A o \in Rec : /\ stage'[o] = IF o = r THEN "ready" ELSE stage[o]
                        /\ Exists(o)' <=> Exists(o)
                        /\ Empty(o)' <=> Empty(o)
      /\ SameUse /\ Placed' /\ Pointers' /\ Once'
  <2>1. unfolded \subseteq unfolded' /\ \A m \in Machine : cred'[m] = cred[m] \/ (cred'[m] = r /\ mach[r] = m)
    BY <1>0
  <2> QED
    BY <1>0, <2>1, StageMoves
<1>2. Bounded'
  <2>1. \A o \in Rec \ {r} : snap'[o] = snap[o]
    BY <1>0 DEF TypeOK, RecordTypes
  <2>2. stage[r] # "none"
    BY <1>0 DEF Exists
  <2> QED
    BY <1>0, <1>1, <2>1, <2>2 DEF Inv, Bounded
<1>3. Reading'
  BY <1>0, <1>1 DEF Inv, Reading, TypeOK, RecordTypes
<1>4. Honest'
  BY <1>0, HonestKept DEF Inv
<1>5. OneEnrolls'
  BY <1>0, <1>1 DEF Inv, OneEnrolls, Enrollees
<1>6. Apart'
  BY <1>0, <1>1 DEF Inv, Apart
<1>7. Untouched'
  BY <1>0, <1>1 DEF Inv, Untouched, Fresh, Alone
<1> QED
  BY <1>1, <1>2, <1>3, <1>4, <1>5, <1>6, <1>7 DEF Inv

LEMMA ReplyKeeps ==
  ASSUME TypeOK, Inv, NEW r \in Rec, Reply(r) PROVE Inv'
<1>0. /\ stage[r] = "ready" /\ Exists(r)
      /\ stage' = [stage EXCEPT ![r] = "live"]
      /\ UNCHANGED <<mach, book, kept, heir, snap, rep, unfolded, removed, spent, here, today>>
      /\ \A m \in Machine : cred'[m] = IF m = mach[r] THEN r ELSE cred[m]
  BY DEF Reply, Exists, histVars, TypeOK, AgentTypes
<1>1. /\ \A o \in Rec : /\ stage'[o] = IF o = r THEN "live" ELSE stage[o]
                        /\ Exists(o)' <=> Exists(o)
                        /\ Empty(o)' <=> Empty(o)
      /\ SameUse /\ Placed' /\ Pointers' /\ Once'
  <2>1. unfolded \subseteq unfolded' /\ \A m \in Machine : cred'[m] = cred[m] \/ (cred'[m] = r /\ mach[r] = m)
    BY <1>0
  <2> QED
    BY <1>0, <2>1, StageMoves
<1>2. Bounded'
  BY <1>0, <1>1 DEF Inv, Bounded
<1>3. Reading'
  BY <1>0, <1>1 DEF Inv, Reading
<1>4. Honest'
  BY <1>0, HonestKept DEF Inv
<1>5. OneEnrolls'
  BY <1>0, <1>1 DEF Inv, OneEnrolls, Enrollees
<1>6. Apart'
  BY <1>0, <1>1 DEF Inv, Apart, Settled
<1>7. Untouched'
  BY <1>0, <1>1 DEF Inv, Untouched, Fresh, Alone, Enrollees
<1> QED
  BY <1>1, <1>2, <1>3, <1>4, <1>5, <1>6, <1>7 DEF Inv

LEMMA EnrollRetryKeeps ==
  ASSUME TypeOK, Inv, NEW r \in Rec, EnrollRetry(r) PROVE Inv'
<1>0. /\ stage[r] = "ready" /\ Exists(r) /\ ~ Enrolling(mach[r])
      /\ stage' = [stage EXCEPT ![r] = "spent"]
      /\ UNCHANGED <<mach, book, kept, heir, snap, rep, cred, unfolded, removed, spent, here, today>>
  BY DEF EnrollRetry, Exists, histVars, agentVars
<1>1. /\ \A o \in Rec : /\ stage'[o] = IF o = r THEN "spent" ELSE stage[o]
                        /\ Exists(o)' <=> Exists(o)
                        /\ Empty(o)' <=> Empty(o)
      /\ SameUse /\ Placed' /\ Pointers' /\ Once'
  <2>1. unfolded \subseteq unfolded' /\ \A m \in Machine : cred'[m] = cred[m] \/ (cred'[m] = r /\ mach[r] = m)
    BY <1>0
  <2> QED
    BY <1>0, <2>1, StageMoves
<1>2. Bounded'
  BY <1>0, <1>1 DEF Inv, Bounded
<1>3. Reading'
  BY <1>0, <1>1 DEF Inv, Reading
<1>4. Honest'
  BY <1>0, HonestKept DEF Inv
<1>5. OneEnrolls'
  BY <1>0, <1>1 DEF Inv, OneEnrolls, Enrollees, Enrolling
<1>6. Apart'
  BY <1>0, <1>1 DEF Inv, Apart, Settled
<1>7. Untouched'
  <2>1. ASSUME mach[r] \notin unfolded PROVE Alone(r)
    <3> SUFFICES ASSUME NEW o \in Rec \ {r}, mach[o] = mach[r]
                 PROVE  ~ Exists(o) /\ Empty(o)
      BY DEF Alone
    <3>1. stage[o] \notin Settled /\ Empty(o)
      BY <1>0, <2>1 DEF Inv, Apart, Settled
    <3>2. stage[o] \notin Enrollees
      BY <1>0 DEF Enrolling, Enrollees
    <3> QED
      BY <3>1, <3>2 DEF Settled, Enrollees, Exists, TypeOK, RecordTypes
  <2> QED
    BY <1>0, <1>1, <2>1 DEF Inv, Untouched, Fresh, Alone, Enrollees
<1> QED
  BY <1>1, <1>2, <1>3, <1>4, <1>5, <1>6, <1>7 DEF Inv

(***************************************************************************)
(* Removal.                                                                *)
(***************************************************************************)

LEMMA RemoveReadKeeps ==
  ASSUME TypeOK, Inv, NEW r \in Rec, RemoveRead(r) PROVE Inv'
<1>0. /\ stage[r] \in {"ready", "live"} /\ Exists(r)
      /\ \A o \in Rec : mach[o] = mach[r] => stage[o] # "folding"
      /\ stage' = [stage EXCEPT ![r] = "closing"] /\ snap' = [snap EXCEPT ![r] = book[r]]
      /\ UNCHANGED <<mach, book, kept, heir, rep, cred, unfolded, removed, spent, here, today>>
  BY DEF RemoveRead, Exists, histVars, agentVars
<1>1. /\ \A o \in Rec : /\ stage'[o] = IF o = r THEN "closing" ELSE stage[o]
                        /\ Exists(o)' <=> Exists(o)
                        /\ Empty(o)' <=> Empty(o)
      /\ SameUse /\ Placed' /\ Pointers' /\ Once'
  <2>1. unfolded \subseteq unfolded' /\ \A m \in Machine : cred'[m] = cred[m] \/ (cred'[m] = r /\ mach[r] = m)
    BY <1>0
  <2> QED
    BY <1>0, <2>1, StageMoves
<1>2. \A o \in Rec : snap'[o] = IF o = r THEN book[r] ELSE snap[o]
  BY <1>0 DEF TypeOK, RecordTypes
<1>3. Bounded'
  BY <1>0, <1>1, <1>2 DEF Inv, Bounded
<1>4. Reading'
  BY <1>0, <1>1, <1>2 DEF Inv, Reading, TypeOK, RecordTypes, Booking
<1>5. Honest'
  BY <1>0, HonestKept DEF Inv
<1>6. OneEnrolls'
  BY <1>0, <1>1 DEF Inv, OneEnrolls, Enrollees
<1>7. Apart'
  BY <1>0, <1>1 DEF Inv, Apart, Settled
<1>8. Untouched'
  BY <1>0, <1>1 DEF Inv, Untouched, Fresh, Alone, Enrollees
<1> QED
  BY <1>1, <1>3, <1>4, <1>5, <1>6, <1>7, <1>8 DEF Inv

LEMMA RemoveKeeps ==
  ASSUME TypeOK, Inv, NEW r \in Rec, Remove(r) PROVE Inv'
<1>0. /\ stage[r] = "closing"
      /\ removed' = removed \cup {r}
      /\ UNCHANGED <<mach, rep, cred, unfolded, spent, here, today>>
  BY DEF Remove, agentVars
<1>1. \A o \in Rec : /\ stage'[o] = IF o = r THEN "gone" ELSE stage[o]
                     /\ book'[o] = IF o = r THEN Blank ELSE book[o]
                     /\ kept'[o] = IF o = r THEN snap[r] ELSE kept[o]
                     /\ snap'[o] = IF o = r THEN Blank ELSE snap[o]
                     /\ heir'[o] = IF heir[o] = r THEN 0 ELSE heir[o]
  BY DEF Remove, TypeOK, RecordTypes
<1>2. \A d \in Day : Blank[d].used = 0
  BY DEF Blank, Nobody
<1>3. \A o \in Rec : o # r => (Empty(o)' <=> Empty(o)) /\ (Exists(o)' <=> Exists(o))
  BY <1>1 DEF Empty, NoUse, Exists
<1>4. ASSUME mach[r] \notin unfolded, NEW o \in Rec, o # r, mach[o] = mach[r]
      PROVE  stage[o] \notin Settled /\ Empty(o)
  BY <1>0, <1>4 DEF Inv, Apart, Settled
<1>5. Placed'
  BY <1>0, <1>1, <1>2 DEF Inv, Placed, Exists, TypeOK, HistoryTypes
<1>6. Bounded'
  <2>1. \A d \in Day : /\ 0 <= spent[mach[r]][d]
                       /\ snap[r][d].used <= spent[mach[r]][d]
    BY <1>0 DEF Inv, Bounded, TypeOK, RecordTypes, HistoryTypes
  <2> QED
    BY <1>0, <1>1, <1>2, <2>1 DEF Inv, Bounded
<1>7. Reading'
  BY <1>0, <1>1 DEF Inv, Reading
<1>8. Pointers'
  <2>1. ASSUME NEW m \in Machine, cred[m] # 0
        PROVE  stage'[cred[m]] # "none" /\ mach[cred[m]] = m
    <3>1. cred[m] \in Rec
      BY <2>1, BoundsAssumption DEF TypeOK, AgentTypes, Rec
    <3> QED
      BY <1>1, <2>1, <3>1 DEF Inv, Pointers
  <2>2. ASSUME NEW o \in Rec, heir'[o] # 0
        PROVE  stage'[o] = "gone" /\ Exists(heir[o])' /\ mach[heir'[o]] = mach[o]
    <3>1. heir'[o] = heir[o] /\ heir[o] # r /\ stage[o] = "gone" /\ Exists(heir[o])
          /\ mach[heir[o]] = mach[o]
      BY <1>1, <2>2 DEF Inv, Pointers
    <3> QED
      BY <1>0, <1>1, <1>3, <3>1 DEF Exists
  <2>3. ASSUME NEW q \in Slot, rep[q].at # "idle"
        PROVE  stage'[rep[q].rec] # "none" /\ mach[rep[q].rec] = q[1]
    BY <1>1, <2>3 DEF Inv, Pointers, TypeOK, RequestTypes
  <2> QED
    BY <1>0, <2>1, <2>2, <2>3 DEF Pointers
<1>9. Honest'
  BY <1>0, HonestKept DEF Inv
<1>10. OneEnrolls'
  BY <1>0, <1>1 DEF Inv, OneEnrolls, Enrollees
<1>11. Apart'
  BY <1>0, <1>1, <1>3, <1>4 DEF Inv, Apart, Settled
<1>12. Untouched'
  <2> SUFFICES ASSUME NEW x \in Rec, mach[x] \notin unfolded, stage'[x] \in Enrollees
               PROVE  Fresh(x)' \/ Alone(x)'
    BY <1>0 DEF Untouched
  <2>1. x # r /\ stage[x] \in Enrollees
    BY <1>1 DEF Enrollees
  <2>2. CASE Fresh(x)
    <3>1. \A o \in Rec : heir'[o] # x
      BY <1>1, <2>2 DEF Fresh, Rec
    <3> QED
      BY <1>0, <1>3, <2>1, <2>2, <3>1 DEF Fresh
  <2>3. CASE Alone(x)
    <3>1. mach[r] # mach[x]
      BY <1>0, <2>1, <2>3 DEF Alone, Exists
    <3> QED
      BY <1>0, <1>3, <2>3, <3>1 DEF Alone
  <2> QED
    BY <2>1, <2>2, <2>3 DEF Inv, Untouched
<1>13. Once'
  <2> SUFFICES ASSUME NEW x \in Rec, NEW o \in Rec, NEW d \in Day,
                      stage'[x] # "none", mach[x] \notin unfolded, o # x, mach[o] = mach[x]
               PROVE  NoUse(x, d)' \/ NoUse(o, d)'
    BY <1>0 DEF Once
  <2>1. CASE x = r \/ o = r
    BY <1>3, <1>4, <2>1 DEF Empty
  <2>2. CASE x # r /\ o # r
    BY <1>1, <2>2 DEF Inv, Once, NoUse
  <2> QED
    BY <2>1, <2>2
<1> QED
  BY <1>5, <1>6, <1>7, <1>8, <1>9, <1>10, <1>11, <1>12, <1>13 DEF Inv

(***************************************************************************)
(* The fold.                                                               *)
(***************************************************************************)

LEMMA FoldKeeps ==
  ASSUME TypeOK, Inv, NEW r \in Rec, Fold(r) PROVE Inv'
<1>0. /\ stage[r] = "folding" /\ Exists(r) /\ r \notin Twins(r)
      /\ UNCHANGED <<mach, rep, cred, unfolded, removed, spent, here, today>>
  BY DEF Fold, Exists, Twins, agentVars, histVars
<1>1. \A o \in Rec : /\ stage'[o] = IF o = r THEN "ready" ELSE IF o \in Twins(r) THEN "gone" ELSE stage[o]
                     /\ book'[o] = IF o = r THEN Merge(book[r], snap[r])
                                   ELSE IF o \in Twins(r) THEN Blank ELSE book[o]
                     /\ kept'[o] = IF o \in KeptOf(r) THEN Blank ELSE kept[o]
                     /\ snap'[o] = IF o = r THEN Blank ELSE snap[o]
                     /\ heir'[o] = IF o \in Twins(r) \/ heir[o] \in Twins(r) THEN r ELSE heir[o]
  BY DEF Fold, TypeOK, RecordTypes
<1>2. \A d \in Day : Blank[d].used = 0
  BY DEF Blank, Nobody
<1>3. ASSUME NEW o \in Rec, o # r, mach[o] = mach[r]
      PROVE  ~ Exists(o)' /\ Empty(o)'
  <2>1. CASE Exists(o)
    <3>1. o \in Twins(r) /\ o \notin KeptOf(r)
      BY <1>3, <2>1 DEF Twins, KeptOf, Exists
    <3>2. \A d \in Day : kept[o][d].used = 0
      BY <2>1 DEF Inv, Placed, Exists
    <3> QED
      BY <1>1, <1>2, <1>3, <3>1, <3>2 DEF Empty, NoUse, Exists
  <2>2. CASE ~ Exists(o)
    <3>1. o \notin Twins(r) /\ \A d \in Day : book[o][d].used = 0
      BY <2>2 DEF Inv, Placed, Twins
    <3>2. o \in KeptOf(r) \/ \A d \in Day : kept[o][d].used = 0
      BY <1>3 DEF Inv, Placed, KeptOf
    <3> QED
      BY <1>1, <1>2, <1>3, <2>2, <3>1, <3>2 DEF Empty, NoUse, Exists
  <2> QED
    BY <2>1, <2>2
<1>4. ASSUME NEW o \in Rec, mach[o] # mach[r]
      PROVE  /\ stage'[o] = stage[o] /\ book'[o] = book[o] /\ kept'[o] = kept[o] /\ snap'[o] = snap[o]
             /\ (Exists(o)' <=> Exists(o)) /\ (Empty(o)' <=> Empty(o))
  <2>1. o # r /\ o \notin Twins(r) /\ o \notin KeptOf(r)
    BY <1>4 DEF Twins, KeptOf
  <2> QED
    BY <1>1, <2>1 DEF Exists, Empty, NoUse
<1>5. \A d \in Day : /\ kept'[r][d].used = 0
                     /\ book'[r][d].used <= spent[mach[r]][d]
  <2> SUFFICES ASSUME NEW d \in Day
               PROVE  kept'[r][d].used = 0 /\ book'[r][d].used <= spent[mach[r]][d]
    OBVIOUS
  <2>1. r \notin KeptOf(r) /\ kept[r][d].used = 0
    BY <1>0 DEF KeptOf, Inv, Placed
  <2>2. book'[r][d].used = Greatest(book[r][d].used, snap[r][d].used)
    <3>1. book'[r] = Merge(book[r], snap[r])
      BY <1>1
    <3>2. Merge(book[r], snap[r])[d].used = Greatest(book[r][d].used, snap[r][d].used)
      BY DEF Merge
    <3> QED
      BY <3>1, <3>2
  <2>3. book[r][d].used <= spent[mach[r]][d] /\ snap[r][d].used <= spent[mach[r]][d]
    BY <1>0 DEF Inv, Bounded
  <2> QED
    BY <1>1, <2>1, <2>2, <2>3 DEF Greatest
<1>6. stage'[r] = "ready"
  BY <1>1
<1>7. Placed'
  <2> SUFFICES ASSUME NEW o \in Rec, NEW d \in Day
               PROVE  /\ ~ Exists(o)' => book'[o][d].used = 0
                      /\ stage'[o] # "gone" => kept'[o][d].used = 0
                      /\ o \in removed => stage'[o] = "gone"
    BY <1>0, BoundsAssumption DEF Placed, TypeOK, HistoryTypes, Day
  <2>1. o \in removed => o # r /\ o \notin Twins(r) /\ stage[o] = "gone"
    BY <1>0 DEF Inv, Placed, Twins, Exists
  <2>2. CASE o = r
    BY <1>5, <1>6, <2>1, <2>2 DEF Exists
  <2>3. CASE o # r /\ mach[o] = mach[r]
    BY <1>1, <1>3, <2>1, <2>3 DEF Empty, NoUse
  <2>4. CASE mach[o] # mach[r]
    BY <1>4, <2>1, <2>4 DEF Inv, Placed
  <2> QED
    BY <2>2, <2>3, <2>4
<1>8. Bounded'
  <2> SUFFICES ASSUME NEW o \in Rec, NEW d \in Day, stage'[o] # "none"
               PROVE  /\ book'[o][d].used <= spent[mach[o]][d]
                      /\ kept'[o][d].used <= spent[mach[o]][d]
                      /\ stage'[o] \in {"folding", "closing"} => snap'[o][d].used <= spent[mach[o]][d]
    BY <1>0 DEF Bounded
  <2>1. stage[o] # "none" /\ spent[mach[o]][d] \in Nat
    <3>1. stage[o] # "none"
      BY <1>0, <1>1 DEF Twins, Exists
    <3> QED
      BY <3>1 DEF TypeOK, RecordTypes, HistoryTypes
  <2>2. CASE o = r
    BY <1>5, <1>6, <2>1, <2>2
  <2>3. CASE o # r /\ mach[o] = mach[r]
    BY <1>3, <2>1, <2>3 DEF Empty, NoUse, Exists
  <2>4. CASE mach[o] # mach[r]
    BY <1>4, <2>1, <2>4 DEF Inv, Bounded
  <2> QED
    BY <2>2, <2>3, <2>4
<1>9. Reading'
  <2> SUFFICES ASSUME NEW o \in Rec, stage'[o] = "closing"
               PROVE  /\ \A d \in Day : snap'[o][d].used <= book'[o][d].used
                      /\ \A x \in Rec : mach[x] = mach[o] => stage'[x] # "folding"
    BY <1>0 DEF Reading
  <2>1. mach[o] # mach[r]
    BY <1>3, <1>6 DEF Exists
  <2> QED
    BY <1>4, <2>1 DEF Inv, Reading
<1>10. Pointers'
  <2>1. ASSUME NEW m \in Machine, cred[m] # 0
        PROVE  stage'[cred[m]] # "none" /\ mach[cred[m]] = m
    <3>1. cred[m] \in Rec
      BY <2>1, BoundsAssumption DEF TypeOK, AgentTypes, Rec
    <3> QED
      BY <1>1, <2>1, <3>1 DEF Inv, Pointers
  <2>2. ASSUME NEW o \in Rec, heir'[o] # 0
        PROVE  stage'[o] = "gone" /\ Exists(heir[o])' /\ mach[heir'[o]] = mach[o]
    <3>1. CASE o \in Twins(r)
      BY <1>0, <1>1, <1>6, <3>1 DEF Twins, Exists
    <3>2. CASE o \notin Twins(r)
      <4>1. heir[o] # 0
        BY <1>1, <2>2, <3>2 DEF Twins, Rec
      <4>2. stage[o] = "gone" /\ Exists(heir[o]) /\ mach[heir[o]] = mach[o]
        BY <4>1 DEF Inv, Pointers
      <4>3. stage'[o] = "gone"
        BY <1>0, <1>1, <3>2, <4>2
      <4>4. CASE heir[o] \in Twins(r)
        BY <1>1, <1>6, <4>2, <4>3, <4>4 DEF Twins, Exists
      <4>5. CASE heir[o] \notin Twins(r)
        BY <1>1, <3>2, <4>2, <4>3, <4>5 DEF Exists
      <4> QED
        BY <4>4, <4>5
    <3> QED
      BY <3>1, <3>2
  <2>3. ASSUME NEW q \in Slot, rep[q].at # "idle"
        PROVE  stage'[rep[q].rec] # "none" /\ mach[rep[q].rec] = q[1]
    BY <1>1, <2>3 DEF Inv, Pointers, TypeOK, RequestTypes
  <2> QED
    BY <1>0, <2>1, <2>2, <2>3 DEF Pointers
<1>11. Honest'
  BY <1>0, HonestKept DEF Inv
<1>12. \A o \in Rec : stage'[o] \in Enrollees => stage[o] \in Enrollees /\ mach[o] # mach[r]
  BY <1>1, <1>3, <1>6 DEF Enrollees, Exists
<1>13. OneEnrolls'
  BY <1>0, <1>12 DEF Inv, OneEnrolls
<1>14. Apart'
  <2> SUFFICES ASSUME NEW x \in Rec, NEW o \in Rec,
                      mach[x] \notin unfolded, stage'[x] \in Settled, o # x, mach[o] = mach[x]
               PROVE  stage'[o] \notin Settled /\ Empty(o)'
    BY <1>0 DEF Apart
  <2>1. CASE mach[x] = mach[r]
    <3>1. x = r
      BY <1>3, <2>1 DEF Settled, Exists
    <3> QED
      BY <1>3, <3>1 DEF Settled, Exists
  <2>2. CASE mach[x] # mach[r]
    BY <1>4, <2>2 DEF Inv, Apart
  <2> QED
    BY <2>1, <2>2
<1>15. Untouched'
  <2> SUFFICES ASSUME NEW x \in Rec, mach[x] \notin unfolded, stage'[x] \in Enrollees
               PROVE  Fresh(x)' \/ Alone(x)'
    BY <1>0 DEF Untouched
  <2>1. stage[x] \in Enrollees /\ mach[x] # mach[r]
    BY <1>12
  <2>2. CASE Fresh(x)
    <3>1. \A o \in Rec : heir'[o] # x
      BY <1>1, <2>1, <2>2 DEF Fresh
    <3> QED
      BY <1>0, <1>4, <2>1, <2>2, <3>1 DEF Fresh
  <2>3. CASE Alone(x)
    BY <1>0, <1>4, <2>1, <2>3 DEF Alone
  <2> QED
    BY <2>1, <2>2, <2>3 DEF Inv, Untouched
<1>16. Once'
  <2> SUFFICES ASSUME NEW x \in Rec, NEW o \in Rec, NEW d \in Day,
                      stage'[x] # "none", mach[x] \notin unfolded, o # x, mach[o] = mach[x]
               PROVE  NoUse(x, d)' \/ NoUse(o, d)'
    BY <1>0 DEF Once
  <2>1. CASE mach[x] = mach[r]
    BY <1>3, <2>1 DEF Empty
  <2>2. CASE mach[x] # mach[r]
    BY <1>4, <2>2 DEF Inv, Once, NoUse
  <2> QED
    BY <2>1, <2>2
<1> QED
  BY <1>7, <1>8, <1>9, <1>10, <1>11, <1>13, <1>14, <1>15, <1>16 DEF Inv

(***************************************************************************)
(* The theorems.                                                           *)
(***************************************************************************)

LEMMA InvInit == Init => IInv
<1> SUFFICES ASSUME Init PROVE IInv
  OBVIOUS
<1>1. TypeOK
  BY TypeInit
<1>2. /\ \A r \in Rec : stage[r] = "none" /\ heir[r] = 0
      /\ \A r \in Rec, d \in Day : book[r][d].used = 0 /\ kept[r][d].used = 0
      /\ \A m \in Machine : cred[m] = 0 /\ here[m] = 0
      /\ \A q \in Slot : rep[q].at = "idle"
      /\ \A m \in Machine, d \in Day : spent[m][d] = 0
      /\ \A m \in Machine : today[m] \in Day
      /\ removed = {}
  BY BoundsAssumption DEF Init, Blank, Nobody, NoRep, Day
<1>3. Placed /\ Bounded /\ Reading /\ Pointers /\ Honest
  BY <1>2 DEF Placed, Bounded, Reading, Pointers, Honest
<1>4. OneEnrolls /\ Apart /\ Untouched /\ Once
  BY <1>2 DEF OneEnrolls, Apart, Untouched, Once, Settled, Enrollees
<1> QED
  BY <1>1, <1>3, <1>4 DEF IInv, Inv

LEMMA InvStutter == TypeOK /\ Inv /\ UNCHANGED vars => Inv'
<1> SUFFICES ASSUME TypeOK, Inv, UNCHANGED vars PROVE Inv'
  OBVIOUS
<1>1. SameUse /\ UNCHANGED <<stage, mach, kept, heir, snap, rep, cred, today, here>>
      /\ UNCHANGED <<removed, spent, unfolded>>
  BY DEF vars, dbVars, agentVars, histVars, SameUse
<1> QED
  BY <1>1, PlacedKept, BoundedKept, ReadingKept, PointersKept, HonestKept, OneEnrollsKept,
     ApartKept, UntouchedKept, OnceKept DEF Inv

LEMMA InvStep == IInv /\ [Next]_vars => IInv'
<1> SUFFICES ASSUME TypeOK, Inv, [Next]_vars PROVE IInv'
  BY DEF IInv
<1>1. TypeOK'
  BY TypeStep
<1>2. Inv'
  <2>1. ASSUME NEW m \in Machine, Use(m) \/ RollDay(m) \/ Retire(m) PROVE Inv'
    BY <2>1, UseKeeps, RollDayKeeps, RetireKeeps
  <2>2. ASSUME NEW q \in Slot, ReportStep(q) PROVE Inv'
    BY <2>2, SendReportKeeps, FileUsageKeeps, AnswerKeeps DEF ReportStep
  <2>3. ASSUME NEW r \in Rec, RecordStep(r) PROVE Inv'
    BY <2>3, EnrollSpendKeeps, FoldReadKeeps, FoldKeeps, FoldFailsKeeps, ReplyKeeps,
       EnrollRetryKeeps, RemoveReadKeeps, RemoveKeeps DEF RecordStep
  <2>4. ASSUME NEW g \in Grant, GrantStep(g) PROVE Inv'
    BY <2>4, GrantKeeps
  <2> QED
    BY <2>1, <2>2, <2>3, <2>4, InvStutter DEF Next
<1> QED
  BY <1>1, <1>2 DEF IInv

\* What holds of the records, the transactions and the tokens at all times.
THEOREM Invariance == Spec => []IInv
BY InvInit, InvStep, PTL DEF Spec

\* "The person's day is counted once" (machine.rs): whatever is enrolled,
\* retried, folded, removed and reported at the same time, no minute of a
\* machine is on record twice, unless a fold failed there.
THEOREM DayCountedOnce == Spec => []CountedOnce
<1>1. IInv => CountedOnce
  <2> SUFFICES ASSUME TypeOK, Inv PROVE CountedOnce
    BY DEF IInv
  <2> SUFFICES ASSUME NEW r \in Rec, NEW d \in Day, mach[r] \in Machine \ unfolded
               PROVE  /\ UsedOn(r, d) <= spent[mach[r]][d]
                      /\ \A o \in Rec \ {r} : mach[o] = mach[r] => UsedOn(r, d) = 0 \/ UsedOn(o, d) = 0
    BY DEF CountedOnce
  <2>1. CASE stage[r] = "none"
    <3>1. NoUse(r, d)
      BY <2>1 DEF Inv, Placed, NoUse, Exists
    <3> QED
      BY <3>1 DEF UsedOn, NoUse, TypeOK, HistoryTypes
  <2>2. CASE stage[r] # "none"
    <3>1. UsedOn(r, d) <= spent[mach[r]][d]
      <4>1. book[r][d].used = 0 \/ kept[r][d].used = 0
        BY DEF Inv, Placed, Exists
      <4>2. book[r][d].used \in Nat /\ kept[r][d].used \in Nat
        BY DEF TypeOK, RecordTypes, Booking
      <4> QED
        BY <2>2, <4>1, <4>2 DEF Inv, Bounded, UsedOn
    <3>2. ASSUME NEW o \in Rec \ {r}, mach[o] = mach[r]
          PROVE  UsedOn(r, d) = 0 \/ UsedOn(o, d) = 0
      BY <2>2, <3>2 DEF Inv, Once, NoUse, UsedOn
    <3> QED
      BY <3>1, <3>2
  <2> QED
    BY <2>1, <2>2
<1> QED
  BY Invariance, <1>1, PTL

\* A token goes on being heard through a step that leaves its pointers alone.
LEMMA StillHeard ==
  ASSUME TypeOK, NEW m \in Machine, Resolve(cred[m]) # 0, cred'[m] = cred[m],
         heir' = heir, \A o \in Rec : Exists(o) => Exists(o)'
  PROVE  Resolve(cred[m])' # 0
BY DEF Resolve, Rec, Exists

\* Enrolling a machine again never makes its agent hear 410 (machine.rs): a
\* token is answered until a parent removes the record it speaks for.
THEOREM TokensHeardUntilRemoved == Spec => HeardUntilRemoved
<1> DEFINE Heard == \A m \in Machine : Resolve(cred[m]) # 0 /\ cred'[m] = cred[m] =>
                       Resolve(cred[m])' # 0 \/ Resolve(cred[m]) \in removed' \ removed
<1>1. IInv /\ [Next]_vars => [Heard]_vars
  <2> SUFFICES ASSUME TypeOK, Inv, Next,
                      NEW m \in Machine, Resolve(cred[m]) # 0, cred'[m] = cred[m]
               PROVE  Resolve(cred[m])' # 0 \/ Resolve(cred[m]) \in removed' \ removed
    BY DEF IInv
  <2>1. CASE heir' = heir /\ \A o \in Rec : Exists(o) => Exists(o)'
    BY <2>1, StillHeard
  <2>2. ASSUME NEW r \in Rec, Fold(r)
        PROVE  Resolve(cred[m])' # 0
    <3>1. \A o \in Rec : /\ stage'[o] = IF o = r THEN "ready"
                                        ELSE IF o \in Twins(r) THEN "gone" ELSE stage[o]
                         /\ heir'[o] = IF o \in Twins(r) \/ heir[o] \in Twins(r) THEN r ELSE heir[o]
      BY <2>2 DEF Fold, TypeOK, RecordTypes
    <3>2. r # 0 /\ cred[m] \in Rec
      BY BoundsAssumption DEF Rec, Resolve, Exists
    <3> QED
      BY <3>1, <3>2 DEF Resolve, Exists
  <2>3. ASSUME NEW r \in Rec, Remove(r)
        PROVE  Resolve(cred[m])' # 0 \/ Resolve(cred[m]) \in removed' \ removed
    <3>1. \A o \in Rec : /\ stage'[o] = IF o = r THEN "gone" ELSE stage[o]
                         /\ heir'[o] = IF heir[o] = r THEN 0 ELSE heir[o]
      BY <2>3 DEF Remove, TypeOK, RecordTypes
    <3>2. r \in removed' \ removed
      BY <2>3 DEF Remove, Inv, Placed
    <3>3. cred[m] \in Rec
      BY DEF Resolve, Exists
    <3> QED
      BY <3>1, <3>2, <3>3 DEF Resolve, Exists
  <2>4. CASE \E r \in Rec : RecordStep(r) /\ ~ Fold(r) /\ ~ Remove(r)
    <3>1. PICK r \in Rec, s \in {"spent", "folding", "ready", "live", "closing"} :
                stage' = [stage EXCEPT ![r] = s] /\ heir' = heir
      BY <2>4 DEF RecordStep, EnrollSpend, FoldRead, FoldFails, Reply, EnrollRetry, RemoveRead
    <3>2. \A o \in Rec : Exists(o) => Exists(o)'
      BY <3>1 DEF Exists, TypeOK, RecordTypes
    <3> QED
      BY <3>1, <3>2, <2>1
  <2>5. CASE ~ \E r \in Rec : RecordStep(r)
    <3>1. UNCHANGED <<stage, heir>>
      BY <2>5 DEF Next, Use, RollDay, Retire, ReportStep, SendReport, FileUsage, Answer, Deliver,
                  LoseReport, GrantStep, Credit, Enqueue, CreditTime, dbVars
    <3>2. \A o \in Rec : Exists(o) => Exists(o)'
      BY <3>1 DEF Exists
    <3> QED
      BY <3>1, <3>2, <2>1
  <2> QED
    BY <2>2, <2>3, <2>4, <2>5
<1> QED
  BY Invariance, <1>1, PTL DEF Spec, HeardUntilRemoved

(***************************************************************************)
(* Time given: what the records hold in all against the grants.            *)
(***************************************************************************)

\* The grants given for a day.
GrantsOf(d) == {g \in Grant : grant[g].day = d}

\* Credited time is under records that exist, kept time under those gone.
Filed ==
    \A r \in Rec, d \in Day :
        /\ ~ Exists(r) => book[r][d].earned = 0
        /\ stage[r] # "gone" => kept[r][d].earned = 0

\* What a transaction has read is still there when it commits: a removal the
\* record's own time, a fold no more time than one older record's, and all
\* of the kept use.
ReadStillThere ==
    \A r \in Rec, d \in Day :
        /\ stage[r] = "closing" => snap[r][d].earned <= book[r][d].earned
        /\ stage[r] = "folding" =>
              /\ \A o \in KeptOf(r) : kept[o][d].used <= snap[r][d].used
              /\ \/ snap[r][d].earned = 0
                 \/ \E o \in Rec \ {r} : /\ mach[o] = mach[r] /\ stage[o] # "none"
                                         /\ snap[r][d].earned <= EarnedOn(o, d)

\* A grant not given yet is for no day.
Ungiven == \A g \in Grant : grant[g].at = "none" => grant[g].day = 0

Credited == \A d \in Day : IsFiniteSet(GrantsOf(d)) /\ TotalEarned(d) <= Cardinality(GrantsOf(d))

Given == Filed /\ ReadStillThere /\ Ungiven /\ Credited

LEMMA AmountTypesAfter ==
  ASSUME TypeOK'
  PROVE  \A r \in Rec, d \in Day : EarnedOn(r, d)' \in Nat /\ UsedOn(r, d)' \in Nat
<1>1. \A r \in Rec, d \in Day : book'[r][d] \in Booking /\ kept'[r][d] \in Booking
  BY DEF TypeOK, RecordTypes
<1> QED
  BY <1>1 DEF Booking, EarnedOn, UsedOn

LEMMA RecFinite == IsFiniteSet(Rec)
BY FS_Interval, BoundsAssumption DEF Rec

LEMMA AmountTypes ==
  ASSUME TypeOK
  PROVE  \A r \in Rec, d \in Day :
            /\ book[r][d].earned \in Nat /\ kept[r][d].earned \in Nat /\ snap[r][d].earned \in Nat
            /\ book[r][d].used \in Nat /\ kept[r][d].used \in Nat /\ snap[r][d].used \in Nat
            /\ EarnedOn(r, d) \in Nat /\ UsedOn(r, d) \in Nat
<1>1. \A r \in Rec, d \in Day : book[r][d] \in Booking /\ kept[r][d] \in Booking /\ snap[r][d] \in Booking
  BY DEF TypeOK, RecordTypes
<1> QED
  BY <1>1 DEF Booking, EarnedOn, UsedOn

\* No more is on record than before, and no grant was given.
LEMMA CreditedKept ==
  ASSUME TypeOK, TypeOK', Credited, \A d \in Day : GrantsOf(d)' = GrantsOf(d),
         \A d \in Day : TotalEarned(d)' <= TotalEarned(d)
  PROVE  Credited'
<1> SUFFICES ASSUME NEW d \in Day
             PROVE  IsFiniteSet(GrantsOf(d)) /\ TotalEarned(d)' <= Cardinality(GrantsOf(d))
  BY DEF Credited
<1> DEFINE f == [r \in Rec |-> EarnedOn(r, d)]
           h == [r \in Rec |-> EarnedOn(r, d)']
<1>1. f \in [Rec -> Nat] /\ h \in [Rec -> Nat]
  BY AmountTypes, AmountTypesAfter
<1>2. SumFunction(f) \in Nat /\ SumFunction(h) \in Nat
  BY <1>1, SumType, RecFinite
<1>3. TotalEarned(d) = SumFunction(f) /\ TotalEarned(d)' = SumFunction(h)
  BY DEF TotalEarned
<1>4. IsFiniteSet(GrantsOf(d)) /\ TotalEarned(d) <= Cardinality(GrantsOf(d))
  BY DEF Credited
<1>5. Cardinality(GrantsOf(d)) \in Nat
  BY <1>4, FS_CardinalityType
<1> QED
  BY <1>2, <1>3, <1>4, <1>5

\* A step that moves no credited time.
SameEarned == \A r \in Rec, d \in Day : EarnedOn(r, d)' = EarnedOn(r, d)

LEMMA EarnedKept ==
  ASSUME SameEarned PROVE \A d \in Day : TotalEarned(d)' = TotalEarned(d)
BY DEF SameEarned, TotalEarned

LEMMA TotalType ==
  ASSUME TypeOK, NEW d \in Day
  PROVE  TotalEarned(d) \in Nat
<1> DEFINE f == [r \in Rec |-> EarnedOn(r, d)]
<1>1. f \in [Rec -> Nat]
  BY AmountTypes
<1> HIDE DEF f
<1>2. SumFunction(f) \in Nat
  BY <1>1, SumType, RecFinite
<1> QED
  BY <1>2 DEF f, TotalEarned

\* Steps of agents, reports and commands.
LEMMA GivenKept ==
  ASSUME TypeOK, TypeOK', Given,
         UNCHANGED <<stage, mach, kept, snap>>,
         \A r \in Rec, d \in Day : book'[r][d].earned = book[r][d].earned,
         \A g \in Grant : grant'[g].day = grant[g].day /\ (grant'[g].at = "none" => grant[g].at = "none")
  PROVE  Given'
<1>1. Filed'
  BY DEF Given, Filed, Exists
<1>2. SameEarned
  BY DEF SameEarned, EarnedOn
<1>3. ReadStillThere'
  BY <1>2 DEF Given, ReadStillThere, SameEarned, KeptOf
<1>4. Ungiven'
  BY DEF Given, Ungiven
<1>5. \A d \in Day : GrantsOf(d)' = GrantsOf(d)
  BY DEF GrantsOf
<1>6. Credited'
  <2>1. \A d \in Day : TotalEarned(d)' = TotalEarned(d)
    BY <1>2, EarnedKept
  <2> QED
    BY <1>5, <2>1, TotalType, CreditedKept DEF Given
<1> QED
  BY <1>1, <1>3, <1>4, <1>6 DEF Given

\* Steps of a record that move no row.
LEMMA StagesKeepGiven ==
  ASSUME TypeOK, TypeOK', Given, UNCHANGED <<book, kept, grant>>, Filed', ReadStillThere'
  PROVE  Given'
<1>1. SameEarned
  BY DEF SameEarned, EarnedOn
<1>2. Ungiven'
  BY DEF Given, Ungiven
<1>3. \A d \in Day : GrantsOf(d)' = GrantsOf(d)
  BY DEF GrantsOf
<1>4. Credited'
  BY <1>1, <1>3, EarnedKept, TotalType, CreditedKept DEF Given
<1> QED
  BY <1>2, <1>4 DEF Given

LEMMA EnrollSpendGiven ==
  ASSUME TypeOK, TypeOK', Inv, Given, NEW m \in Machine, NEW r \in Rec, EnrollSpend(m, r)
  PROVE  Given'
<1>1. /\ stage[r] = "none" /\ UNCHANGED <<book, kept, snap, grant>>
      /\ \A o \in Rec : /\ stage'[o] = IF o = r THEN "spent" ELSE stage[o]
                        /\ mach'[o] = IF o = r THEN m ELSE mach[o]
  BY DEF EnrollSpend, TypeOK, RecordTypes
<1>2. Filed'
  BY <1>1 DEF Given, Filed, Exists
<1>3. ReadStillThere'
  <2> SUFFICES ASSUME NEW o \in Rec, NEW d \in Day
               PROVE  /\ stage'[o] = "closing" => snap[o][d].earned <= book[o][d].earned
                      /\ stage'[o] = "folding" =>
                            /\ \A x \in KeptOf(o)' : kept[x][d].used <= snap[o][d].used
                            /\ \/ snap[o][d].earned = 0
                               \/ \E x \in Rec \ {o} : /\ mach'[x] = mach'[o] /\ stage'[x] # "none"
                                                       /\ snap[o][d].earned <= EarnedOn(x, d)
    BY <1>1 DEF ReadStillThere, EarnedOn
  <2>1. CASE stage'[o] = "closing"
    BY <1>1, <2>1 DEF Given, ReadStillThere
  <2>2. CASE stage'[o] = "folding"
    <3>1. o # r /\ stage[o] = "folding" /\ KeptOf(o)' = KeptOf(o)
      BY <1>1, <2>2 DEF KeptOf
    <3>2. ASSUME NEW x \in Rec \ {o}, mach[x] = mach[o], stage[x] # "none"
          PROVE  mach'[x] = mach'[o] /\ stage'[x] # "none"
      BY <1>1, <3>1, <3>2
    <3> QED BY <2>2, <3>1, <3>2 DEF Given, ReadStillThere
  <2> QED BY <2>1, <2>2
<1> QED
  BY <1>1, <1>2, <1>3, StagesKeepGiven

LEMMA FoldReadGiven ==
  ASSUME TypeOK, TypeOK', Inv, Given, NEW r \in Rec, FoldRead(r)
  PROVE  Given'
<1>1. /\ stage[r] = "spent" /\ UNCHANGED <<mach, book, kept, grant>>
      /\ \A o \in Rec : stage'[o] = IF o = r THEN "folding" ELSE stage[o]
  BY DEF FoldRead, TypeOK, RecordTypes
<1>2. PICK s \in [Day -> [used : Amounts(r), earned : Amounts(r)]] :
            IsLargest(s, r) /\ snap' = [snap EXCEPT ![r] = s]
  BY DEF FoldRead
<1>3. \A o \in Rec : snap'[o] = IF o = r THEN s ELSE snap[o]
  BY <1>2 DEF TypeOK, RecordTypes
<1>4. Filed'
  BY <1>1 DEF Given, Filed, Exists
<1>5. ASSUME NEW o \in Rec PROVE KeptOf(o)' = KeptOf(o)
  BY <1>1 DEF KeptOf
<1>6. ASSUME NEW d \in Day
      PROVE  /\ \A x \in KeptOf(r) : kept[x][d].used <= s[d].used
             /\ \/ s[d].earned = 0
                \/ \E x \in Rec \ {r} : /\ mach[x] = mach[r] /\ stage[x] # "none"
                                        /\ s[d].earned <= EarnedOn(x, d)
  <2>1. \A x \in KeptOf(r) : kept[x] \in Held(r)
    BY DEF Held
  <2>2. \A x \in KeptOf(r) : kept[x][d].used <= s[d].used
    BY <1>2, <2>1 DEF IsLargest
  <2>3. CASE s[d].earned = 0
    BY <2>2, <2>3
  <2>4. CASE \E b \in Held(r) : s[d].earned = b[d].earned
    <3>1. PICK x \in Rec \ {r} : /\ mach[x] = mach[r] /\ stage[x] # "none"
                                 /\ s[d].earned = book[x][d].earned \/ s[d].earned = kept[x][d].earned
      <4>1. PICK b \in Held(r) : s[d].earned = b[d].earned
        BY <2>4
      <4>2. CASE \E x \in Twins(r) : b = book[x]
        BY <4>1, <4>2 DEF Twins, Exists
      <4>3. CASE \E x \in KeptOf(r) : b = kept[x]
        BY <1>1, <4>1, <4>3 DEF KeptOf
      <4> QED BY <4>2, <4>3 DEF Held
    <3>2. s[d].earned <= EarnedOn(x, d)
      BY <3>1, AmountTypes DEF EarnedOn
    <3> QED BY <2>2, <3>1, <3>2
  <2> QED BY <1>2, <2>3, <2>4 DEF IsLargest
<1>7. ReadStillThere'
  <2> SUFFICES ASSUME NEW o \in Rec, NEW d \in Day
               PROVE  /\ stage'[o] = "closing" => snap'[o][d].earned <= book[o][d].earned
                      /\ stage'[o] = "folding" =>
                            /\ \A x \in KeptOf(o) : kept[x][d].used <= snap'[o][d].used
                            /\ \/ snap'[o][d].earned = 0
                               \/ \E x \in Rec \ {o} : /\ mach[x] = mach[o] /\ stage'[x] # "none"
                                                       /\ snap'[o][d].earned <= EarnedOn(x, d)
    BY <1>1, <1>5 DEF ReadStillThere, EarnedOn
  <2>1. CASE o = r
    <3>1. snap'[o] = s /\ stage'[o] = "folding"
      BY <1>1, <1>3, <2>1
    <3>2. \A x \in Rec \ {r} : stage'[x] = stage[x]
      BY <1>1
    <3> QED BY <1>6, <2>1, <3>1, <3>2
  <2>2. CASE o # r
    <3>1. snap'[o] = snap[o] /\ stage'[o] = stage[o]
      BY <1>1, <1>3, <2>2
    <3>2. \A x \in Rec : stage[x] # "none" => stage'[x] # "none"
      BY <1>1
    <3> QED BY <3>1, <3>2 DEF Given, ReadStillThere
  <2> QED BY <2>1, <2>2
<1> QED
  BY <1>1, <1>4, <1>7, StagesKeepGiven

LEMMA StageGiven ==
  ASSUME TypeOK, TypeOK', Given, NEW r \in Rec, NEW s \in {"spent", "ready", "live"}, Exists(r),
         stage' = [stage EXCEPT ![r] = s], \A o \in Rec \ {r} : snap'[o] = snap[o],
         UNCHANGED <<mach, book, kept, grant>>
  PROVE  Given'
<1>1. \A o \in Rec : stage'[o] = IF o = r THEN s ELSE stage[o]
  BY DEF TypeOK, RecordTypes
<1>2. Filed'
  BY <1>1 DEF Given, Filed, Exists
<1>3. ReadStillThere'
  <2> SUFFICES ASSUME NEW o \in Rec, NEW d \in Day
               PROVE  /\ stage'[o] = "closing" => snap'[o][d].earned <= book[o][d].earned
                      /\ stage'[o] = "folding" =>
                            /\ \A x \in KeptOf(o) : kept[x][d].used <= snap'[o][d].used
                            /\ \/ snap'[o][d].earned = 0
                               \/ \E x \in Rec \ {o} : /\ mach[x] = mach[o] /\ stage'[x] # "none"
                                                       /\ snap'[o][d].earned <= EarnedOn(x, d)
    BY <1>1 DEF ReadStillThere, EarnedOn, KeptOf, Exists
  <2>1. CASE o = r
    BY <1>1, <2>1
  <2>2. CASE o # r
    <3>1. stage'[o] = stage[o] /\ snap'[o] = snap[o]
      BY <1>1, <2>2
    <3>2. \A x \in Rec : stage[x] # "none" => stage'[x] # "none"
      BY <1>1
    <3> QED BY <3>1, <3>2 DEF Given, ReadStillThere
  <2> QED BY <2>1, <2>2
<1> QED
  BY <1>2, <1>3, StagesKeepGiven

LEMMA RemoveReadGiven ==
  ASSUME TypeOK, TypeOK', Given, NEW r \in Rec, RemoveRead(r)
  PROVE  Given'
<1>1. /\ Exists(r) /\ UNCHANGED <<mach, book, kept, grant>>
      /\ \A o \in Rec : /\ stage'[o] = IF o = r THEN "closing" ELSE stage[o]
                        /\ snap'[o] = IF o = r THEN book[r] ELSE snap[o]
  BY DEF RemoveRead, Exists, TypeOK, RecordTypes
<1>2. Filed'
  BY <1>1 DEF Given, Filed, Exists
<1>3. ReadStillThere'
  <2> SUFFICES ASSUME NEW o \in Rec, NEW d \in Day
               PROVE  /\ stage'[o] = "closing" => snap'[o][d].earned <= book[o][d].earned
                      /\ stage'[o] = "folding" =>
                            /\ \A x \in KeptOf(o) : kept[x][d].used <= snap'[o][d].used
                            /\ \/ snap'[o][d].earned = 0
                               \/ \E x \in Rec \ {o} : /\ mach[x] = mach[o] /\ stage'[x] # "none"
                                                       /\ snap'[o][d].earned <= EarnedOn(x, d)
    BY <1>1 DEF ReadStillThere, EarnedOn, KeptOf, Exists
  <2>1. CASE o = r
    <3>1. snap'[o] = book[r] /\ stage'[o] = "closing"
      BY <1>1, <2>1
    <3> QED BY <2>1, <3>1, AmountTypes
  <2>2. CASE o # r
    <3>1. stage'[o] = stage[o] /\ snap'[o] = snap[o]
      BY <1>1, <2>2
    <3>2. \A x \in Rec : stage[x] # "none" => stage'[x] # "none"
      BY <1>1
    <3> QED BY <3>1, <3>2 DEF Given, ReadStillThere
  <2> QED BY <2>1, <2>2
<1> QED
  BY <1>1, <1>2, <1>3, StagesKeepGiven

\* What is on record after no more than before, in all.
LEMMA NoMore ==
  ASSUME TypeOK, TypeOK', Given, UNCHANGED grant, Filed', ReadStillThere',
         \A d \in Day : TotalEarned(d)' <= TotalEarned(d)
  PROVE  Given'
<1>1. Ungiven'
  BY DEF Given, Ungiven
<1>2. \A d \in Day : GrantsOf(d)' = GrantsOf(d)
  BY DEF GrantsOf
<1>3. Credited'
  BY <1>2, CreditedKept DEF Given
<1> QED
  BY <1>1, <1>3 DEF Given

\* The kept time is no more than the record had.
LEMMA RemoveGiven ==
  ASSUME TypeOK, TypeOK', Inv, Given, NEW r \in Rec, Remove(r)
  PROVE  Given'
<1>1. /\ stage[r] = "closing" /\ UNCHANGED <<mach, grant>>
      /\ \A o \in Rec : /\ stage'[o] = IF o = r THEN "gone" ELSE stage[o]
                        /\ book'[o] = IF o = r THEN Blank ELSE book[o]
                        /\ kept'[o] = IF o = r THEN snap[r] ELSE kept[o]
                        /\ snap'[o] = IF o = r THEN Blank ELSE snap[o]
  BY DEF Remove, TypeOK, RecordTypes
<1>2. \A d \in Day : Blank[d].earned = 0
  BY DEF Blank, Nobody
<1>3. Filed'
  BY <1>1, <1>2 DEF Given, Filed, Exists
<1>4. ASSUME NEW d \in Day, NEW o \in Rec
      PROVE  EarnedOn(o, d)' <= EarnedOn(o, d) /\ (o # r => EarnedOn(o, d)' = EarnedOn(o, d))
  <2>1. CASE o = r
    <3>1. EarnedOn(o, d)' = snap[r][d].earned
      BY <1>1, <1>2, <2>1, AmountTypes DEF EarnedOn
    <3>2. snap[r][d].earned <= book[r][d].earned
      BY <1>1 DEF Given, ReadStillThere
    <3> QED BY <2>1, <3>1, <3>2, AmountTypes DEF EarnedOn
  <2>2. CASE o # r
    <3>1. EarnedOn(o, d)' = EarnedOn(o, d)
      BY <1>1, <2>2 DEF EarnedOn
    <3> QED BY <3>1, AmountTypes
  <2> QED BY <2>1, <2>2
<1>5. ReadStillThere'
  <2> SUFFICES ASSUME NEW o \in Rec, NEW d \in Day
               PROVE  /\ stage'[o] = "closing" => snap'[o][d].earned <= book'[o][d].earned
                      /\ stage'[o] = "folding" =>
                            /\ \A x \in KeptOf(o)' : kept'[x][d].used <= snap'[o][d].used
                            /\ \/ snap'[o][d].earned = 0
                               \/ \E x \in Rec \ {o} : /\ mach[x] = mach[o] /\ stage'[x] # "none"
                                                       /\ snap'[o][d].earned <= EarnedOn(x, d)'
    BY <1>1 DEF ReadStillThere
  <2>1. CASE stage'[o] = "closing"
    BY <1>1, <2>1 DEF Given, ReadStillThere
  <2>2. CASE stage'[o] = "folding"
    <3>1. o # r /\ stage[o] = "folding" /\ snap'[o] = snap[o]
      BY <1>1, <2>2
    <3>2. mach[o] # mach[r]
      BY <1>1, <3>1 DEF Inv, Reading
    <3>3. ASSUME NEW x \in KeptOf(o)' PROVE x \in KeptOf(o) /\ kept'[x] = kept[x]
      BY <1>1, <3>2 DEF KeptOf
    <3>4. ASSUME NEW x \in Rec \ {o}, mach[x] = mach[o], stage[x] # "none"
          PROVE  stage'[x] # "none" /\ EarnedOn(x, d)' = EarnedOn(x, d)
      BY <1>1, <1>4, <3>2, <3>4
    <3> QED BY <3>1, <3>3, <3>4, <2>2 DEF Given, ReadStillThere
  <2> QED BY <2>1, <2>2
<1>6. ASSUME NEW d \in Day PROVE TotalEarned(d)' <= TotalEarned(d)
  <2> DEFINE f == [o \in Rec |-> EarnedOn(o, d)]
             h == [o \in Rec |-> EarnedOn(o, d)']
  <2>1. f \in [Rec -> Nat] /\ h \in [Rec -> Nat] /\ \A o \in Rec : h[o] <= f[o]
    BY <1>4, AmountTypes, AmountTypesAfter
  <2> HIDE DEF f, h
  <2>2. SumFunction(h) <= SumFunction(f)
    BY <2>1, SumMonotonic, RecFinite
  <2> QED BY <2>2 DEF f, h, TotalEarned
<1> QED
  BY <1>1, <1>3, <1>5, <1>6, NoMore

\* One more on the record's day, and one grant more given for it.
LEMMA CreditGiven ==
  ASSUME TypeOK, TypeOK', Given, NEW g \in Grant, NEW r \in Rec, Credit(g, r)
  PROVE  Given'
<1>1. PICK e \in Day : /\ book' = [book EXCEPT ![r][e].earned = @ + 1]
                       /\ grant' = [grant EXCEPT ![g] = [at |-> "credited", rec |-> r, day |-> e]]
  BY DEF Credit
<1>2. Exists(r) /\ grant[g].at = "none" /\ UNCHANGED <<stage, mach, kept, snap>>
  BY DEF Credit
<1>3. \A o \in Rec, d \in Day :
         book'[o][d].earned = IF o = r /\ d = e THEN book[o][d].earned + 1 ELSE book[o][d].earned
  BY <1>1 DEF TypeOK, RecordTypes, Booking
<1>4. \A o \in Rec, d \in Day :
         EarnedOn(o, d)' = IF o = r /\ d = e THEN EarnedOn(o, d) + 1 ELSE EarnedOn(o, d)
  BY <1>2, <1>3, AmountTypes DEF EarnedOn
<1>5. Filed'
  BY <1>2, <1>3 DEF Given, Filed, Exists
<1>6. ReadStillThere'
  <2>1. \A o \in Rec, d \in Day : /\ book'[o][d].earned >= book[o][d].earned
                                  /\ EarnedOn(o, d)' >= EarnedOn(o, d)
    BY <1>3, <1>4, AmountTypes
  <2> SUFFICES ASSUME NEW o \in Rec, NEW d \in Day
               PROVE  /\ stage[o] = "closing" => snap[o][d].earned <= book'[o][d].earned
                      /\ stage[o] = "folding" =>
                            /\ \A x \in KeptOf(o) : kept[x][d].used <= snap[o][d].used
                            /\ \/ snap[o][d].earned = 0
                               \/ \E x \in Rec \ {o} : /\ mach[x] = mach[o] /\ stage[x] # "none"
                                                       /\ snap[o][d].earned <= EarnedOn(x, d)'
    BY <1>2 DEF ReadStillThere, KeptOf
  <2>2. \A x \in Rec : snap[o][d].earned <= EarnedOn(x, d) => snap[o][d].earned <= EarnedOn(x, d)'
    BY <2>1, AmountTypes, AmountTypesAfter
  <2>3. snap[o][d].earned <= book[o][d].earned => snap[o][d].earned <= book'[o][d].earned
    BY <1>3, AmountTypes
  <2> QED BY <2>2, <2>3 DEF Given, ReadStillThere
<1>7. \A x \in Grant : grant'[x] = IF x = g THEN [at |-> "credited", rec |-> r, day |-> e] ELSE grant[x]
  BY <1>1 DEF TypeOK, RequestTypes
<1>8. Ungiven'
  BY <1>7 DEF Given, Ungiven
<1>9. Credited'
  <2> SUFFICES ASSUME NEW d \in Day
               PROVE  IsFiniteSet(GrantsOf(d)') /\ TotalEarned(d)' <= Cardinality(GrantsOf(d)')
    BY DEF Credited
  <2>1. IsFiniteSet(GrantsOf(d)) /\ TotalEarned(d) <= Cardinality(GrantsOf(d))
    BY DEF Given, Credited
  <2>2. g \notin GrantsOf(d)
    BY <1>2 DEF Given, Ungiven, GrantsOf, Day
  <2>3. GrantsOf(d)' = IF d = e THEN GrantsOf(d) \cup {g} ELSE GrantsOf(d)
    BY <1>7, <2>2 DEF GrantsOf
  <2> DEFINE f == [o \in Rec |-> EarnedOn(o, d)]
             h == [o \in Rec |-> EarnedOn(o, d)']
             n == Cardinality(GrantsOf(d))
  <2>4. /\ f \in [Rec -> Nat] /\ h \in [Rec -> Nat]
        /\ \A o \in Rec : h[o] = IF o = r /\ d = e THEN f[o] + 1 ELSE f[o]
    BY <1>4, AmountTypes, AmountTypesAfter
  <2>5. n \in Nat
    BY <2>1, FS_CardinalityType
  <2>6. TotalEarned(d) = SumFunction(f) /\ TotalEarned(d)' = SumFunction(h)
    BY DEF TotalEarned
  <2> HIDE DEF f, h, n
  <2>7. SumFunction(f) \in Nat /\ SumFunction(h) \in Nat
    BY <2>4, SumType, RecFinite
  <2>8. CASE d = e
    <3>1. IsFiniteSet(GrantsOf(d)') /\ Cardinality(GrantsOf(d)') = n + 1
      BY <2>1, <2>2, <2>3, <2>8, FS_AddElement DEF n
    <3>2. \A o \in Rec \ {r} : h[o] <= f[o]
      BY <2>4
    <3>3. h[r] <= f[r] + 1
      BY <2>4, <2>8
    <3>4. SumFunction(h) <= SumFunction(f) + 1
      BY <2>4, <3>2, <3>3, SumOneMore, RecFinite
    <3>5. SumFunction(f) <= n
      BY <2>1, <2>6 DEF n
    <3> QED BY <3>1, <3>4, <3>5, <2>5, <2>6, <2>7
  <2>9. CASE d # e
    <3>1. \A o \in Rec : h[o] <= f[o]
      BY <2>4, <2>9
    <3>2. SumFunction(h) <= SumFunction(f)
      BY <2>4, <3>1, SumMonotonic, RecFinite
    <3>3. SumFunction(f) <= n
      BY <2>1, <2>6 DEF n
    <3>4. SumFunction(h) <= n
      BY <3>2, <3>3, <2>5, <2>7
    <3> QED BY <2>1, <2>3, <2>6, <2>9, <3>4 DEF n
  <2> QED BY <2>8, <2>9
<1> QED
  BY <1>5, <1>6, <1>8, <1>9 DEF Given

\* A fold moves one older record's time to the new one, and the other older
\* records' time goes with them.
LEMMA FoldGiven ==
  ASSUME TypeOK, TypeOK', Inv, Given, NEW r \in Rec, Fold(r)
  PROVE  Given'
<1>1. /\ stage[r] = "folding" /\ r \notin Twins(r) /\ r \notin KeptOf(r)
      /\ UNCHANGED <<mach, grant>>
  BY DEF Fold, Twins, KeptOf
<1>2. \A o \in Rec : /\ stage'[o] = IF o = r THEN "ready" ELSE IF o \in Twins(r) THEN "gone" ELSE stage[o]
                     /\ book'[o] = IF o = r THEN Merge(book[r], snap[r])
                                   ELSE IF o \in Twins(r) THEN Blank ELSE book[o]
                     /\ kept'[o] = IF o \in KeptOf(r) THEN Blank ELSE kept[o]
                     /\ snap'[o] = IF o = r THEN Blank ELSE snap[o]
  BY DEF Fold, TypeOK, RecordTypes
<1>3. \A d \in Day : Blank[d].earned = 0
  BY DEF Blank, Nobody
<1>4. ASSUME NEW o \in Rec, o # r, mach[o] = mach[r]
      PROVE  ~ Exists(o)' /\ \A d \in Day : book'[o][d].earned = 0 /\ kept'[o][d].earned = 0
  <2>1. CASE Exists(o)
    <3>1. o \in Twins(r)
      BY <1>4, <2>1 DEF Twins
    <3>2. \A d \in Day : kept[o][d].earned = 0
      BY <2>1 DEF Given, Filed, Exists
    <3> QED
      BY <1>2, <1>3, <1>4, <3>1, <3>2 DEF Exists
  <2>2. CASE ~ Exists(o)
    <3>1. o \notin Twins(r) /\ \A d \in Day : book[o][d].earned = 0
      BY <2>2 DEF Given, Filed, Twins
    <3>2. o \in KeptOf(r) \/ \A d \in Day : kept[o][d].earned = 0
      BY <1>4 DEF Given, Filed, KeptOf
    <3> QED
      BY <1>2, <1>3, <1>4, <2>2, <3>1, <3>2 DEF Exists
  <2> QED
    BY <2>1, <2>2
<1>5. ASSUME NEW o \in Rec, mach[o] # mach[r]
      PROVE  /\ stage'[o] = stage[o] /\ book'[o] = book[o] /\ kept'[o] = kept[o] /\ snap'[o] = snap[o]
             /\ KeptOf(o)' = KeptOf(o)
  <2>1. \A x \in Rec : mach[x] = mach[o] => x # r /\ x \notin Twins(r) /\ x \notin KeptOf(r)
    BY <1>5 DEF Twins, KeptOf
  <2>2. KeptOf(o)' = KeptOf(o)
    BY <1>1, <1>2, <2>1 DEF KeptOf
  <2> QED
    BY <1>2, <2>1, <2>2
<1>6. stage'[r] = "ready" /\ kept'[r] = kept[r] /\ book'[r] = Merge(book[r], snap[r])
  BY <1>1, <1>2
<1>7. Filed'
  <2> SUFFICES ASSUME NEW o \in Rec, NEW d \in Day
               PROVE  /\ ~ Exists(o)' => book'[o][d].earned = 0
                      /\ stage'[o] # "gone" => kept'[o][d].earned = 0
    BY DEF Filed
  <2>1. CASE o = r
    BY <1>1, <1>6, <2>1 DEF Exists, Given, Filed
  <2>2. CASE o # r /\ mach[o] = mach[r]
    BY <1>4, <2>2
  <2>3. CASE mach[o] # mach[r]
    BY <1>5, <2>3 DEF Exists, Given, Filed
  <2> QED BY <2>1, <2>2, <2>3
<1>8. ReadStillThere'
  <2> SUFFICES ASSUME NEW o \in Rec, NEW d \in Day, stage'[o] \in {"closing", "folding"}
               PROVE  /\ stage'[o] = "closing" => snap'[o][d].earned <= book'[o][d].earned
                      /\ stage'[o] = "folding" =>
                            /\ \A x \in KeptOf(o)' : kept'[x][d].used <= snap'[o][d].used
                            /\ \/ snap'[o][d].earned = 0
                               \/ \E x \in Rec \ {o} : /\ mach[x] = mach[o] /\ stage'[x] # "none"
                                                       /\ snap'[o][d].earned <= EarnedOn(x, d)'
    BY <1>1 DEF ReadStillThere
  <2>1. mach[o] # mach[r]
    BY <1>4, <1>6 DEF Exists
  <2>2. stage'[o] = stage[o] /\ book'[o] = book[o] /\ snap'[o] = snap[o] /\ KeptOf(o)' = KeptOf(o)
    BY <1>5, <2>1
  <2>3. \A x \in Rec : mach[x] = mach[o] =>
           stage'[x] = stage[x] /\ kept'[x] = kept[x] /\ EarnedOn(x, d)' = EarnedOn(x, d)
    BY <1>5, <2>1 DEF EarnedOn
  <2>4. \A x \in KeptOf(o) : kept'[x] = kept[x]
    BY <2>3 DEF KeptOf
  <2> QED BY <2>2, <2>3, <2>4 DEF Given, ReadStillThere
<1>9. ASSUME NEW d \in Day PROVE TotalEarned(d)' <= TotalEarned(d)
  <2> DEFINE f == [o \in Rec |-> EarnedOn(o, d)]
             h == [o \in Rec |-> EarnedOn(o, d)']
  <2>1. f \in [Rec -> Nat] /\ h \in [Rec -> Nat]
    BY AmountTypes, AmountTypesAfter
  <2>2. \A o \in Rec \ {r} : h[o] = 0 \/ h[o] = f[o]
    <3> SUFFICES ASSUME NEW o \in Rec \ {r} PROVE h[o] = 0 \/ h[o] = f[o]
      OBVIOUS
    <3>1. CASE mach[o] = mach[r]
      BY <1>4, <3>1 DEF EarnedOn
    <3>2. CASE mach[o] # mach[r]
      BY <1>5, <3>2 DEF EarnedOn
    <3> QED BY <3>1, <3>2
  <2>3. \A o \in Rec \ {r} : mach[o] = mach[r] => h[o] = 0
    BY <1>4 DEF EarnedOn
  <2>4. h[r] = Greatest(book[r][d].earned, snap[r][d].earned) + kept[r][d].earned
    BY <1>6 DEF EarnedOn, Merge
  <2>5. f[r] = book[r][d].earned + kept[r][d].earned
    BY DEF EarnedOn
  <2>6. TotalEarned(d) = SumFunction(f) /\ TotalEarned(d)' = SumFunction(h)
    BY DEF TotalEarned
  <2>7. /\ book[r][d].earned \in Nat /\ kept[r][d].earned \in Nat /\ snap[r][d].earned \in Nat
    BY AmountTypes
  <2>8. \/ snap[r][d].earned = 0
        \/ \E o \in Rec \ {r} : /\ mach[o] = mach[r] /\ stage[o] # "none"
                                /\ snap[r][d].earned <= f[o]
    BY <1>1 DEF Given, ReadStillThere
  <2> HIDE DEF f, h
  <2>9. CASE snap[r][d].earned <= book[r][d].earned
    <3>1. h[r] = f[r]
      BY <2>4, <2>5, <2>7, <2>9 DEF Greatest
    <3>2. \A o \in Rec : h[o] <= f[o]
      BY <2>1, <2>2, <3>1
    <3>3. SumFunction(h) <= SumFunction(f)
      BY <2>1, <3>2, SumMonotonic, RecFinite
    <3> QED BY <2>6, <3>3
  <2>10. CASE ~ (snap[r][d].earned <= book[r][d].earned)
    <3>1. PICK o \in Rec \ {r} : mach[o] = mach[r] /\ snap[r][d].earned <= f[o]
      BY <2>7, <2>8, <2>10
    <3>2. h[o] = 0 /\ h[r] = snap[r][d].earned + kept[r][d].earned
      BY <2>3, <2>4, <2>7, <2>10, <3>1 DEF Greatest
    <3>3. h[r] + h[o] <= f[r] + f[o]
      BY <2>1, <2>5, <2>7, <3>1, <3>2
    <3>4. \A z \in Rec \ {r, o} : h[z] <= f[z]
      BY <2>1, <2>2
    <3>5. SumFunction(h) <= SumFunction(f)
      BY <2>1, <3>1, <3>3, <3>4, SumMoved, RecFinite
    <3> QED BY <2>6, <3>5
  <2> QED BY <2>9, <2>10
<1> QED
  BY <1>1, <1>7, <1>8, <1>9, NoMore

LEMMA GivenInit == Init => Given
<1> SUFFICES ASSUME Init PROVE Given
  OBVIOUS
<1>1. /\ \A r \in Rec : stage[r] = "none"
      /\ \A r \in Rec, d \in Day : book[r][d].earned = 0 /\ kept[r][d].earned = 0
      /\ \A g \in Grant : grant[g].day = 0
  BY DEF Init, Blank, Nobody
<1>2. Filed /\ ReadStillThere /\ Ungiven
  BY <1>1 DEF Filed, ReadStillThere, Ungiven
<1>3. Credited
  <2> SUFFICES ASSUME NEW d \in Day
               PROVE  IsFiniteSet(GrantsOf(d)) /\ TotalEarned(d) <= Cardinality(GrantsOf(d))
    BY DEF Credited
  <2>1. GrantsOf(d) = {}
    BY <1>1 DEF GrantsOf, Day
  <2> DEFINE f == [o \in Rec |-> EarnedOn(o, d)]
  <2>2. f \in [Rec -> Nat] /\ \A o \in Rec : f[o] = 0
    BY <1>1 DEF EarnedOn
  <2>3. TotalEarned(d) = SumFunction(f)
    BY DEF TotalEarned
  <2> HIDE DEF f
  <2>4. SumFunction(f) = 0
    BY <2>2, SumZero, RecFinite
  <2> QED
    BY <2>1, <2>3, <2>4, FS_EmptySet
<1> QED
  BY <1>2, <1>3 DEF Given

LEMMA GivenStep == IInv /\ Given /\ [Next]_vars => Given'
<1> SUFFICES ASSUME TypeOK, Inv, Given, [Next]_vars PROVE Given'
  BY DEF IInv
<1>1. TypeOK'
  BY TypeStep
<1>2. CASE \/ UNCHANGED vars
           \/ \E m \in Machine : Use(m) \/ RollDay(m) \/ Retire(m)
           \/ \E q \in Slot : ReportStep(q)
  <2>1. UNCHANGED <<stage, mach, kept, snap, grant>>
    BY <1>2 DEF vars, dbVars, Use, RollDay, Retire, ReportStep, SendReport, FileUsage, Answer,
                Deliver, LoseReport
  <2>2. \A r \in Rec, d \in Day : book'[r][d].earned = book[r][d].earned
    <3>1. CASE UNCHANGED book
      BY <3>1
    <3>2. CASE \E q \in Slot : FileUsage(q) /\ ~ UNCHANGED book
      <4>1. PICK q \in Slot : rep[q].at = "read" /\ FileUsage(q) /\ ~ UNCHANGED book
        BY <3>2 DEF FileUsage
      <4> DEFINE c == rep[q].rec
                 e == rep[q].day
                 n == Greatest(book[c][e].used, rep[q].used)
      <4>2. c \in Rec /\ e \in Day
        BY <4>1 DEF TypeOK, RequestTypes
      <4>3. book' = [book EXCEPT ![c][e].used = n]
        BY <4>1 DEF FileUsage
      <4> HIDE DEF c, e, n
      <4> QED
        BY <4>2, <4>3 DEF TypeOK, RecordTypes, Booking
    <3> QED
      BY <1>2, <3>1, <3>2 DEF vars, dbVars, Use, RollDay, Retire, ReportStep, SendReport, Answer,
                              Deliver, LoseReport
  <2> QED
    BY <1>1, <2>1, <2>2, GivenKept
<1>3. ASSUME NEW g \in Grant, GrantStep(g) PROVE Given'
  <2>1. CASE \E r \in Rec : Credit(g, r)
    BY <1>1, <2>1, CreditGiven
  <2>2. CASE Enqueue(g) \/ \E m \in Machine : CreditTime(m, g)
    <3>1. UNCHANGED <<stage, mach, kept, snap, book>>
      BY <2>2 DEF Enqueue, CreditTime, dbVars
    <3>2. \A x \in Grant : grant'[x].day = grant[x].day /\ (grant'[x].at = "none" => grant[x].at = "none")
      BY <2>2 DEF Enqueue, CreditTime, TypeOK, RequestTypes
    <3> QED
      BY <1>1, <3>1, <3>2, GivenKept
  <2> QED
    BY <1>3, <2>1, <2>2 DEF GrantStep
<1>4. ASSUME NEW r \in Rec, RecordStep(r) PROVE Given'
  <2>1. CASE FoldFails(r)
    <3>1. /\ Exists(r) /\ stage' = [stage EXCEPT ![r] = "ready"] /\ UNCHANGED <<mach, book, kept, grant>>
          /\ \A o \in Rec \ {r} : snap'[o] = snap[o]
      BY <2>1 DEF FoldFails, Exists, TypeOK, RecordTypes
    <3> QED BY <1>1, <3>1, StageGiven
  <2>2. CASE Reply(r)
    <3>1. Exists(r) /\ stage' = [stage EXCEPT ![r] = "live"] /\ UNCHANGED <<mach, book, kept, snap, grant>>
      BY <2>2 DEF Reply, Exists
    <3> QED BY <1>1, <3>1, StageGiven
  <2>3. CASE EnrollRetry(r)
    <3>1. Exists(r) /\ stage' = [stage EXCEPT ![r] = "spent"] /\ UNCHANGED <<mach, book, kept, snap, grant>>
      BY <2>3 DEF EnrollRetry, Exists
    <3> QED BY <1>1, <3>1, StageGiven
  <2> QED
    BY <1>1, <1>4, <2>1, <2>2, <2>3, EnrollSpendGiven, FoldReadGiven, FoldGiven, RemoveReadGiven, RemoveGiven
       DEF RecordStep
<1> QED
  BY <1>2, <1>3, <1>4 DEF Next

\* A grant is on record once (ledger.rs, machine.rs take_over): however a
\* record is folded, removed, enrolled again or its fold fails, the person's
\* day never has more time credited than grants were given for it.
THEOREM GrantsOnRecordOnce == Spec => []EarnedOnce
<1>1. Spec => []Given
  BY Invariance, GivenInit, GivenStep, PTL DEF Spec
<1>2. Given => EarnedOnce
  BY DEF Given, Credited, EarnedOnce, GrantsOf
<1> QED
  BY <1>1, <1>2, PTL

(***************************************************************************)
(* A day that does not shrink.                                             *)
(***************************************************************************)

LEMMA UsedTotalKept ==
  ASSUME TypeOK, TypeOK', NEW d \in Day,
         \A r \in Rec : UsedOn(r, d)' >= UsedOn(r, d)
  PROVE  TotalUsed(d)' >= TotalUsed(d)
<1> DEFINE f == [r \in Rec |-> UsedOn(r, d)]
           h == [r \in Rec |-> UsedOn(r, d)']
<1>1. f \in [Rec -> Nat] /\ h \in [Rec -> Nat] /\ \A r \in Rec : f[r] <= h[r]
  BY AmountTypes, AmountTypesAfter
<1> HIDE DEF f, h
<1>2. SumFunction(f) <= SumFunction(h) /\ SumFunction(f) \in Nat /\ SumFunction(h) \in Nat
  BY <1>1, SumMonotonic, SumType, RecFinite
<1> QED
  BY <1>2 DEF f, h, TotalUsed

LEMMA MergeHolds ==
  ASSUME NEW a \in [Day -> Booking], NEW b \in [Day -> Booking], NEW d \in Day
  PROVE  Merge(a, b)[d].used >= a[d].used /\ Merge(a, b)[d].used >= b[d].used
<1>1. a[d] \in Booking /\ b[d] \in Booking
  OBVIOUS
<1>2. a[d].used \in Nat /\ b[d].used \in Nat
  BY <1>1 DEF Booking
<1> QED
  BY <1>2 DEF Merge, Greatest

\* A fold that was not overtaken keeps the use of the only one of its
\* machine's records that has any.
LEMMA FoldKeepsDay ==
  ASSUME TypeOK, TypeOK', Inv, Given, NEW r \in Rec, Fold(r), unfolded = {}, NEW d \in Day,
         ~ Overtaken(r)
  PROVE  TotalUsed(d)' >= TotalUsed(d)
<1>1. /\ stage[r] = "folding" /\ r \notin Twins(r) /\ r \notin KeptOf(r)
      /\ mach[r] \notin unfolded
  BY DEF Fold, Twins, KeptOf
<1>2. \A o \in Rec : /\ book'[o] = IF o = r THEN Merge(book[r], snap[r])
                                   ELSE IF o \in Twins(r) THEN Blank ELSE book[o]
                     /\ kept'[o] = IF o \in KeptOf(r) THEN Blank ELSE kept[o]
  BY DEF Fold, TypeOK, RecordTypes
<1>3. /\ \A o \in Twins(r) : book[o][d].used <= snap[r][d].used
      /\ \A o \in KeptOf(r) : kept[o][d].used <= snap[r][d].used
  <2>1. \A o \in Twins(r) : book[o][d].used <= snap[r][d].used
    BY <1>1, AmountTypes DEF Overtaken, Twins
  <2> QED
    BY <1>1, <2>1 DEF Given, ReadStillThere
<1>4. /\ kept'[r][d].used = kept[r][d].used
      /\ book'[r][d].used >= book[r][d].used /\ book'[r][d].used >= snap[r][d].used
  <2>1. book'[r] = Merge(book[r], snap[r]) /\ kept'[r] = kept[r]
    BY <1>1, <1>2
  <2>2. book[r] \in [Day -> Booking] /\ snap[r] \in [Day -> Booking]
    BY DEF TypeOK, RecordTypes
  <2> QED
    BY <2>1, <2>2, MergeHolds
<1>5. UsedOn(r, d)' >= UsedOn(r, d) /\ UsedOn(r, d)' >= snap[r][d].used
  BY <1>4, AmountTypes, AmountTypesAfter DEF UsedOn, TypeOK, RecordTypes, Booking
<1>6. ASSUME NEW o \in Rec, o # r, o \notin Twins(r), o \notin KeptOf(r)
      PROVE  UsedOn(o, d)' = UsedOn(o, d)
  BY <1>2, <1>6 DEF UsedOn
<1>7. ASSUME NEW o \in Twins(r) \cup KeptOf(r)
      PROVE  o \in Rec \ {r} /\ mach[o] = mach[r] /\ UsedOn(o, d) <= snap[r][d].used
  <2>1. CASE o \in Twins(r)
    <3>1. kept[o][d].used = 0
      BY <2>1 DEF Inv, Placed, Twins, Exists
    <3> QED BY <1>3, <2>1, <3>1, AmountTypes DEF UsedOn, Twins
  <2>2. CASE o \in KeptOf(r)
    <3>1. book[o][d].used = 0
      BY <2>2 DEF Inv, Placed, KeptOf, Exists
    <3> QED BY <1>1, <1>3, <2>2, <3>1, AmountTypes DEF UsedOn, KeptOf
  <2> QED BY <2>1, <2>2
<1>8. CASE \A o \in Twins(r) \cup KeptOf(r) : UsedOn(o, d) = 0
  <2>1. \A o \in Rec : UsedOn(o, d)' >= UsedOn(o, d)
    <3> SUFFICES ASSUME NEW o \in Rec PROVE UsedOn(o, d)' >= UsedOn(o, d)
      OBVIOUS
    <3>1. UsedOn(o, d)' \in Nat /\ UsedOn(o, d) \in Nat
      BY AmountTypes, AmountTypesAfter
    <3>2. CASE o = r
      BY <1>5, <3>2
    <3>3. CASE o \in Twins(r) \cup KeptOf(r)
      BY <1>8, <3>1, <3>3
    <3>4. CASE o # r /\ o \notin Twins(r) \cup KeptOf(r)
      BY <1>6, <3>1, <3>4
    <3> QED BY <3>2, <3>3, <3>4
  <2> QED BY <2>1, UsedTotalKept
<1>9. CASE \E o \in Twins(r) \cup KeptOf(r) : UsedOn(o, d) # 0
  <2>1. PICK x \in Twins(r) \cup KeptOf(r) : UsedOn(x, d) # 0
    BY <1>9
  <2>2. x \in Rec /\ x # r /\ mach[x] = mach[r] /\ UsedOn(x, d) <= snap[r][d].used
    BY <1>7
  <2>3. ~ NoUse(x, d)
    BY <2>1, <2>2, AmountTypes DEF NoUse, UsedOn
  <2>4. stage[x] # "none" /\ stage[r] # "none" /\ mach[x] \notin unfolded
    BY <1>1, <2>2 DEF Twins, KeptOf, Exists
  <2>5. \A o \in Rec : o # x /\ mach[o] = mach[x] => NoUse(o, d)
    BY <2>2, <2>3, <2>4 DEF Inv, Once
  <2>6. \A o \in Rec : o # x /\ mach[o] = mach[x] => UsedOn(o, d) = 0
    BY <2>5, AmountTypes DEF NoUse, UsedOn
  <2> DEFINE f == [o \in Rec |-> UsedOn(o, d)]
             h == [o \in Rec |-> UsedOn(o, d)']
  <2>7. f \in [Rec -> Nat] /\ h \in [Rec -> Nat]
    BY AmountTypes, AmountTypesAfter
  <2>8. \A o \in Rec \ {r, x} : f[o] <= h[o]
    <3> SUFFICES ASSUME NEW o \in Rec \ {r, x} PROVE UsedOn(o, d) <= UsedOn(o, d)'
      OBVIOUS
    <3>1. UsedOn(o, d)' \in Nat /\ UsedOn(o, d) \in Nat
      BY AmountTypes, AmountTypesAfter
    <3>2. CASE o \in Twins(r) \cup KeptOf(r)
      BY <1>7, <2>2, <2>6, <3>1, <3>2
    <3>3. CASE o \notin Twins(r) \cup KeptOf(r)
      BY <1>6, <3>1, <3>3
    <3> QED BY <3>2, <3>3
  <2>9. f[r] + f[x] <= h[r] + h[x]
    <3>1. f[r] = 0 /\ f[x] <= h[r]
      BY <1>5, <2>2, <2>6, AmountTypes, AmountTypesAfter
    <3>2. f[x] \in Nat /\ h[r] \in Nat /\ h[x] \in Nat
      BY <2>2, <2>7
    <3> QED BY <3>1, <3>2
  <2>10. TotalUsed(d) = SumFunction(f) /\ TotalUsed(d)' = SumFunction(h)
    BY DEF TotalUsed
  <2> HIDE DEF f, h
  <2>11. SumFunction(f) <= SumFunction(h)
    BY <2>2, <2>7, <2>8, <2>9, SumMoved, RecFinite
  <2>12. SumFunction(f) \in Nat /\ SumFunction(h) \in Nat
    BY <2>7, SumType, RecFinite
  <2> QED BY <2>10, <2>11, <2>12
<1> QED BY <1>8, <1>9

\* A removal that was not overtaken keeps the record's use.
LEMMA RemoveKeepsDay ==
  ASSUME TypeOK, TypeOK', Inv, NEW r \in Rec, Remove(r), NEW d \in Day, ~ Overtaken(r)
  PROVE  TotalUsed(d)' >= TotalUsed(d)
<1>1. /\ stage[r] = "closing" /\ book[r] = snap[r]
      /\ \A o \in Rec : /\ book'[o] = IF o = r THEN Blank ELSE book[o]
                        /\ kept'[o] = IF o = r THEN snap[r] ELSE kept[o]
  BY DEF Remove, Overtaken, TypeOK, RecordTypes
<1>2. Blank[d].used = 0
  BY DEF Blank, Nobody
<1>3. kept[r][d].used = 0
  BY <1>1 DEF Inv, Placed
<1>4. \A o \in Rec : UsedOn(o, d)' = UsedOn(o, d)
  BY <1>1, <1>2, <1>3, AmountTypes DEF UsedOn
<1> QED
  BY <1>4, AmountTypes, UsedTotalKept

LEMMA FileUsageKeepsDay ==
  ASSUME TypeOK, TypeOK', NEW q \in Slot, FileUsage(q), NEW d \in Day
  PROVE  TotalUsed(d)' >= TotalUsed(d)
<1> DEFINE c == rep[q].rec
           e == rep[q].day
           n == Greatest(book[c][e].used, rep[q].used)
<1>1. c \in Rec /\ e \in Day /\ kept' = kept
  BY DEF FileUsage, TypeOK, RequestTypes
<1>2. book' = book \/ book' = [book EXCEPT ![c][e].used = n]
  BY DEF FileUsage
<1>3. n \in Nat /\ n >= book[c][e].used
  <2>1. rep[q].used \in Nat
    BY DEF TypeOK, RequestTypes, Report
  <2>2. book[c][e].used \in Nat
    BY <1>1, AmountTypes
  <2> QED BY <2>1, <2>2 DEF Greatest
<1> HIDE DEF c, e, n
<1>4. ASSUME NEW r \in Rec PROVE book'[r][d].used >= book[r][d].used /\ book'[r][d].used \in Nat
  <2>1. CASE book' = book
    BY <2>1, AmountTypes
  <2>2. CASE book' = [book EXCEPT ![c][e].used = n]
    <3>1. book'[r][d].used = IF r = c /\ d = e THEN n ELSE book[r][d].used
      BY <1>1, <2>2 DEF TypeOK, RecordTypes, Booking
    <3> QED BY <1>3, <3>1, AmountTypes
  <2> QED BY <1>2, <2>1, <2>2
<1>5. \A r \in Rec : UsedOn(r, d)' >= UsedOn(r, d)
  BY <1>1, <1>4, AmountTypes DEF UsedOn
<1> QED
  BY <1>5, UsedTotalKept

\* "The day of everyone who used it stays theirs" (devices.rs): the person's
\* day on the server never shrinks, whatever is enrolled, folded, removed or
\* reported, but by a removal or a fold that a report overtook.
THEOREM DayNeverShrinks == Spec => DayKept
<1> DEFINE Kept == unfolded = {} => \A d \in Day : TotalUsed(d)' >= TotalUsed(d)
                      \/ \E r \in Rec : Overtaken(r) /\ stage'[r] # stage[r]
<1>1. IInv /\ Given /\ [Next]_vars => [Kept]_vars
  <2> SUFFICES ASSUME TypeOK, Inv, Given, Next, unfolded = {}, NEW d \in Day,
                      \A r \in Rec : Overtaken(r) => stage'[r] = stage[r]
               PROVE  TotalUsed(d)' >= TotalUsed(d)
    BY DEF IInv
  <2>1. TypeOK'
    BY TypeStep
  <2>2. ASSUME NEW r \in Rec, Fold(r) PROVE TotalUsed(d)' >= TotalUsed(d)
    <3>1. stage'[r] # stage[r]
      BY <2>2 DEF Fold
    <3> QED BY <2>1, <2>2, <3>1, FoldKeepsDay
  <2>3. ASSUME NEW r \in Rec, Remove(r) PROVE TotalUsed(d)' >= TotalUsed(d)
    <3>1. stage'[r] # stage[r]
      BY <2>3 DEF Remove, TypeOK, RecordTypes
    <3> QED BY <2>1, <2>3, <3>1, RemoveKeepsDay
  <2>4. ASSUME NEW q \in Slot, FileUsage(q) PROVE TotalUsed(d)' >= TotalUsed(d)
    BY <2>1, <2>4, FileUsageKeepsDay
  <2>5. CASE kept' = kept /\ \A r \in Rec : book'[r][d].used = book[r][d].used
    <3>1. \A r \in Rec : UsedOn(r, d)' = UsedOn(r, d)
      BY <2>5 DEF UsedOn
    <3> QED BY <2>1, <3>1, AmountTypes, UsedTotalKept
  <2>6. ASSUME NEW g \in Grant, GrantStep(g) PROVE TotalUsed(d)' >= TotalUsed(d)
    <3>1. kept' = kept
      BY <2>6 DEF GrantStep, Credit, Enqueue, CreditTime, dbVars
    <3>2. SameUse
      <4>1. CASE UNCHANGED book
        BY <4>1 DEF SameUse
      <4>2. CASE \E r \in Rec, e \in Day : book' = [book EXCEPT ![r][e].earned = @ + 1]
        BY <4>2 DEF SameUse, TypeOK, RecordTypes, Booking
      <4> QED
        BY <2>6, <4>1, <4>2 DEF GrantStep, Credit, Enqueue, CreditTime, dbVars
    <3> QED BY <2>5, <3>1, <3>2 DEF SameUse
  <2>7. CASE UNCHANGED <<book, kept>>
    BY <2>5, <2>7
  <2> QED
    BY <2>2, <2>3, <2>4, <2>6, <2>7 DEF Next, Use, RollDay, Retire, ReportStep, SendReport, Answer,
       Deliver, LoseReport, RecordStep, EnrollSpend, FoldRead, FoldFails, Reply, EnrollRetry,
       RemoveRead, dbVars
<1> QED
  BY Invariance, GivenInit, GivenStep, <1>1, PTL DEF Spec, DayKept
=============================================================================
