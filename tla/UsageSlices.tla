---------------------------- MODULE UsageSlices ----------------------------
(***************************************************************************)
(* Which sites a computer looked up, from the resolver's query log to the  *)
(* counts the family sees (client/src/attrib.rs, post_slices in runner.rs, *)
(* server/src/usage.rs).  dnsmasq appends lines; the tick tails the file,  *)
(* which survives the agent and is truncated when it grows too long; the   *)
(* counts are kept per site and hour in memory, posted in batches and      *)
(* summed up by the server.                                                *)
(*                                                                         *)
(* A lookup stands for itself, so that it can be seen to be counted twice; *)
(* sizes are in lines.  Which names are left out, and the apps that are    *)
(* counted into the same slices, are not modelled.                         *)
(***************************************************************************)
EXTENDS Naturals, FiniteSets, SequencesExt

CONSTANTS Lookups,      \* lookups made (a bound)
          SliceOf,      \* the site and hour of a lookup
          MaxPending,   \* slices kept in memory
          DrainCap,     \* slices in a post
          ReadCap,      \* lines read in a tick
          TruncateAt,   \* lines beyond which the log is truncated
          SliceFaults   \* restarts, rotations, failures (a bound)

ASSUME UsageSlicesAssumption ==
  /\ Lookups \in Nat /\ SliceOf \in Seq(Nat) /\ Len(SliceOf) = Lookups
  /\ {MaxPending, DrainCap, ReadCap, TruncateAt} \subseteq Nat \ {0} /\ SliceFaults \in Nat

Lookup == 1..Lookups
NoLookups == [i \in Lookup |-> 0]
Slices(counts) == {SliceOf[i] : i \in {j \in Lookup : counts[j] > 0}}
Plus(a, b) == [i \in Lookup |-> a[i] + b[i]]
In(slices, counts) == [i \in Lookup |-> IF SliceOf[i] \in slices THEN counts[i] ELSE 0]

VARIABLES
  asked,      \* lookups made
  written,    \* the log's whole lines, 0 for the end of a cut one
  writing,    \* the lookup whose line is being written, or 0
  cut,        \* ... and its beginning is gone, or passed over
  logOffset,
  logPrimed,
  truncating, \* the tick has read a log that is too long
  waiting,    \* slices in memory, as the lookups they count
  post,       \* the batch under way: its lookups and how far it is
  tally,      \* usage_slices, likewise
  lost,       \* history: lookups that went uncounted, as below
  doubled,    \* history: lookups in a batch that counted and was kept
  stuck,      \* history: a truncation failed
  rotated,    \* history: emptied by somebody else since the last read
  slips

tailing == <<written, writing, cut, logOffset, logPrimed, truncating>>
sliceHistory == <<lost, doubled, stuck, rotated>>
sliceVars == <<asked, tailing, waiting, post, tally, sliceHistory, slips>>

NoPost == [counts |-> NoLookups, pc |-> "none"]
Mislead == slips < SliceFaults /\ slips' = slips + 1

\* A running agent, on a log it has read.
SlicesInit ==
  /\ asked = 0 /\ written = <<>> /\ writing = 0 /\ cut = FALSE
  /\ logOffset = 0 /\ logPrimed = TRUE /\ truncating = FALSE
  /\ waiting = NoLookups /\ post = NoPost /\ tally = NoLookups
  /\ lost = {} /\ doubled = {} /\ stuck = FALSE /\ rotated = FALSE
  /\ slips = 0

\* Whole lines that are still to be read; the first ones of a new log are
\* passed over when it has grown to where the old one was read to.
LinesOf(lines) == ToSet(lines) \ {0}
ReadFrom == IF Len(written) < logOffset THEN 0 ELSE logOffset
PassedOver == IF rotated THEN LinesOf(SubSeq(written, 1, ReadFrom)) ELSE {}
UnreadLines == LinesOf(SubSeq(written, ReadFrom + 1, Len(written))) \cup PassedOver

-----------------------------------------------------------------------------
(* The log *)

LineBegins ==
  /\ writing = 0 /\ asked < Lookups
  /\ asked' = asked + 1 /\ writing' = asked + 1
  /\ UNCHANGED <<written, cut, logOffset, logPrimed, truncating, waiting, post, tally,
                 sliceHistory, slips>>
LineEnds ==
  /\ writing # 0
  /\ written' = Append(written, IF cut THEN 0 ELSE writing)
  /\ writing' = 0 /\ cut' = FALSE
  /\ UNCHANGED <<asked, logOffset, logPrimed, truncating, waiting, post, tally, sliceHistory,
                 slips>>

Emptied == /\ written' = <<>> /\ cut' = (writing # 0)
           /\ lost' = lost \cup UnreadLines \cup ({writing} \ {0})

\* Somebody else empties it.
LogRotated ==
  /\ Mislead /\ Emptied /\ rotated' = TRUE
  /\ UNCHANGED <<asked, writing, logOffset, logPrimed, truncating, waiting, post, tally,
                 doubled, stuck>>

-----------------------------------------------------------------------------
(* The tick: ingest_dns_log_at *)

\* bump: a new slice finds no place when MaxPending are kept.
Room(counts, i) == SliceOf[i] \in Slices(counts) \/ Cardinality(Slices(counts)) < MaxPending
Bump(counts, i) ==
  IF i # 0 /\ Room(counts, i) THEN [counts EXCEPT ![i] = @ + 1] ELSE counts

\* One line after another.
Bumped(counts, lines) ==
  LET upTo[n \in 0..Len(lines)] == IF n = 0 THEN counts ELSE Bump(upTo[n - 1], lines[n])
  IN upTo[Len(lines)]

\* Slip: a new run reads the log from its start.
FromTheStart == 0
\* The first read of a run starts at the log's end.
FirstOffset == Len(written)

Prime ==
  /\ ~logPrimed
  /\ logPrimed' = TRUE /\ logOffset' = FirstOffset
  /\ rotated' = FALSE
  /\ cut' = (writing # 0) /\ lost' = lost \cup LinesOf(written) \cup ({writing} \ {0})
  /\ UNCHANGED <<asked, written, writing, truncating, waiting, post, tally, doubled, stuck, slips>>

\* Whole lines only; a log that is shorter than it was is a new one.
Ingest ==
  LET len == Len(written)
      to == IF len - ReadFrom > ReadCap THEN ReadFrom + ReadCap ELSE len
      read == SubSeq(written, ReadFrom + 1, to)
      counted == Bumped(waiting, read)
  IN /\ logPrimed /\ ~truncating
     /\ logOffset' = to
     /\ waiting' = counted
     /\ lost' = lost \cup PassedOver \cup {i \in LinesOf(read) : counted[i] = waiting[i]}
     /\ rotated' = FALSE
     /\ truncating' = (to > ReadFrom /\ len > TruncateAt)
     /\ UNCHANGED <<asked, written, writing, cut, logPrimed, post, tally, doubled, stuck, slips>>

\* The offset is set whether or not the log could be truncated.
Truncate ==
  /\ truncating /\ truncating' = FALSE /\ logOffset' = 0
  /\ \/ Emptied /\ UNCHANGED <<stuck, slips>>
     \/ Mislead /\ stuck' = TRUE /\ UNCHANGED <<written, cut, lost>>
  /\ UNCHANGED <<asked, writing, logPrimed, waiting, post, tally, doubled, rotated>>

-----------------------------------------------------------------------------
(* post_slices, and ingest on the server *)

\* What drain leaves behind.
Drained(counts, slices) == In(Slices(counts) \ slices, counts)
Drain ==
  /\ post.pc = "none" /\ ~truncating /\ waiting # NoLookups
  /\ \E slices \in SUBSET Slices(waiting) :
       /\ Cardinality(slices) <= DrainCap
       /\ slices = Slices(waiting) \/ Cardinality(slices) = DrainCap
       /\ post' = [counts |-> In(slices, waiting), pc |-> "sent"]
       /\ waiting' = Drained(waiting, slices)
  /\ UNCHANGED <<asked, tailing, tally, sliceHistory, slips>>

\* Summed up: one statement for the whole batch.
ServerCounts ==
  /\ post.pc = "sent" /\ post' = [post EXCEPT !.pc = "counted"]
  /\ tally' = Plus(tally, post.counts)
  /\ UNCHANGED <<asked, tailing, waiting, sliceHistory, slips>>
Answered ==
  /\ post.pc = "counted" /\ post' = NoPost
  /\ UNCHANGED <<asked, tailing, waiting, tally, sliceHistory, slips>>
PostFailed ==
  /\ post.pc \in {"sent", "counted"} /\ Mislead
  /\ post' = [post EXCEPT !.pc = "failed"]
  /\ doubled' = IF post.pc = "counted" THEN doubled \cup {i \in Lookup : post.counts[i] > 0}
                ELSE doubled
  /\ UNCHANGED <<asked, tailing, waiting, tally, lost, stuck, rotated>>

\* Slip: a batch that was not answered is let go.
DropBatch ==
  /\ post.pc = "failed" /\ ~truncating /\ post' = NoPost
  /\ UNCHANGED <<asked, tailing, waiting, tally, sliceHistory, slips>>

\* requeue: the batch goes back, slice by slice in any order, where there is room.
Requeue ==
  /\ post.pc = "failed" /\ ~truncating /\ post' = NoPost
  /\ \E kept \in SUBSET Slices(post.counts) :
       LET all == Slices(waiting) \cup kept
       IN /\ Cardinality(all) <= MaxPending
          /\ Slices(post.counts) \subseteq all \/ Cardinality(all) = MaxPending
          /\ Slices(post.counts) \cap Slices(waiting) \subseteq kept
          /\ waiting' = Plus(waiting, In(kept, post.counts))
          /\ lost' = lost \cup {i \in Lookup : post.counts[i] > 0 /\ SliceOf[i] \notin kept}
  /\ UNCHANGED <<asked, tailing, tally, doubled, stuck, rotated, slips>>

\* The log stays; what was counted and not posted is gone.
SlicesAgentRestarts ==
  /\ Mislead
  /\ waiting' = NoLookups /\ post' = NoPost
  /\ logOffset' = 0 /\ logPrimed' = FALSE /\ truncating' = FALSE
  /\ lost' = lost \cup {i \in Lookup : waiting[i] + (IF post.pc = "counted" THEN 0
                                                     ELSE post.counts[i]) > 0}
  /\ UNCHANGED <<asked, written, writing, cut, tally, doubled, stuck, rotated>>

SlicesNext ==
  \/ LineBegins \/ LineEnds \/ LogRotated \/ Prime \/ Ingest \/ Truncate
  \/ Drain \/ ServerCounts \/ Answered \/ PostFailed \/ Requeue \/ SlicesAgentRestarts

\* The tick and the network loop go on, and dnsmasq ends its lines.
SlicesFair ==
  /\ WF_sliceVars(LineEnds)
  /\ WF_sliceVars(Prime \/ (written # <<>> /\ Ingest) \/ Truncate)
  /\ WF_sliceVars(Drain \/ ServerCounts \/ Answered \/ Requeue)
SlicesSpec == SlicesInit /\ [][SlicesNext]_sliceVars /\ SlicesFair

-----------------------------------------------------------------------------
\* What the batch under way still has to add.
Uncounted == IF post.pc = "counted" THEN NoLookups ELSE post.counts

\* At every moment each lookup is somewhere: being written, in the log still to be
\* read, in memory, in the batch, summed up, or let go; and in one place only,
\* so that nothing can count it twice, unless the answer of its batch was lost
\* (requeue) or the log could not be truncated and is read again.
LookupsAccounted ==
  /\ \A i \in 1..asked : \/ i = writing \/ i \in UnreadLines \/ i \in lost
                         \/ waiting[i] + Uncounted[i] + tally[i] > 0
  /\ ~stuck => \A i \in Lookup \ doubled :
                waiting[i] + Uncounted[i] + tally[i] <= 1

\* However the log is cut and re-read, the agent restarted and a post tried
\* again, each lookup comes to be counted, and not twice: twice only in a batch
\* whose answer was lost and from a log that could not be truncated; not at all
\* only those the code lets go: unread when the agent starts or the log is
\* emptied, without a place in memory, or in memory when the agent ends.
EveryLookupOnce ==
  <>[](\A i \in 1..asked : /\ tally[i] > 0 \/ i \in lost
                           /\ tally[i] > 1 => i \in doubled \/ stuck)

\* "How many times the computer looked up each site" (docs/TRANSPARENCY.md:66):
\* the claim, of the counts.
CountsLookups == \A i \in Lookup : tally[i] <= 1

\* "dnsmasq appends, so this is safe" (attrib.rs): the claim, of a truncation
\* nothing went wrong before.
TruncationLosesNothing == slips = 0 => lost = {}
=============================================================================
