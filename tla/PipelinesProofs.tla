-------------------------- MODULE PipelinesProofs ---------------------------
(***************************************************************************)
(* Safety of the trace collector, for any number of requests, dashboards   *)
(* and events and any capacity of the ring and of the channels; of the     *)
(* dataset generator, for any bases, entries, workers and runs; and of     *)
(* verification, for any table, hashes and bands, any number of clients    *)
(* and whatever fails: an answer names a certificate that stood while the  *)
(* request ran and vouches for the file, and a file that is said not to be *)
(* certified was not owed a match.                                         *)
(***************************************************************************)
EXTENDS TraceCollector, DatasetGenerator, Verification, MerkleTheorems, FiniteSetTheorems,
        SequenceTheorems, TLAPS

TracerSteps ==
  {"idle", "numbering", "publishing", "sending", "running", "storing", "concluding",
   "sendingEnd", "ended"}
DashboardSteps ==
  {"idle", "subscribing", "listening", "reading", "cancelling", "ended"}

Events == [trace : Tracers, n : Nat, last : BOOLEAN]

Typed ==
  /\ writer \in Actors \cup {NoOne} /\ rlocks \in SUBSET Actors
  /\ ring \in Seq(Tracers) /\ stored \in Seq(Tracers)
  /\ subs \in SUBSET Dashboards /\ closed \in SUBSET Dashboards
  /\ chan \in [Dashboards -> Seq(Events)]
  /\ step \in [Actors -> TracerSteps \cup DashboardSteps]
  /\ \A t \in Tracers : step[t] \in TracerSteps
  /\ \A d \in Dashboards : step[d] \in DashboardSteps
  /\ count \in [Tracers -> 0..MaxRecorded] /\ todo \in [Tracers -> SUBSET Dashboards]

ChannelsFit == \A d \in Dashboards : Len(chan[d]) <= SubBuffer

(* Whoever reads under the lock is counted among its readers.              *)
ReadersAreCounted ==
  /\ \A t \in Tracers : Sending(t) => t \in rlocks
  /\ \A d \in Dashboards : step[d] = "reading" => d \in rlocks

(* The table holds the dashboards that have yet to leave, and a channel is *)
(* closed when its dashboard has left.                                     *)
TableIsCurrent ==
  /\ \A d \in Dashboards : d \in subs => step[d] \in {"listening", "reading", "cancelling"}
  /\ \A d \in Dashboards : d \in closed => step[d] = "ended"

(* An event goes to subscribers only: none leaves while it is under way.   *)
TodoIsSubscribed ==
  \A t \in Tracers : todo[t] \subseteq subs /\ (~ Sending(t) => todo[t] = {})

(* The ring is the end of everything that was stored.                      *)
RingIsRecent ==
  /\ Len(ring) <= RingCapacity /\ Len(ring) <= Len(stored)
  /\ Len(ring) < RingCapacity => Len(ring) = Len(stored)
  /\ \A j \in 1..Len(ring) : ring[j] = stored[Len(stored) - Len(ring) + j]

(* A trace is stored once its verdict is out, and before its end is        *)
(* announced to anybody.                                                   *)
IsStored(t) == \E k \in 1..Len(stored) : stored[k] = t
Concluded == {"concluding", "sendingEnd", "ended"}
StoredAreConcluded == \A k \in 1..Len(stored) : step[stored[k]] \in Concluded
AnnouncedAreStored ==
  /\ \A t \in Tracers : step[t] \in {"concluding", "sendingEnd"} => IsStored(t)
  /\ \A d \in Dashboards : \A i \in 1..Len(chan[d]) :
       chan[d][i].last => IsStored(chan[d][i].trace)

IInv ==
  /\ Typed /\ ChannelsFit /\ ReadersAreCounted /\ TableIsCurrent /\ TodoIsSubscribed
  /\ RingIsRecent /\ StoredAreConcluded /\ AnnouncedAreStored

-----------------------------------------------------------------------------
(* What the invariant gives                                                *)

LEMMA TypeFollows == IInv => CollectorTypeOK
BY DEF IInv, Typed, ChannelsFit, RingIsRecent, CollectorTypeOK, TracerSteps, DashboardSteps,
   Announcing, Events

LEMMA OpenFollows == IInv => SendsFindOpenChannels
BY DEF IInv, Typed, TableIsCurrent, TodoIsSubscribed, SendsFindOpenChannels

(* A stored trace that is not in the ring has a ring's worth after it.     *)
LEMMA FoundFollows == IInv => EndedIsFound
<1> SUFFICES ASSUME IInv, NEW d \in Dashboards, NEW i \in DOMAIN chan[d], chan[d][i].last
             PROVE  \E k \in DOMAIN stored :
                      /\ stored[k] = chan[d][i].trace
                      /\ \/ \E j \in DOMAIN ring : ring[j] = stored[k]
                         \/ Len(stored) - k >= RingCapacity
  BY DEF EndedIsFound
<1> USE DEF IInv
<1>1. /\ DOMAIN stored = 1..Len(stored) /\ DOMAIN ring = 1..Len(ring)
      /\ DOMAIN chan[d] = 1..Len(chan[d]) /\ Len(stored) \in Nat /\ Len(ring) \in Nat
  BY DEF Typed
<1>2. PICK k \in 1..Len(stored) : stored[k] = chan[d][i].trace
  BY <1>1 DEF AnnouncedAreStored, IsStored
<1> DEFINE n == Len(stored)
           m == Len(ring)
<1>3. RingCapacity \in Nat /\ n \in Nat /\ m \in Nat
  BY <1>1, CollectorAssumption
<1>4. k \in 1..n
  BY <1>2
<1>5. m <= n /\ (m < RingCapacity => m = n) /\ m <= RingCapacity
  BY DEF RingIsRecent
<1>6. \A j \in 1..m : ring[j] = stored[n - m + j]
  BY DEF RingIsRecent
<1>7. DOMAIN stored = 1..n /\ DOMAIN ring = 1..m
  BY <1>1
<1> HIDE DEF n, m, IInv
<1>8. CASE k > n - m
  <2> DEFINE j == k - (n - m)
  <2>1. j \in 1..m /\ n - m + j = k
    BY <1>3, <1>4, <1>5, <1>8
  <2>2. ring[j] = stored[k]
    BY <1>6, <2>1
  <2> QED
    BY <1>2, <1>4, <1>7, <2>1, <2>2
<1>9. CASE k <= n - m
  <2>1. n - k >= RingCapacity
    BY <1>3, <1>4, <1>5, <1>9
  <2> QED
    BY <1>2, <1>4, <1>7, <2>1 DEF n
<1> QED
  BY <1>3, <1>4, <1>8, <1>9

-----------------------------------------------------------------------------
(* Steps that move one actor                                               *)

(* Where an actor may go without upsetting what is said about its step.    *)
Fits(a, s) ==
  /\ a \in Tracers =>
       /\ s \in TracerSteps
       /\ step[a] \in Concluded => s \in Concluded
       /\ s \in {"concluding", "sendingEnd"} => IsStored(a)
  /\ a \in Dashboards =>
       /\ s \in DashboardSteps
       /\ a \in subs => s \in {"listening", "reading", "cancelling"}
       /\ a \in closed => s = "ended"

LEMMA Moves ==
  ASSUME IInv, NEW a \in Actors, NEW s, Goto(a, s), Fits(a, s),
         UNCHANGED <<ring, listeners, count, stored>>,
         writer' \in Actors \cup {NoOne}, rlocks' \in SUBSET Actors,
         todo' \in [Tracers -> SUBSET Dashboards],
         ReadersAreCounted', TodoIsSubscribed'
  PROVE  IInv'
<1> USE DEF IInv, listeners
<1>1. /\ step' \in [Actors -> TracerSteps \cup DashboardSteps] /\ step'[a] = s
      /\ \A b \in Actors \ {a} : step'[b] = step[b]
  BY DEF Goto, Typed, Fits, Actors
<1>2. Typed'
  BY <1>1 DEF Typed, Fits, Actors
<1>3. ChannelsFit'
  BY DEF ChannelsFit
<1>4. TableIsCurrent'
  BY <1>1 DEF TableIsCurrent, Fits, Actors
<1>5. RingIsRecent'
  BY DEF RingIsRecent
<1>6. StoredAreConcluded'
  <2>1. \A k \in 1..Len(stored) : stored[k] \in Tracers
    BY DEF Typed
  <2> QED
    BY <1>1, <2>1 DEF StoredAreConcluded, Fits, Actors
<1>7. AnnouncedAreStored'
  BY <1>1 DEF AnnouncedAreStored, IsStored, Fits, Actors
<1> QED
  BY <1>2, <1>3, <1>4, <1>5, <1>6, <1>7

(* Where no lock is taken or given back and nothing is published either.   *)
Quiet == {"idle", "numbering", "publishing", "running", "storing", "concluding", "ended",
          "subscribing", "listening", "cancelling"}

LEMMA QuietMoves ==
  ASSUME IInv, NEW a \in Actors, NEW s \in Quiet, step[a] \in Quiet,
         Goto(a, s), Fits(a, s), UNCHANGED <<rlocks, ring, listeners, count, todo, stored>>,
         writer' \in Actors \cup {NoOne}
  PROVE  IInv'
<1>1. /\ step'[a] = s
      /\ \A b \in Actors \ {a} : step'[b] = step[b]
  BY DEF Goto, Typed, IInv
<1>2. rlocks' \in SUBSET Actors /\ todo' \in [Tracers -> SUBSET Dashboards]
  BY DEF IInv, Typed
<1>3. ReadersAreCounted'
  BY <1>1 DEF IInv, ReadersAreCounted, Sending, Quiet, Actors
<1>4. TodoIsSubscribed'
  BY <1>1 DEF IInv, TodoIsSubscribed, Sending, Quiet, Actors, listeners
<1> QED
  BY <1>2, <1>3, <1>4, Moves

LEMMA LockIInv == ASSUME IInv, NEW a \in Actors, Lock(a) PROVE IInv'
<1> USE DEF IInv, Lock, listeners
<1>1. Typed'
  BY DEF Typed
<1>2. ReadersAreCounted' /\ TodoIsSubscribed'
  BY DEF ReadersAreCounted, TodoIsSubscribed, Sending
<1>3. ChannelsFit' /\ TableIsCurrent' /\ RingIsRecent'
  BY DEF ChannelsFit, TableIsCurrent, RingIsRecent
<1>4. StoredAreConcluded' /\ AnnouncedAreStored'
  BY DEF StoredAreConcluded, AnnouncedAreStored, IsStored
<1> QED
  BY <1>1, <1>2, <1>3, <1>4

LEMMA NewSinkIInv == ASSUME IInv, NEW t \in Tracers, NewSink(t) PROVE IInv'
<1>1. Fits(t, "numbering")
  BY CollectorAssumption DEF Fits, NewSink, TracerSteps, Concluded
<1> QED
  BY <1>1, QuietMoves DEF NewSink, Quiet, Actors, lock, listeners, IInv, Typed

LEMMA NumberedIInv == ASSUME IInv, NEW t \in Tracers, Numbered(t) PROVE IInv'
<1>1. Fits(t, "publishing")
  BY CollectorAssumption DEF Fits, Numbered, TracerSteps, Concluded
<1> QED
  BY <1>1, QuietMoves DEF Numbered, Quiet, Actors, Unlock

LEMMA SetVerdictIInv == ASSUME IInv, NEW t \in Tracers, SetVerdict(t) PROVE IInv'
<1>1. Fits(t, "storing")
  BY CollectorAssumption DEF Fits, SetVerdict, TracerSteps, Concluded
<1> QED
  BY <1>1, QuietMoves DEF SetVerdict, AfterVerdict, Quiet, Actors, lock, listeners, IInv, Typed

LEMMA AbandonIInv == ASSUME IInv, NEW t \in Tracers, Abandon(t) PROVE IInv'
<1>1. Fits(t, "ended")
  BY CollectorAssumption DEF Fits, Abandon, TracerSteps, Concluded
<1> QED
  BY <1>1, QuietMoves DEF Abandon, Quiet, Actors, lock, listeners, IInv, Typed

LEMMA ConnectIInv == ASSUME IInv, NEW d \in Dashboards, Connect(d) PROVE IInv'
<1>1. Fits(d, "subscribing")
  BY CollectorAssumption DEF Fits, Connect, DashboardSteps, IInv, TableIsCurrent
<1> QED
  BY <1>1, QuietMoves DEF Connect, Quiet, Actors, lock, listeners, IInv, Typed

LEMMA LeaveIInv == ASSUME IInv, NEW d \in Dashboards, Leave(d) PROVE IInv'
<1>1. Fits(d, "cancelling")
  BY CollectorAssumption DEF Fits, Leave, DashboardSteps, IInv, TableIsCurrent
<1> QED
  BY <1>1, QuietMoves DEF Leave, Quiet, Actors, lock, listeners, IInv, Typed

LEMMA ReadIInv == ASSUME IInv, NEW d \in Dashboards, Read(d) PROVE IInv'
<1> USE DEF Read, RLock, IInv
<1>1. Fits(d, "reading")
  BY CollectorAssumption DEF Fits, DashboardSteps, TableIsCurrent
<1>2. step'[d] = "reading" /\ \A b \in Actors \ {d} : step'[b] = step[b]
  BY DEF Goto, Typed, Actors
<1>3. ReadersAreCounted'
  BY <1>2, CollectorAssumption DEF ReadersAreCounted, Sending, Actors
<1>4. TodoIsSubscribed'
  BY <1>2, CollectorAssumption DEF TodoIsSubscribed, Sending, Actors, listeners
<1> QED
  BY <1>1, <1>3, <1>4, Moves DEF Actors, Typed

LEMMA DoneReadingIInv == ASSUME IInv, NEW d \in Dashboards, DoneReading(d) PROVE IInv'
<1> USE DEF DoneReading, RUnlock, IInv
<1>1. Fits(d, "listening")
  BY CollectorAssumption DEF Fits, DashboardSteps, TableIsCurrent
<1>2. step'[d] = "listening" /\ \A b \in Actors \ {d} : step'[b] = step[b]
  BY DEF Goto, Typed, Actors
<1>3. ReadersAreCounted'
  BY <1>2, CollectorAssumption DEF ReadersAreCounted, Sending, Actors
<1>4. TodoIsSubscribed'
  BY <1>2, CollectorAssumption DEF TodoIsSubscribed, Sending, Actors, listeners
<1> QED
  BY <1>1, <1>3, <1>4, Moves DEF Actors, Typed

LEMMA BeginPublishIInv == ASSUME IInv, NEW t \in Tracers, BeginPublish(t) PROVE IInv'
<1> USE DEF BeginPublish, RLock, IInv
<1> DEFINE s == IF step[t] = "publishing" THEN "sending" ELSE "sendingEnd"
<1>1. Fits(t, s)
  BY CollectorAssumption DEF Fits, TracerSteps, Concluded, AnnouncedAreStored
<1>2. step'[t] = s /\ \A b \in Actors \ {t} : step'[b] = step[b]
  BY DEF Goto, Typed, Actors
<1>3. todo' = [todo EXCEPT ![t] = subs] /\ todo' \in [Tracers -> SUBSET Dashboards]
  BY DEF Typed
<1>4. ReadersAreCounted'
  BY <1>2, CollectorAssumption DEF ReadersAreCounted, Sending, Actors
<1>5. TodoIsSubscribed'
  BY <1>2, <1>3, CollectorAssumption DEF TodoIsSubscribed, Sending, Actors, listeners, Typed
<1> QED
  BY <1>1, <1>3, <1>4, <1>5, Moves DEF Actors, Typed

LEMMA EndPublishIInv == ASSUME IInv, NEW t \in Tracers, EndPublish(t) PROVE IInv'
<1> USE DEF EndPublish, RUnlock, IInv
<1> DEFINE s == IF step[t] = "sending" THEN "running" ELSE "ended"
<1>1. Fits(t, s)
  BY CollectorAssumption DEF Fits, TracerSteps, Concluded, Sending
<1>2. step'[t] = s /\ \A b \in Actors \ {t} : step'[b] = step[b]
  BY DEF Goto, Typed, Actors
<1>3. ReadersAreCounted'
  BY <1>2, CollectorAssumption DEF ReadersAreCounted, Sending, Actors
<1>4. TodoIsSubscribed'
  BY <1>2, CollectorAssumption DEF TodoIsSubscribed, Sending, Actors, listeners, Typed
<1> QED
  BY <1>1, <1>3, <1>4, Moves DEF Actors, Typed

-----------------------------------------------------------------------------
(* Steps that change what was recorded, stored, sent or subscribed         *)

(* A trace that has no verdict yet is not stored.                          *)
LEMMA RunningIsUnstored ==
  ASSUME IInv, NEW t \in Tracers, step[t] \notin Concluded
  PROVE  ~ IsStored(t)
BY DEF IInv, StoredAreConcluded, IsStored

LEMMA RecordIInv == ASSUME IInv, NEW t \in Tracers, Record(t) PROVE IInv'
<1> USE DEF IInv, Record, MayRecord, lock, listeners
<1>1. step'[t] = "publishing" /\ \A b \in Actors \ {t} : step'[b] = step[b]
  BY DEF Goto, Typed, Actors
<1>2. count' \in [Tracers -> 0..MaxRecorded]
  BY CollectorAssumption DEF Typed
<1>3. step' \in [Actors -> TracerSteps \cup DashboardSteps]
  BY DEF Goto, Typed, TracerSteps
<1>4. Typed'
  BY <1>1, <1>2, <1>3, CollectorAssumption DEF Typed, TracerSteps, Actors
<1>5. ReadersAreCounted' /\ TodoIsSubscribed'
  BY <1>1, CollectorAssumption DEF ReadersAreCounted, TodoIsSubscribed, Sending, Actors
<1>6. TableIsCurrent'
  BY <1>1, CollectorAssumption DEF TableIsCurrent, Actors
<1>7. ChannelsFit' /\ RingIsRecent'
  BY DEF ChannelsFit, RingIsRecent
<1>8. \A k \in 1..Len(stored) : stored[k] \in Tracers \ {t}
  <2>1. ~ IsStored(t)
    BY RunningIsUnstored DEF Concluded
  <2> QED
    BY <2>1 DEF Typed, IsStored
<1>9. StoredAreConcluded'
  BY <1>1, <1>8 DEF StoredAreConcluded, Actors
<1>10. AnnouncedAreStored'
  BY <1>1 DEF AnnouncedAreStored, IsStored, Actors
<1> QED
  BY <1>4, <1>5, <1>6, <1>7, <1>9, <1>10

(* Appending to what was stored keeps the ring its end.                    *)
LEMMA RetainedIsRecent ==
  ASSUME IInv, NEW t \in Tracers, ring' = Retained(Append(ring, t)), stored' = Append(stored, t)
  PROVE  RingIsRecent' /\ ring' \in Seq(Tracers)
<1> DEFINE n == Len(stored)
           m == Len(ring)
           longer == Append(ring, t)
<1>1. /\ ring \in Seq(Tracers) /\ stored \in Seq(Tracers)
      /\ RingCapacity \in Nat \ {0}
  BY CollectorAssumption DEF IInv, Typed
<1>2. n \in Nat /\ m \in Nat /\ m <= n /\ (m < RingCapacity => m = n) /\ m <= RingCapacity
  BY <1>1 DEF IInv, RingIsRecent
<1>3. \A j \in 1..m : ring[j] = stored[n - m + j]
  BY DEF IInv, RingIsRecent
<1>4. /\ stored' \in Seq(Tracers) /\ Len(stored') = n + 1 /\ stored'[n + 1] = t
      /\ \A j \in 1..n : stored'[j] = stored[j]
  BY <1>1
<1>5. /\ longer \in Seq(Tracers) /\ Len(longer) = m + 1 /\ longer[m + 1] = t
      /\ \A j \in 1..m : longer[j] = ring[j]
  BY <1>1
<1>6. \A j \in 1..(m + 1) : longer[j] = stored'[(n + 1) - (m + 1) + j]
  <2> SUFFICES ASSUME NEW j \in 1..(m + 1)
               PROVE  longer[j] = stored'[(n + 1) - (m + 1) + j]
    OBVIOUS
  <2> HIDE DEF n, m, longer
  <2>1. CASE j = m + 1
    <3>1. (n + 1) - (m + 1) + j = n + 1
      BY <1>2, <2>1
    <3> QED
      BY <1>4, <1>5, <2>1, <3>1
  <2>2. CASE j # m + 1
    <3>1. j \in 1..m /\ (n + 1) - (m + 1) + j = n - m + j /\ n - m + j \in 1..n
      BY <1>2, <2>2
    <3> QED
      BY <1>3, <1>4, <1>5, <3>1
  <2> QED
    BY <2>1, <2>2
<1>7. CASE m + 1 <= RingCapacity
  <2>1. ring' = longer
    BY <1>1, <1>2, <1>5, <1>7 DEF Retained
  <2>2. Len(ring') = m + 1
    BY <1>5, <2>1
  <2> HIDE DEF n, m, longer
  <2>3. Len(ring') <= RingCapacity /\ Len(ring') <= Len(stored')
    BY <1>2, <1>4, <1>7, <2>2
  <2>4. Len(ring') < RingCapacity => Len(ring') = Len(stored')
    BY <1>2, <1>4, <1>7, <2>2, <1>1
  <2>5. \A j \in 1..Len(ring') : ring'[j] = stored'[Len(stored') - Len(ring') + j]
    BY <1>4, <1>6, <2>1, <2>2
  <2> QED
    BY <1>5, <2>1, <2>3, <2>4, <2>5 DEF RingIsRecent
<1>8. CASE m + 1 > RingCapacity
  <2>1. m = RingCapacity
    BY <1>1, <1>2, <1>8
  <2>2. ring' = SubSeq(longer, 2, m + 1)
    BY <1>1, <1>2, <1>5, <1>8, <2>1 DEF Retained
  <2> HIDE DEF n, m, longer
  <2>3. /\ ring' \in Seq(Tracers) /\ Len(ring') = m
        /\ \A j \in 1..m : ring'[j] = longer[j + 1]
    BY <1>1, <1>2, <1>5, <2>1, <2>2
  <2>4. \A j \in 1..m : ring'[j] = stored'[(n + 1) - m + j]
    <3> SUFFICES ASSUME NEW j \in 1..m PROVE ring'[j] = stored'[(n + 1) - m + j]
      OBVIOUS
    <3>1. j + 1 \in 1..(m + 1) /\ (n + 1) - (m + 1) + (j + 1) = (n + 1) - m + j
      BY <1>2
    <3> QED
      BY <1>6, <2>3, <3>1
  <2>5. Len(ring') <= RingCapacity /\ Len(ring') <= Len(stored')
    BY <1>1, <1>2, <1>4, <2>1, <2>3
  <2>6. ~ (Len(ring') < RingCapacity)
    BY <1>1, <2>1, <2>3
  <2>7. \A j \in 1..Len(ring') : ring'[j] = stored'[Len(stored') - Len(ring') + j]
    BY <1>4, <2>3, <2>4
  <2> QED
    BY <2>3, <2>5, <2>6, <2>7 DEF RingIsRecent
<1> QED
  BY <1>1, <1>2, <1>7, <1>8

LEMMA StoreIInv == ASSUME IInv, NEW t \in Tracers, Store(t) PROVE IInv'
<1> USE DEF IInv, Store, Unlock, listeners
<1>1. step'[t] = "concluding" /\ \A b \in Actors \ {t} : step'[b] = step[b]
  BY DEF Goto, Typed, Actors
<1>2. RingIsRecent' /\ ring' \in Seq(Tracers)
  BY RetainedIsRecent
<1>3. /\ stored \in Seq(Tracers) /\ Len(stored) \in Nat /\ stored' \in Seq(Tracers)
      /\ Len(stored') = Len(stored) + 1 /\ stored'[Len(stored) + 1] = t
      /\ \A k \in 1..Len(stored) : stored'[k] = stored[k]
  BY DEF Typed
<1>4. step' \in [Actors -> TracerSteps \cup DashboardSteps]
  BY DEF Goto, Typed, TracerSteps
<1>5. Typed'
  BY <1>1, <1>2, <1>3, <1>4, CollectorAssumption DEF Typed, TracerSteps, Actors
<1>6. ReadersAreCounted' /\ TodoIsSubscribed'
  BY <1>1, CollectorAssumption DEF ReadersAreCounted, TodoIsSubscribed, Sending, Actors
<1>7. TableIsCurrent'
  BY <1>1, CollectorAssumption DEF TableIsCurrent, Actors
<1>8. ChannelsFit'
  BY DEF ChannelsFit
<1>9. \A k \in 1..Len(stored) : stored[k] \in Tracers
  BY <1>3
<1>10. StoredAreConcluded'
  <2> SUFFICES ASSUME NEW k \in 1..Len(stored') PROVE step'[stored'[k]] \in Concluded
    BY DEF StoredAreConcluded
  <2>1. CASE k = Len(stored) + 1
    BY <1>1, <1>3, <2>1 DEF Concluded
  <2>2. CASE k # Len(stored) + 1
    <3>1. k \in 1..Len(stored)
      BY <1>3, <2>2
    <3> QED
      BY <1>1, <1>3, <1>9, <3>1 DEF StoredAreConcluded, Actors, Concluded
  <2> QED
    BY <2>1, <2>2
<1>11. \A u : IsStored(u) => IsStored(u)'
  <2> SUFFICES ASSUME NEW u, IsStored(u) PROVE IsStored(u)'
    OBVIOUS
  <2>1. PICK k \in 1..Len(stored) : stored[k] = u
    BY DEF IsStored
  <2>2. k \in 1..Len(stored') /\ stored'[k] = u
    BY <1>3, <2>1
  <2> QED
    BY <2>2 DEF IsStored
<1>12. IsStored(t)'
  <2>1. Len(stored) + 1 \in 1..Len(stored')
    BY <1>3
  <2> QED
    BY <1>3, <2>1 DEF IsStored
<1>13. AnnouncedAreStored'
  BY <1>1, <1>11, <1>12, CollectorAssumption DEF AnnouncedAreStored, Actors
<1> QED
  BY <1>2, <1>5, <1>6, <1>7, <1>8, <1>10, <1>13

(* An end is sent for a trace that is stored by then.                      *)
LEMMA SendIInv ==
  ASSUME IInv, NEW t \in Tracers, NEW d \in Dashboards, Send(t, d)
  PROVE  IInv'
<1> USE DEF IInv, Send, lock
<1> DEFINE end == step[t] = "sendingEnd"
           e == Event(t, end)
<1>0. Offer(d, e) /\ end \in BOOLEAN /\ (end => IsStored(t))
  BY DEF AnnouncedAreStored
<1> HIDE DEF end
<1>1. e \in Events /\ e.trace = t /\ (e.last => IsStored(t))
  <2>1. count[t] \in Nat
    BY CollectorAssumption DEF Typed
  <2> QED
    BY <1>0, <2>1 DEF Event, Events
<1>2. todo' = [todo EXCEPT ![t] = todo[t] \ {d}] /\ todo' \in [Tracers -> SUBSET Dashboards]
  BY DEF Typed
<1> HIDE DEF e
<1>3. \/ chan' = chan
      \/ chan' = [chan EXCEPT ![d] = Append(chan[d], e)] /\ Len(chan[d]) < SubBuffer
  BY <1>0 DEF Offer
<1>4. /\ chan' \in [Dashboards -> Seq(Events)]
      /\ \A b \in Dashboards \ {d} : chan'[b] = chan[b]
      /\ \/ chan'[d] = chan[d]
         \/ chan'[d] = Append(chan[d], e) /\ Len(chan[d]) < SubBuffer
  <2>1. chan \in [Dashboards -> Seq(Events)] /\ Append(chan[d], e) \in Seq(Events)
    BY <1>1 DEF Typed
  <2> QED
    BY <1>3, <2>1
<1>5. Typed'
  BY <1>2, <1>4 DEF Typed
<1>6. chan[d] \in Seq(Events) /\ Len(chan[d]) \in Nat
  BY DEF Typed
<1>7. ChannelsFit'
  <2>1. Len(chan'[d]) <= SubBuffer
    BY <1>1, <1>4, <1>6, CollectorAssumption DEF ChannelsFit
  <2> QED
    BY <1>4, <2>1 DEF ChannelsFit
<1>8. ReadersAreCounted' /\ TableIsCurrent' /\ RingIsRecent' /\ StoredAreConcluded'
  BY DEF ReadersAreCounted, Sending, TableIsCurrent, RingIsRecent, StoredAreConcluded
<1>9. TodoIsSubscribed'
  BY <1>2 DEF TodoIsSubscribed, Sending, Typed
<1>10. \A i \in 1..Len(chan'[d]) : chan'[d][i].last => IsStored(chan'[d][i].trace)
  <2> SUFFICES ASSUME NEW i \in 1..Len(chan'[d]), chan'[d][i].last
               PROVE  IsStored(chan'[d][i].trace)
    OBVIOUS
  <2>1. CASE i \in 1..Len(chan[d]) /\ chan'[d][i] = chan[d][i]
    BY <2>1 DEF AnnouncedAreStored
  <2>2. CASE chan'[d][i] = e
    BY <1>1, <2>2
  <2>3. \/ i \in 1..Len(chan[d]) /\ chan'[d][i] = chan[d][i]
        \/ chan'[d][i] = e
    <3>1. CASE chan'[d] = chan[d]
      BY <3>1
    <3>2. CASE chan'[d] = Append(chan[d], e)
      BY <1>1, <1>6, <3>2
    <3> QED
      BY <1>4, <3>1, <3>2
  <2> QED
    BY <2>1, <2>2, <2>3
<1>11. AnnouncedAreStored'
  <2>1. step' = step /\ \A u : IsStored(u)' <=> IsStored(u)
    BY DEF IsStored
  <2>2. \A u \in Tracers : step'[u] \in {"concluding", "sendingEnd"} => IsStored(u)'
    BY <2>1 DEF AnnouncedAreStored
  <2>3. ASSUME NEW b \in Dashboards, NEW i \in 1..Len(chan'[b]), chan'[b][i].last
        PROVE  IsStored(chan'[b][i].trace)
    <3>1. CASE b = d
      BY <1>10, <2>3, <3>1
    <3>2. CASE b # d
      BY <1>4, <2>3, <3>2 DEF AnnouncedAreStored
    <3> QED
      BY <3>1, <3>2
  <2> QED
    BY <2>1, <2>2, <2>3 DEF AnnouncedAreStored
<1> QED
  BY <1>5, <1>7, <1>8, <1>9, <1>11

LEMMA ReceiveIInv == ASSUME IInv, NEW d \in Dashboards, Receive(d) PROVE IInv'
<1> USE DEF IInv, Receive, lock
<1>1. chan[d] \in Seq(Events) /\ Len(chan[d]) \in Nat /\ chan[d] # <<>>
  BY DEF Typed
<1>2. /\ Tail(chan[d]) \in Seq(Events) /\ Len(Tail(chan[d])) = Len(chan[d]) - 1
      /\ \A i \in 1..Len(Tail(chan[d])) :
           i + 1 \in 1..Len(chan[d]) /\ Tail(chan[d])[i] = chan[d][i + 1]
  BY <1>1
<1>3. /\ chan' \in [Dashboards -> Seq(Events)] /\ chan'[d] = Tail(chan[d])
      /\ \A b \in Dashboards \ {d} : chan'[b] = chan[b]
  BY <1>2 DEF Typed
<1>4. Typed'
  BY <1>3 DEF Typed
<1>5. ChannelsFit'
  BY <1>1, <1>2, <1>3, CollectorAssumption DEF ChannelsFit
<1>6. ReadersAreCounted' /\ TableIsCurrent' /\ RingIsRecent' /\ StoredAreConcluded'
  BY DEF ReadersAreCounted, Sending, TableIsCurrent, RingIsRecent, StoredAreConcluded
<1>7. TodoIsSubscribed'
  BY DEF TodoIsSubscribed, Sending
<1>8. \A i \in 1..Len(chan'[d]) : chan'[d][i].last => IsStored(chan'[d][i].trace)
  BY <1>2, <1>3 DEF AnnouncedAreStored
<1>9. AnnouncedAreStored'
  BY <1>3, <1>8 DEF AnnouncedAreStored, IsStored
<1> QED
  BY <1>4, <1>5, <1>6, <1>7, <1>9

LEMMA SubscribeIInv == ASSUME IInv, NEW d \in Dashboards, Subscribe(d) PROVE IInv'
<1> USE DEF IInv, Subscribe, Unlock
<1>1. step'[d] = "listening" /\ \A b \in Actors \ {d} : step'[b] = step[b]
  BY DEF Goto, Typed, Actors
<1>2. step' \in [Actors -> TracerSteps \cup DashboardSteps]
  BY DEF Goto, Typed, DashboardSteps
<1>3. Typed'
  BY <1>1, <1>2, CollectorAssumption DEF Typed, DashboardSteps, Actors
<1>4. ReadersAreCounted' /\ TodoIsSubscribed'
  BY <1>1, CollectorAssumption DEF ReadersAreCounted, TodoIsSubscribed, Sending, Actors
<1>5. TableIsCurrent'
  BY <1>1, CollectorAssumption DEF TableIsCurrent, Actors
<1>6. ChannelsFit' /\ RingIsRecent'
  BY DEF ChannelsFit, RingIsRecent
<1>7. StoredAreConcluded'
  <2>1. \A k \in 1..Len(stored) : stored[k] \in Tracers
    BY DEF Typed
  <2> QED
    BY <1>1, <2>1, CollectorAssumption DEF StoredAreConcluded, Actors
<1>8. AnnouncedAreStored'
  BY <1>1, CollectorAssumption DEF AnnouncedAreStored, IsStored, Actors
<1> QED
  BY <1>3, <1>4, <1>5, <1>6, <1>7, <1>8

(* Whoever leaves does so alone with the table: nobody is sending.         *)
LEMMA CancelIInv == ASSUME IInv, NEW d \in Dashboards, Cancel(d) PROVE IInv'
<1> USE DEF IInv, Cancel, Unlock
<1>1. step'[d] = "ended" /\ \A b \in Actors \ {d} : step'[b] = step[b]
  BY DEF Goto, Typed, Actors
<1>2. step' \in [Actors -> TracerSteps \cup DashboardSteps]
  BY DEF Goto, Typed, DashboardSteps
<1>3. Typed'
  BY <1>1, <1>2, CollectorAssumption DEF Typed, DashboardSteps, Actors
<1>4. ReadersAreCounted'
  BY <1>1, CollectorAssumption DEF ReadersAreCounted, Sending, Actors
<1>5. \A t \in Tracers : ~ Sending(t) /\ todo[t] = {}
  BY DEF Exclusive, ReadersAreCounted, TodoIsSubscribed
<1>6. TodoIsSubscribed'
  BY <1>5 DEF TodoIsSubscribed
<1>7. TableIsCurrent'
  BY <1>1, CollectorAssumption DEF TableIsCurrent, Actors
<1>8. ChannelsFit' /\ RingIsRecent'
  BY DEF ChannelsFit, RingIsRecent
<1>9. StoredAreConcluded'
  <2>1. \A k \in 1..Len(stored) : stored[k] \in Tracers
    BY DEF Typed
  <2> QED
    BY <1>1, <2>1, CollectorAssumption DEF StoredAreConcluded, Actors
<1>10. AnnouncedAreStored'
  BY <1>1, CollectorAssumption DEF AnnouncedAreStored, IsStored, Actors
<1> QED
  BY <1>3, <1>4, <1>6, <1>7, <1>8, <1>9, <1>10

-----------------------------------------------------------------------------
(* The invariant                                                           *)

LEMMA InitIInv == CollectorInit => IInv
<1> SUFFICES ASSUME CollectorInit PROVE IInv
  OBVIOUS
<1> USE DEF CollectorInit
<1>1. \A a \in Actors : step[a] = "idle"
  OBVIOUS
<1>2. Typed
  BY <1>1, CollectorAssumption DEF Typed, TracerSteps, DashboardSteps, Actors
<1>3. ReadersAreCounted /\ TableIsCurrent /\ TodoIsSubscribed
  BY <1>1 DEF ReadersAreCounted, TableIsCurrent, TodoIsSubscribed, Sending, Actors
<1>4. Len(ring) = 0 /\ Len(stored) = 0 /\ \A d \in Dashboards : Len(chan[d]) = 0
  OBVIOUS
<1>5. ChannelsFit /\ RingIsRecent
  BY <1>4, CollectorAssumption DEF ChannelsFit, RingIsRecent
<1>6. StoredAreConcluded /\ AnnouncedAreStored
  BY <1>1, <1>4 DEF StoredAreConcluded, AnnouncedAreStored, Actors
<1> QED
  BY <1>2, <1>3, <1>5, <1>6 DEF IInv

LEMMA NextIInv == IInv /\ [CollectorNext]_collectorVars => IInv'
<1> SUFFICES ASSUME IInv, [CollectorNext]_collectorVars PROVE IInv'
  OBVIOUS
<1>1. ASSUME NEW t \in Tracers, NewSink(t) \/ Tracing(t) PROVE IInv'
  BY <1>1, LockIInv, NewSinkIInv, NumberedIInv, RecordIInv, SetVerdictIInv, AbandonIInv,
     StoreIInv, BeginPublishIInv, SendIInv, EndPublishIInv DEF Tracing, Actors
<1>2. ASSUME NEW d \in Dashboards,
             Connect(d) \/ Receive(d) \/ Read(d) \/ Leave(d) \/ Serving(d)
      PROVE  IInv'
  BY <1>2, LockIInv, ConnectIInv, ReceiveIInv, ReadIInv, LeaveIInv, SubscribeIInv,
     DoneReadingIInv, CancelIInv DEF Serving, Actors
<1>3. CASE UNCHANGED collectorVars
  BY <1>3 DEF collectorVars, lock, listeners, IInv, Typed, ChannelsFit, ReadersAreCounted,
     Sending, TableIsCurrent, TodoIsSubscribed, RingIsRecent, StoredAreConcluded,
     AnnouncedAreStored, IsStored
<1> QED
  BY <1>1, <1>2, <1>3 DEF CollectorNext

(***************************************************************************)
(* The ring and the channels stay within their capacities, no request      *)
(* sends to a closed channel, and a trace whose end was announced is in    *)
(* the ring until a ring's worth of others has followed it.                *)
(***************************************************************************)
THEOREM CollectorIsSafe == CollectorSpec => []CollectorSafety
<1>1. IInv => CollectorSafety
  BY TypeFollows, OpenFollows, FoundFollows DEF CollectorSafety
<1> QED
  BY <1>1, InitIInv, NextIInv, PTL DEF CollectorSpec

(* A trace that is stored never changes again.                             *)
THEOREM StoredStaysFrozen == CollectorSpec => StoredIsFrozen
<1> DEFINE Frozen == \A k \in DOMAIN stored : count'[stored[k]] = count[stored[k]]
<1>1. ASSUME IInv, [CollectorNext]_collectorVars PROVE [Frozen]_collectorVars
  <2>1. ASSUME NEW t \in Tracers, Record(t) PROVE Frozen
    <3>1. ~ IsStored(t)
      BY <1>1, <2>1, RunningIsUnstored DEF Record, MayRecord, Concluded
    <3>2. \A k \in DOMAIN stored : stored[k] \in Tracers \ {t}
      BY <1>1, <3>1 DEF IInv, Typed, IsStored
    <3> QED
      BY <1>1, <2>1, <3>2 DEF Record, MayRecord, IInv, Typed
  <2>2. ASSUME UNCHANGED count PROVE Frozen
    BY <2>2
  <2>3. ASSUME NEW t \in Tracers, NewSink(t) \/ Tracing(t) PROVE Frozen
    BY <2>1, <2>2, <2>3 DEF Tracing, NewSink, Lock, Numbered, SetVerdict, Abandon, Store,
       BeginPublish, Send, EndPublish
  <2>4. ASSUME NEW d \in Dashboards,
               Connect(d) \/ Receive(d) \/ Read(d) \/ Leave(d) \/ Serving(d)
        PROVE  Frozen
    BY <2>2, <2>4 DEF Serving, Connect, Receive, Read, Leave, Lock, Subscribe, DoneReading, Cancel
  <2> QED
    BY <1>1, <2>3, <2>4 DEF CollectorNext
<1>2. IInv /\ [CollectorNext]_collectorVars => [Frozen]_collectorVars
  BY <1>1
<1> QED
  BY <1>2, InitIInv, NextIInv, PTL DEF CollectorSpec, StoredIsFrozen

-----------------------------------------------------------------------------
(***************************************************************************)
(* The dataset generator                                                   *)
(***************************************************************************)

VariantNames == Bases \X EntryNames
SampleRecords == [base : Bases, entry : EntryNames, sha : Files, peer : Bases \cup {Nothing}]
Jobs ==
  [job : Nat, entry : 1..(Len(Entries) + 1), writing : BOOLEAN, samples : Seq(SampleRecords),
   failed : BOOLEAN]

GeneratorTyped ==
  /\ cache \in [Bases -> Images \cup {Nothing}]
  /\ \A b \in Bases : cache[b] = Nothing \/ cache[b].of = b
  /\ variants \in [VariantNames -> Files \cup {Nothing}]
  /\ refs \in Seq(Bases) /\ bases \in Seq(Images) /\ first \in Seq(Images)
  /\ next \in Nat \ {0} /\ mixed \in BOOLEAN
  /\ workers \in [DOMAIN workers -> Jobs] /\ results \in [DOMAIN results -> Jobs]
  /\ manifest # Nothing => manifest.samples \in Seq(SampleRecords)

(* No base is worked on twice.                                             *)
NoTwins(images) == \A i, j \in DOMAIN images : images[i].of = images[j].of => i = j
BasesAreApart ==
  /\ NoTwins(bases) /\ NoTwins(first)
  /\ \A i, j \in DOMAIN refs : refs[i] = refs[j] => i = j
  /\ \A i \in DOMAIN bases : \A j \in DOMAIN refs : bases[i].of # refs[j]

(* What a worker has come to with base i.                                  *)
IsPart(r, i) ==
  /\ \A k \in DOMAIN r.samples :
       /\ r.samples[k].base = bases[i].of
       /\ r.samples[k].entry = Peering => r.samples[k].peer = PeerOf(i).of
  /\ ~ r.failed =>
       /\ Len(r.samples) = r.entry - 1
       /\ \A k \in DOMAIN r.samples : r.samples[k].entry = Entries[k]

(* A base is with one worker at a time, and with none before its turn.     *)
PoolIsApart ==
  \A w \in DOMAIN workers :
    /\ workers[w].job = 0 => workers[w] = Idle
    /\ workers[w].job # 0 =>
         /\ phase = "working" /\ workers[w].job \in DOMAIN bases /\ workers[w].job < next
         /\ IsPart(workers[w], workers[w].job)
         /\ \A v \in DOMAIN workers : workers[v].job = workers[w].job => v = w
    /\ workers[w].writing => workers[w].entry <= Len(Entries)

ResultsAreParts ==
  /\ DOMAIN results = IF phase = "working" THEN DOMAIN bases ELSE {}
  /\ \A i \in DOMAIN results :
       /\ results[i].job = 0 => results[i] = Idle
       /\ results[i].job # 0 => results[i].entry = Len(Entries) + 1 /\ IsPart(results[i], i)

(* A sample is of the file that is there, and nobody is writing that file. *)
Stands(s) ==
  /\ variants[<<s.base, s.entry>>] = s.sha
  /\ \A w \in DOMAIN workers : workers[w].writing => At(w) # <<s.base, s.entry>>
SamplesStand ==
  /\ manifest # Nothing => \A k \in DOMAIN manifest.samples : Stands(manifest.samples[k])
  /\ \A w \in DOMAIN workers : \A k \in DOMAIN workers[w].samples : Stands(workers[w].samples[k])
  /\ \A i \in DOMAIN results : \A k \in DOMAIN results[i].samples : Stands(results[i].samples[k])

(* b and its neighbour c, in the order of the first run.                   *)
Neighbours(b, c) ==
  \E i \in DOMAIN first : first[i].of = b /\ first[(i % Len(first)) + 1].of = c

(* As long as all runs worked from the same bases.                         *)
OneOrder ==
  ~ mixed =>
    /\ phase = "working" => bases = first /\ first # <<>>
    /\ \A b \in Bases :
         Peering \in EntryNames /\ variants[<<b, Peering>>] # Nothing =>
           Neighbours(b, variants[<<b, Peering>>].from.of)
    /\ manifest # Nothing =>
         /\ first # <<>> /\ manifest.bases = first
         /\ \A k \in DOMAIN manifest.samples :
              manifest.samples[k].entry = Peering =>
                Neighbours(manifest.samples[k].base, manifest.samples[k].peer)

GeneratorInv ==
  /\ GeneratorTyped /\ BasesAreApart /\ PoolIsApart /\ ResultsAreParts /\ SamplesStand
  /\ OneOrder /\ CleanManifestIsComplete

-----------------------------------------------------------------------------
(* Steps that end a run or begin one                                       *)

LEMMA NamesOfEntries ==
  /\ Len(Entries) \in Nat \ {0} /\ DOMAIN Entries = 1..Len(Entries)
  /\ \A e \in 1..Len(Entries) : Entries[e] \in EntryNames
BY EntriesAssumption DEF EntryNames

LEMMA EmptyIsJob == Idle \in Jobs
<1>1. << >> \in Seq(SampleRecords)
  OBVIOUS
<1>2. 1 \in 1..(Len(Entries) + 1)
  BY NamesOfEntries
<1> QED
  BY <1>1, <1>2 DEF Idle, Jobs

(* What a manifest has to say, of the files there are.                     *)
IsTrue(m) ==
  /\ m.samples \in Seq(SampleRecords)
  /\ \A k \in DOMAIN m.samples :
       variants[<<m.samples[k].base, m.samples[k].entry>>] = m.samples[k].sha
  /\ ~ mixed =>
       /\ first # <<>> /\ m.bases = first
       /\ \A k \in DOMAIN m.samples :
            m.samples[k].entry = Peering => Neighbours(m.samples[k].base, m.samples[k].peer)
  /\ m.clean =>
       /\ Len(m.samples) = Len(Entries) * Len(m.bases)
       /\ \A k \in DOMAIN m.samples :
            /\ m.samples[k].base = m.bases[((k - 1) \div Len(Entries)) + 1].of
            /\ m.samples[k].entry = Entries[((k - 1) % Len(Entries)) + 1]

LEMMA ManifestIsTrue == GeneratorInv /\ manifest # Nothing => IsTrue(manifest)
BY DEF GeneratorInv, GeneratorTyped, SamplesStand, Stands, OneOrder, CleanManifestIsComplete, IsTrue

(* The invariant once the process has gone, whatever became of manifest.   *)
LEMMA AfterExit ==
  ASSUME GeneratorInv, Exit, UNCHANGED <<cache, variants, first, mixed>>,
         manifest' # Nothing => IsTrue(manifest')
  PROVE  GeneratorInv'
<1> USE DEF GeneratorInv
<1>1. phase' = "off" /\ refs' = <<>> /\ bases' = <<>> /\ next' = 1 /\ workers' = <<>> /\ results' = <<>>
  BY DEF Exit
<1>2. DOMAIN workers' = {} /\ DOMAIN results' = {} /\ DOMAIN refs' = {} /\ DOMAIN bases' = {}
  BY <1>1
<1>3. GeneratorTyped'
  <2>1. refs' \in Seq(Bases) /\ bases' \in Seq(Images)
    BY <1>1
  <2>2. workers' \in [DOMAIN workers' -> Jobs] /\ results' \in [DOMAIN results' -> Jobs]
    <3>1. workers' = [w \in {} |-> Idle] /\ results' = [w \in {} |-> Idle]
      BY <1>1
    <3> QED
      BY <3>1, <1>2
  <2> QED
    BY <1>1, <2>1, <2>2 DEF GeneratorTyped, IsTrue
<1>4. BasesAreApart'
  BY <1>2 DEF BasesAreApart, NoTwins
<1>5. PoolIsApart' /\ ResultsAreParts'
  BY <1>1, <1>2 DEF PoolIsApart, ResultsAreParts
<1>6. SamplesStand'
  BY <1>2 DEF SamplesStand, Stands, IsTrue
<1>7. \A b, c : Neighbours(b, c)' <=> Neighbours(b, c)
  BY DEF Neighbours
<1>8. OneOrder' /\ CleanManifestIsComplete'
  BY <1>1, <1>7 DEF OneOrder, CleanManifestIsComplete, IsTrue
<1> QED
  BY <1>3, <1>4, <1>5, <1>6, <1>8

LEMMA StartInv == ASSUME GeneratorInv, Start PROVE GeneratorInv'
<1> USE DEF GeneratorInv
<1>1. /\ phase' = "fetching" /\ refs' \in Listings /\ bases' = <<>> /\ next' = 1 /\ results' = <<>>
      /\ UNCHANGED <<cache, variants, manifest, first, mixed>>
  BY DEF Start
<1>2. PICK flag \in WorkerFlags : workers' = [w \in 1..PoolSize(flag) |-> Idle]
  BY DEF Start
<1>3. \A w \in DOMAIN workers' : workers'[w] = Idle
  BY <1>2
<1>4. DOMAIN results' = {} /\ DOMAIN bases' = {}
  BY <1>1
<1>5. GeneratorTyped'
  <2>1. workers' \in [DOMAIN workers' -> Jobs]
    BY <1>2, <1>3, EmptyIsJob
  <2>2. results' \in [DOMAIN results' -> Jobs]
    <3>1. results' = [w \in {} |-> Idle]
      BY <1>1
    <3> QED
      BY <3>1, <1>4
  <2>3. refs' \in Seq(Bases) /\ bases' \in Seq(Images)
    BY <1>1, ListingsAssumption
  <2> QED
    BY <1>1, <2>1, <2>2, <2>3 DEF GeneratorTyped
<1>6. BasesAreApart'
  <2>1. \A i, j \in DOMAIN refs' : refs'[i] = refs'[j] => i = j
    BY <1>1, ListingsAssumption
  <2> QED
    BY <1>1, <1>4, <2>1 DEF BasesAreApart, NoTwins
<1>7. PoolIsApart' /\ ResultsAreParts'
  BY <1>1, <1>3, <1>4 DEF PoolIsApart, ResultsAreParts, Idle
<1>8. SamplesStand'
  <2>1. \A w \in DOMAIN workers' : ~ workers'[w].writing /\ DOMAIN workers'[w].samples = {}
    BY <1>3 DEF Idle
  <2> QED
    BY <1>1, <1>4, <2>1 DEF SamplesStand, Stands
<1>9. OneOrder' /\ CleanManifestIsComplete'
  BY <1>1 DEF OneOrder, CleanManifestIsComplete, Neighbours
<1> QED
  BY <1>5, <1>6, <1>7, <1>8, <1>9

-----------------------------------------------------------------------------
(* Bases                                                                   *)

(* Nobody works while the bases are fetched.                               *)
LEMMA FetchingIsQuiet ==
  ASSUME GeneratorInv, phase = "fetching"
  PROVE  /\ \A w \in DOMAIN workers : workers[w] = Idle
         /\ DOMAIN results = {}
BY DEF GeneratorInv, PoolIsApart, ResultsAreParts

LEMMA FetchBaseInv == ASSUME GeneratorInv, FetchBase PROVE GeneratorInv'
<1> USE DEF GeneratorInv
<1> DEFINE b == Head(refs)
<1>1. /\ phase = "fetching" /\ refs # <<>> /\ refs' = Tail(refs)
      /\ UNCHANGED <<variants, manifest, phase, next, workers, results, first, mixed>>
  BY DEF FetchBase
<1>2. refs \in Seq(Bases) /\ b \in Bases /\ refs' \in Seq(Bases)
  BY <1>1 DEF GeneratorTyped
<1>3. /\ \A i \in DOMAIN refs' : i + 1 \in DOMAIN refs /\ refs'[i] = refs[i + 1] /\ i \in Nat \ {0}
      /\ 1 \in DOMAIN refs /\ refs[1] = b
  BY <1>1, <1>2
<1>4. \/ bases' = bases
      \/ \E x \in Images : x.of = b /\ bases' = Append(bases, x)
  <2>1. \A whole \in BOOLEAN : Fetched(b, whole) \in Images /\ Fetched(b, whole).of = b
    BY <1>2 DEF Fetched, Images
  <2>2. cache[b] # Nothing => cache[b] \in Images /\ cache[b].of = b
    BY <1>2 DEF GeneratorTyped
  <2> HIDE DEF b
  <2>3. \/ bases' = Append(bases, Fetched(b, TRUE))
        \/ cache[b] # Nothing /\ bases' = Append(bases, cache[b])
        \/ bases' = bases
    BY DEF FetchBase, b
  <2> QED
    BY <2>1, <2>2, <2>3
<1>5. /\ cache' \in [Bases -> Images \cup {Nothing}]
      /\ \A c \in Bases : cache'[c] = Nothing \/ cache'[c].of = c
  <2>1. \A whole \in BOOLEAN : Fetched(b, whole) \in Images /\ Fetched(b, whole).of = b
    BY <1>2 DEF Fetched, Images
  <2> HIDE DEF b
  <2>2. cache' = cache \/ \E whole \in BOOLEAN : cache' = [cache EXCEPT ![b] = Fetched(b, whole)]
    BY DEF FetchBase, b
  <2>3. /\ cache \in [Bases -> Images \cup {Nothing}]
        /\ \A c \in Bases : cache[c] = Nothing \/ cache[c].of = c
    BY DEF GeneratorTyped
  <2>4. CASE cache' = cache
    BY <2>3, <2>4
  <2>5. ASSUME NEW whole \in BOOLEAN, cache' = [cache EXCEPT ![b] = Fetched(b, whole)]
        PROVE  /\ cache' \in [Bases -> Images \cup {Nothing}]
               /\ \A c \in Bases : cache'[c] = Nothing \/ cache'[c].of = c
    BY <1>2, <2>1, <2>3, <2>5
  <2> QED
    BY <2>2, <2>4, <2>5
<1> HIDE DEF b
<1>6. bases' \in Seq(Images)
  <2>1. bases \in Seq(Images)
    BY DEF GeneratorTyped
  <2>2. \A x \in Images : Append(bases, x) \in Seq(Images)
    BY <2>1
  <2> QED
    BY <1>4, <2>1, <2>2
<1>7. GeneratorTyped'
  BY <1>1, <1>2, <1>5, <1>6 DEF GeneratorTyped
<1>8. BasesAreApart'
  <2>1. \A i, j \in DOMAIN refs' : refs'[i] = refs'[j] => i = j
    BY <1>3 DEF BasesAreApart
  <2>2. \A j \in DOMAIN refs' : refs'[j] # b
    BY <1>3 DEF BasesAreApart
  <2>3. \A i \in DOMAIN bases : bases[i].of # b /\ \A j \in DOMAIN refs' : bases[i].of # refs'[j]
    BY <1>3 DEF BasesAreApart
  <2>4. CASE bases' = bases
    BY <1>1, <2>1, <2>3, <2>4 DEF BasesAreApart, NoTwins
  <2>5. ASSUME NEW x \in Images, x.of = b, bases' = Append(bases, x)
        PROVE  BasesAreApart'
    <3>1. /\ DOMAIN bases = 1..Len(bases) /\ Len(bases) \in Nat /\ DOMAIN bases' = 1..(Len(bases) + 1)
          /\ \A i \in DOMAIN bases : bases'[i] = bases[i]
          /\ bases'[Len(bases) + 1] = x
      BY <2>5 DEF GeneratorTyped
    <3>2. \A i \in DOMAIN bases' : i \in DOMAIN bases \/ i = Len(bases) + 1
      BY <3>1
    <3>3. NoTwins(bases)
      BY DEF BasesAreApart
    <3>4. NoTwins(bases')
      BY <2>3, <2>5, <3>1, <3>2, <3>3 DEF NoTwins
    <3>5. \A i \in DOMAIN bases' : \A j \in DOMAIN refs' : bases'[i].of # refs'[j]
      BY <2>2, <2>3, <2>5, <3>1, <3>2
    <3> QED
      BY <1>1, <2>1, <3>4, <3>5 DEF BasesAreApart
  <2> QED
    BY <1>4, <2>4, <2>5
<1>9. PoolIsApart' /\ ResultsAreParts'
  BY <1>1, FetchingIsQuiet DEF PoolIsApart, ResultsAreParts, Idle
<1>10. SamplesStand'
  <2>1. \A w \in DOMAIN workers : ~ workers[w].writing /\ DOMAIN workers[w].samples = {}
    BY <1>1, FetchingIsQuiet DEF Idle
  <2> QED
    BY <1>1, <2>1, FetchingIsQuiet DEF SamplesStand, Stands
<1>11. OneOrder' /\ CleanManifestIsComplete'
  BY <1>1 DEF OneOrder, CleanManifestIsComplete, Neighbours
<1> QED
  BY <1>7, <1>8, <1>9, <1>10, <1>11

LEMMA BeginWorkInv == ASSUME GeneratorInv, BeginWork PROVE GeneratorInv'
<1> USE DEF GeneratorInv
<1>1. /\ phase = "fetching" /\ phase' = "working" /\ bases # <<>>
      /\ results' = [i \in DOMAIN bases |-> Idle]
      /\ first' = IF first = <<>> THEN bases ELSE first
      /\ mixed' = (mixed \/ first \notin {<<>>, bases})
      /\ UNCHANGED <<cache, variants, manifest, refs, bases, next, workers>>
  BY DEF BeginWork
<1>2. \A w \in DOMAIN workers : workers[w] = Idle
  BY <1>1, FetchingIsQuiet
<1>3. DOMAIN results' = DOMAIN bases /\ \A i \in DOMAIN bases : results'[i] = Idle
  BY <1>1
<1>4. GeneratorTyped'
  <2>1. results' \in [DOMAIN results' -> Jobs]
    BY <1>1, <1>3, EmptyIsJob
  <2>2. first' \in Seq(Images) /\ mixed' \in BOOLEAN
    BY <1>1 DEF GeneratorTyped
  <2> QED
    BY <1>1, <2>1, <2>2 DEF GeneratorTyped
<1>5. BasesAreApart'
  BY <1>1 DEF BasesAreApart, NoTwins
<1>6. PoolIsApart' /\ ResultsAreParts'
  BY <1>1, <1>2, <1>3 DEF PoolIsApart, ResultsAreParts, Idle
<1>7. SamplesStand'
  <2>1. \A w \in DOMAIN workers : ~ workers[w].writing /\ DOMAIN workers[w].samples = {}
    BY <1>2 DEF Idle
  <2>2. \A i \in DOMAIN results' : DOMAIN results'[i].samples = {}
    BY <1>3 DEF Idle
  <2> QED
    BY <1>1, <2>1, <2>2 DEF SamplesStand, Stands
<1>8. CleanManifestIsComplete'
  BY <1>1 DEF CleanManifestIsComplete
<1>9. OneOrder'
  <2> SUFFICES ASSUME ~ mixed' PROVE OneOrder'
    BY DEF OneOrder
  <2>4. mixed' = (mixed \/ first \notin {<<>>, bases})
    BY <1>1
  <2>5. ~ mixed /\ first \in {<<>>, bases}
    BY <2>4, Zenon
  <2>1. ~ mixed /\ first' = bases /\ (first = <<>> \/ first = bases)
    BY <1>1, <2>5
  <2>2. CASE first = bases
    <3>1. first' = first
      BY <2>1, <2>2
    <3>2. \A b, c : Neighbours(b, c)' <=> Neighbours(b, c)
      BY <3>1 DEF Neighbours
    <3>3. /\ \A b \in Bases :
               Peering \in EntryNames /\ variants[<<b, Peering>>] # Nothing =>
                 Neighbours(b, variants[<<b, Peering>>].from.of)
          /\ manifest # Nothing =>
               /\ first # <<>> /\ manifest.bases = first
               /\ \A k \in DOMAIN manifest.samples :
                    manifest.samples[k].entry = Peering =>
                      Neighbours(manifest.samples[k].base, manifest.samples[k].peer)
      BY <2>1 DEF OneOrder
    <3> QED
      BY <1>1, <2>1, <3>1, <3>2, <3>3 DEF OneOrder
  <2>3. CASE first = <<>>
    <3>1. \A b, c : ~ Neighbours(b, c)
      BY <2>3 DEF Neighbours
    <3> QED
      BY <1>1, <2>1, <2>3, <3>1 DEF OneOrder
  <2> QED
    BY <2>1, <2>2, <2>3
<1> QED
  BY <1>4, <1>5, <1>6, <1>7, <1>8, <1>9

-----------------------------------------------------------------------------
(* Workers                                                                 *)

(* A busy worker, its file, and everybody else's.                          *)
LEMMA BusyWorker ==
  ASSUME GeneratorInv, NEW w \in DOMAIN workers, Busy(w)
  PROVE  /\ phase = "working" /\ workers[w] \in Jobs
         /\ workers[w].job \in DOMAIN bases /\ workers[w].entry \in 1..Len(Entries)
         /\ IsPart(workers[w], workers[w].job)
         /\ At(w) = <<bases[workers[w].job].of, Entries[workers[w].entry]>>
         /\ At(w)[1] \in Bases /\ At(w)[2] \in EntryNames /\ At(w) \in VariantNames
         /\ bases[workers[w].job] \in Images /\ PeerOf(workers[w].job) \in Images
         /\ \A v \in DOMAIN workers : workers[v].writing /\ v # w => At(v)[1] # At(w)[1]
<1> USE DEF GeneratorInv
<1> DEFINE i == workers[w].job
           e == workers[w].entry
<1>1. phase = "working" /\ i # 0 /\ e <= Len(Entries)
  BY DEF Busy
<1>2. workers[w] \in Jobs
  BY DEF GeneratorTyped
<1>3. i \in DOMAIN bases /\ IsPart(workers[w], i)
  BY <1>1 DEF PoolIsApart
<1>4. e \in 1..Len(Entries)
  <2>1. e \in 1..(Len(Entries) + 1)
    BY <1>2 DEF Jobs
  <2> QED
    BY <1>1, <2>1, NamesOfEntries
<1>5. At(w) = <<bases[i].of, Entries[e]>>
  BY DEF At
<1>6. bases \in Seq(Images) /\ DOMAIN bases = 1..Len(bases) /\ Len(bases) \in Nat
  BY DEF GeneratorTyped
<1>7. bases[i] \in Images /\ PeerOf(i) \in Images
  <2>1. bases[i] \in Images
    BY <1>3, <1>6
  <2>2. i \in 1..Len(bases)
    BY <1>3, <1>6
  <2> HIDE DEF i
  <2>3. (i % Len(bases)) + 1 \in 1..Len(bases)
    BY <1>6, <2>2
  <2> QED
    BY <1>6, <2>1, <2>3 DEF PeerOf
<1>8. bases[i].of \in Bases /\ Entries[e] \in EntryNames
  BY <1>4, <1>7, NamesOfEntries DEF Images
<1>9. At(w)[1] = bases[i].of /\ At(w)[2] = Entries[e] /\ At(w) \in VariantNames
  BY <1>5, <1>8 DEF VariantNames
<1>10. ASSUME NEW v \in DOMAIN workers, workers[v].writing, v # w
       PROVE  At(v)[1] # At(w)[1]
  <2>1. workers[v].job # 0
    BY <1>10 DEF PoolIsApart, Idle
  <2>2. workers[v].job \in DOMAIN bases /\ workers[v].job # i
    BY <1>1, <1>10, <2>1 DEF PoolIsApart
  <2>3. At(v)[1] = bases[workers[v].job].of
    BY DEF At
  <2> QED
    BY <1>3, <1>9, <2>2, <2>3 DEF BasesAreApart, NoTwins
<1> QED
  BY <1>1, <1>2, <1>3, <1>4, <1>5, <1>7, <1>8, <1>9, <1>10

LEMMA PeerIsNeighbour ==
  ASSUME GeneratorInv, phase = "working", ~ mixed, NEW i \in DOMAIN bases
  PROVE  Neighbours(bases[i].of, PeerOf(i).of)
BY DEF GeneratorInv, OneOrder, Neighbours, PeerOf

(* What a worker does next leaves its place in the pool as it is.          *)
LEMMA PoolKeeps ==
  ASSUME GeneratorInv, NEW w \in DOMAIN workers, NEW r \in Jobs,
         workers[w].job # 0, r.job = workers[w].job, IsPart(r, r.job),
         r.writing => r.entry <= Len(Entries),
         workers' = [workers EXCEPT ![w] = r], UNCHANGED <<phase, bases, next>>
  PROVE  /\ workers' \in [DOMAIN workers' -> Jobs] /\ PoolIsApart'
         /\ DOMAIN workers' = DOMAIN workers /\ workers'[w] = r
         /\ \A v \in DOMAIN workers : v # w => workers'[v] = workers[v]
<1> USE DEF GeneratorInv
<1>1. workers \in [DOMAIN workers -> Jobs]
  BY DEF GeneratorTyped
<1>2. /\ workers' \in [DOMAIN workers' -> Jobs] /\ DOMAIN workers' = DOMAIN workers
      /\ workers'[w] = r /\ \A v \in DOMAIN workers : v # w => workers'[v] = workers[v]
  BY <1>1
<1>3. \A x, i : IsPart(x, i)' <=> IsPart(x, i)
  BY DEF IsPart, PeerOf
<1>4. \A v \in DOMAIN workers : workers'[v].job = workers[v].job
  BY <1>2
<1>5. ASSUME NEW v \in DOMAIN workers
      PROVE  /\ workers'[v].job = 0 => workers'[v] = Idle
             /\ workers'[v].job # 0 =>
                  /\ phase' = "working" /\ workers'[v].job \in DOMAIN bases' /\ workers'[v].job < next'
                  /\ IsPart(workers'[v], workers'[v].job)
                  /\ \A u \in DOMAIN workers : workers'[u].job = workers'[v].job => u = v
             /\ workers'[v].writing => workers'[v].entry <= Len(Entries)
  <2>1. CASE v = w
    BY <1>2, <1>4, <2>1 DEF PoolIsApart
  <2>2. CASE v # w
    BY <1>2, <1>4, <2>2 DEF PoolIsApart
  <2> QED
    BY <2>1, <2>2
<1>6. PoolIsApart'
  BY <1>2, <1>3, <1>5 DEF PoolIsApart
<1> QED
  BY <1>2, <1>6

(* A sample that stands in the next state.                                 *)
StandsNext(s) ==
  /\ variants'[<<s.base, s.entry>>] = s.sha
  /\ \A w \in DOMAIN workers' :
       workers'[w].writing =>
         <<bases'[workers'[w].job].of, Entries[workers'[w].entry]>> # <<s.base, s.entry>>

LEMMA AllStandNext ==
  ASSUME manifest' # Nothing => \A k \in DOMAIN manifest'.samples : StandsNext(manifest'.samples[k]),
         \A w \in DOMAIN workers' : \A k \in DOMAIN workers'[w].samples :
           StandsNext(workers'[w].samples[k]),
         \A i \in DOMAIN results' : \A k \in DOMAIN results'[i].samples :
           StandsNext(results'[i].samples[k])
  PROVE  SamplesStand'
BY DEF SamplesStand, Stands, StandsNext, At

(* A sample still stands if its file has not changed and the same workers  *)
(* or fewer are writing.                                                   *)
LEMMA StillStands ==
  ASSUME GeneratorInv, NEW w \in DOMAIN workers, NEW s, Stands(s),
         DOMAIN workers' = DOMAIN workers, UNCHANGED bases,
         \A v \in DOMAIN workers : v # w => workers'[v] = workers[v],
         workers'[w].writing => At(w)' # <<s.base, s.entry>>,
         variants'[<<s.base, s.entry>>] = variants[<<s.base, s.entry>>]
  PROVE  StandsNext(s)
BY DEF Stands, StandsNext, At

(* An entry is listed, with the bytes that are in its file from now on.    *)
LEMMA ListingInv ==
  ASSUME GeneratorInv, NEW w \in DOMAIN workers, Busy(w), NEW bytes \in Files,
         Listed(w, bytes), variants' = [variants EXCEPT ![At(w)] = bytes],
         variants[At(w)] = bytes \/ workers[w].writing,
         ~ mixed /\ At(w)[2] = Peering => Neighbours(At(w)[1], bytes.from.of),
         UNCHANGED <<cache, manifest, phase, refs, bases, next, results, runs, first, mixed>>
  PROVE  GeneratorInv'
<1> USE DEF GeneratorInv
<1> DEFINE i == workers[w].job
           e == workers[w].entry
           old == workers[w].samples
           s == Sample(i, At(w)[2], bytes)
           r == [workers[w] EXCEPT !.entry = @ + 1, !.writing = FALSE, !.samples = Append(@, s)]
<1>1. /\ phase = "working" /\ workers[w] \in Jobs /\ i \in DOMAIN bases /\ e \in 1..Len(Entries)
      /\ IsPart(workers[w], i) /\ At(w) = <<bases[i].of, Entries[e]>>
      /\ At(w)[1] \in Bases /\ At(w)[2] \in EntryNames /\ At(w) \in VariantNames
      /\ bases[i] \in Images /\ PeerOf(i) \in Images
      /\ \A v \in DOMAIN workers : workers[v].writing /\ v # w => At(v)[1] # At(w)[1]
  BY BusyWorker
<1>2. workers' = [workers EXCEPT ![w] = r]
  BY DEF Listed
<1>3. /\ s.base = bases[i].of /\ s.entry = Entries[e] /\ s.sha = bytes
      /\ s.entry = Peering => s.peer = PeerOf(i).of
      /\ s \in SampleRecords
  <2>1. s = [base |-> bases[i].of, entry |-> Entries[e], sha |-> bytes,
             peer |-> IF Entries[e] = Peering THEN PeerOf(i).of ELSE Nothing]
    BY <1>1 DEF Sample
  <2>2. bases[i].of \in Bases /\ Entries[e] \in EntryNames /\ PeerOf(i).of \in Bases
    BY <1>1 DEF Images
  <2> HIDE DEF s, i, e
  <2> QED
    BY <2>1, <2>2 DEF SampleRecords
<1> HIDE DEF s
<1>4. old \in Seq(SampleRecords)
  BY <1>1 DEF Jobs
<1>5. /\ Append(old, s) \in Seq(SampleRecords) /\ Len(Append(old, s)) = Len(old) + 1
      /\ DOMAIN Append(old, s) = 1..(Len(old) + 1) /\ DOMAIN old = 1..Len(old) /\ Len(old) \in Nat
      /\ \A k \in DOMAIN old : Append(old, s)[k] = old[k]
      /\ Append(old, s)[Len(old) + 1] = s
  BY <1>3, <1>4
<1>6. /\ r.job = i /\ r.entry = e + 1 /\ r.writing = FALSE /\ r.samples = Append(old, s)
      /\ r.failed = workers[w].failed
  BY <1>1 DEF Jobs
<1>7. r \in Jobs
  <2>1. e + 1 \in 1..(Len(Entries) + 1)
    BY <1>1, NamesOfEntries
  <2> QED
    BY <1>1, <1>5, <2>1 DEF Jobs
<1> HIDE DEF r
<1>8. IsPart(r, i)
  <2>1. \A k \in DOMAIN r.samples : k \in DOMAIN old \/ k = Len(old) + 1
    BY <1>5, <1>6
  <2>2. ASSUME NEW k \in DOMAIN r.samples
        PROVE  /\ r.samples[k].base = bases[i].of
               /\ r.samples[k].entry = Peering => r.samples[k].peer = PeerOf(i).of
    BY <1>1, <1>3, <1>5, <1>6, <2>1 DEF IsPart
  <2>3. ASSUME ~ r.failed
        PROVE  /\ Len(r.samples) = r.entry - 1
               /\ \A k \in DOMAIN r.samples : r.samples[k].entry = Entries[k]
    <3>1. Len(old) = e - 1 /\ \A k \in DOMAIN old : old[k].entry = Entries[k]
      BY <1>1, <1>6, <2>3 DEF IsPart
    <3>2. Len(old) + 1 = e
      BY <3>1, <1>1
    <3> QED
      BY <1>1, <1>3, <1>5, <1>6, <2>1, <3>1, <3>2
  <2> QED
    BY <2>2, <2>3 DEF IsPart
<1>9. workers[w].job # 0
  BY DEF Busy
<1>10. /\ workers' \in [DOMAIN workers' -> Jobs] /\ PoolIsApart'
       /\ DOMAIN workers' = DOMAIN workers /\ workers'[w] = r
       /\ \A v \in DOMAIN workers : v # w => workers'[v] = workers[v]
  <2>1. r.job = workers[w].job /\ IsPart(r, r.job) /\ (r.writing => r.entry <= Len(Entries))
    BY <1>6, <1>8
  <2> QED
    BY <1>2, <1>7, <1>9, <2>1, PoolKeeps
<1>11. variants' \in [VariantNames -> Files \cup {Nothing}] /\ variants'[At(w)] = bytes
  BY <1>1 DEF GeneratorTyped
<1>12. \A p \in VariantNames : p # At(w) => variants'[p] = variants[p]
  BY DEF GeneratorTyped
<1>13. GeneratorTyped'
  BY <1>10, <1>11 DEF GeneratorTyped
<1>14. BasesAreApart'
  BY DEF BasesAreApart, NoTwins
<1>15. ResultsAreParts'
  BY DEF ResultsAreParts, IsPart, PeerOf
<1>16. ASSUME NEW x \in SampleRecords, Stands(x) PROVE StandsNext(x)
  <2>1. variants'[<<x.base, x.entry>>] = variants[<<x.base, x.entry>>]
    <3>1. <<x.base, x.entry>> \in VariantNames
      BY DEF SampleRecords, VariantNames
    <3>2. workers[w].writing => <<x.base, x.entry>> # At(w)
      BY <1>16 DEF Stands
    <3> QED
      BY <1>11, <1>12, <3>1, <3>2
  <2>2. ~ workers'[w].writing
    BY <1>6, <1>10
  <2> QED
    BY <1>10, <1>16, <2>1, <2>2, StillStands
<1>17. StandsNext(s)
  <2>1. <<s.base, s.entry>> = At(w)
    BY <1>1, <1>3
  <2>2. \A v \in DOMAIN workers : v # w => At(v)' = At(v)
    BY <1>10 DEF At
  <2>3. ~ workers'[w].writing
    BY <1>6, <1>10
  <2>4. \A v \in DOMAIN workers : v # w /\ workers'[v].writing => At(v)' # At(w)
    BY <1>1, <1>10, <2>2
  <2> QED
    BY <1>3, <1>10, <1>11, <2>1, <2>3, <2>4 DEF StandsNext, At
<1>18. SamplesStand'
  <2>1. manifest # Nothing => \A k \in DOMAIN manifest.samples : manifest.samples[k] \in SampleRecords
    BY DEF GeneratorTyped
  <2>2. \A j \in DOMAIN results : \A k \in DOMAIN results[j].samples :
          results[j].samples[k] \in SampleRecords
    BY DEF GeneratorTyped, Jobs
  <2>3. \A v \in DOMAIN workers : \A k \in DOMAIN workers[v].samples :
          workers[v].samples[k] \in SampleRecords
    BY DEF GeneratorTyped, Jobs
  <2>4. \A v \in DOMAIN workers' : \A k \in DOMAIN workers'[v].samples :
          StandsNext(workers'[v].samples[k])
    <3> SUFFICES ASSUME NEW v \in DOMAIN workers', NEW k \in DOMAIN workers'[v].samples
                 PROVE  StandsNext(workers'[v].samples[k])
      OBVIOUS
    <3>1. CASE v # w
      BY <1>10, <1>16, <2>3, <3>1 DEF SamplesStand
    <3>2. CASE v = w
      <4>1. k \in DOMAIN old \/ k = Len(old) + 1
        BY <1>5, <1>6, <1>10, <3>2
      <4>2. k \in DOMAIN old => workers'[v].samples[k] = old[k] /\ Stands(old[k]) /\ old[k] \in SampleRecords
        BY <1>5, <1>6, <1>10, <2>3, <3>2 DEF SamplesStand
      <4>3. k = Len(old) + 1 => workers'[v].samples[k] = s
        BY <1>5, <1>6, <1>10, <3>2
      <4> QED
        BY <1>16, <1>17, <4>1, <4>2, <4>3
    <3> QED
      BY <3>1, <3>2
  <2>5. manifest' # Nothing => \A k \in DOMAIN manifest'.samples : StandsNext(manifest'.samples[k])
    BY <1>16, <2>1 DEF SamplesStand
  <2>6. \A j \in DOMAIN results' : \A k \in DOMAIN results'[j].samples : StandsNext(results'[j].samples[k])
    BY <1>16, <2>2 DEF SamplesStand
  <2> QED
    BY <2>4, <2>5, <2>6, AllStandNext
<1>19. OneOrder' /\ CleanManifestIsComplete'
  <2>1. CleanManifestIsComplete'
    BY DEF CleanManifestIsComplete
  <2>2. \A b, c : Neighbours(b, c)' <=> Neighbours(b, c)
    BY DEF Neighbours
  <2>3. ASSUME ~ mixed, NEW b \in Bases, Peering \in EntryNames, variants'[<<b, Peering>>] # Nothing
        PROVE  Neighbours(b, variants'[<<b, Peering>>].from.of)
    <3>1. CASE At(w) = <<b, Peering>>
      BY <1>11, <2>3, <3>1
    <3>2. CASE At(w) # <<b, Peering>>
      <4>1. variants'[<<b, Peering>>] = variants[<<b, Peering>>]
        BY <1>12, <2>3, <3>2 DEF VariantNames
      <4> QED
        BY <2>3, <4>1 DEF OneOrder
    <3> QED
      BY <3>1, <3>2
  <2> QED
    BY <2>1, <2>2, <2>3 DEF OneOrder
<1> QED
  BY <1>10, <1>13, <1>14, <1>15, <1>18, <1>19

(* A step of a worker that lists nothing: its file, if it touches it, was  *)
(* not there yet.                                                          *)
LEMMA UnlistedInv ==
  ASSUME GeneratorInv, NEW w \in DOMAIN workers, Busy(w), NEW r \in Jobs,
         r.job = workers[w].job, r.samples = workers[w].samples, IsPart(r, r.job),
         r.writing => r.entry = workers[w].entry
                        /\ (variants[At(w)] = Nothing \/ workers[w].writing),
         workers' = [workers EXCEPT ![w] = r],
         variants' \in [VariantNames -> Files \cup {Nothing}],
         \A p \in VariantNames : p # At(w) => variants'[p] = variants[p],
         variants' = variants \/ variants[At(w)] = Nothing,
         ~ mixed /\ At(w)[2] = Peering /\ variants'[At(w)] # Nothing =>
           Neighbours(At(w)[1], variants'[At(w)].from.of),
         UNCHANGED <<cache, manifest, phase, refs, bases, next, results, runs, first, mixed>>
  PROVE  GeneratorInv'
<1> USE DEF GeneratorInv
<1>1. /\ workers[w].entry \in 1..Len(Entries)
      /\ At(w) = <<bases[workers[w].job].of, Entries[workers[w].entry]>> /\ At(w) \in VariantNames
  BY BusyWorker
<1>2. workers[w].job # 0
  BY DEF Busy
<1>3. /\ workers' \in [DOMAIN workers' -> Jobs] /\ PoolIsApart'
      /\ DOMAIN workers' = DOMAIN workers /\ workers'[w] = r
      /\ \A v \in DOMAIN workers : v # w => workers'[v] = workers[v]
  <2>1. r.writing => r.entry <= Len(Entries)
    BY <1>1, NamesOfEntries
  <2> QED
    BY <1>2, <2>1, PoolKeeps
<1>4. GeneratorTyped'
  BY <1>3 DEF GeneratorTyped
<1>5. BasesAreApart'
  BY DEF BasesAreApart, NoTwins
<1>6. ResultsAreParts'
  BY DEF ResultsAreParts, IsPart, PeerOf
<1>7. ASSUME NEW x \in SampleRecords, Stands(x) PROVE StandsNext(x)
  <2>1. <<x.base, x.entry>> \in VariantNames /\ x.sha \in Files
    BY DEF SampleRecords, VariantNames
  <2>2. variants[<<x.base, x.entry>>] # Nothing
    BY <1>7, <2>1, NothingAssumption DEF Stands
  <2>3. variants'[<<x.base, x.entry>>] = variants[<<x.base, x.entry>>]
    BY <2>1, <2>2
  <2>4. workers'[w].writing => At(w)' # <<x.base, x.entry>>
    <3> SUFFICES ASSUME r.writing PROVE At(w)' # <<x.base, x.entry>>
      BY <1>3
    <3>1. At(w)' = At(w)
      BY <1>3 DEF At
    <3>2. variants[At(w)] = Nothing \/ workers[w].writing
      OBVIOUS
    <3> QED
      BY <1>7, <2>2, <3>1, <3>2 DEF Stands
  <2> QED
    BY <1>3, <1>7, <2>3, <2>4, StillStands
<1>8. SamplesStand'
  <2>1. manifest # Nothing => \A k \in DOMAIN manifest.samples : manifest.samples[k] \in SampleRecords
    BY DEF GeneratorTyped
  <2>2. \A j \in DOMAIN results : \A k \in DOMAIN results[j].samples :
          results[j].samples[k] \in SampleRecords
    BY DEF GeneratorTyped, Jobs
  <2>3. \A v \in DOMAIN workers : \A k \in DOMAIN workers[v].samples :
          workers[v].samples[k] \in SampleRecords
    BY DEF GeneratorTyped, Jobs
  <2>4. \A v \in DOMAIN workers' : \A k \in DOMAIN workers'[v].samples :
          StandsNext(workers'[v].samples[k])
    BY <1>3, <1>7, <2>3 DEF SamplesStand
  <2>5. manifest' # Nothing => \A k \in DOMAIN manifest'.samples : StandsNext(manifest'.samples[k])
    BY <1>7, <2>1 DEF SamplesStand
  <2>6. \A j \in DOMAIN results' : \A k \in DOMAIN results'[j].samples : StandsNext(results'[j].samples[k])
    BY <1>7, <2>2 DEF SamplesStand
  <2> QED
    BY <2>4, <2>5, <2>6, AllStandNext
<1>9. OneOrder' /\ CleanManifestIsComplete'
  <2>1. CleanManifestIsComplete'
    BY DEF CleanManifestIsComplete
  <2>2. \A b, c : Neighbours(b, c)' <=> Neighbours(b, c)
    BY DEF Neighbours
  <2>3. ASSUME ~ mixed, NEW b \in Bases, Peering \in EntryNames, variants'[<<b, Peering>>] # Nothing
        PROVE  Neighbours(b, variants'[<<b, Peering>>].from.of)
    <3>1. CASE At(w) = <<b, Peering>>
      BY <2>3, <3>1
    <3>2. CASE At(w) # <<b, Peering>>
      <4>1. variants'[<<b, Peering>>] = variants[<<b, Peering>>]
        BY <2>3, <3>2 DEF VariantNames
      <4> QED
        BY <2>3, <4>1 DEF OneOrder
    <3> QED
      BY <3>1, <3>2
  <2> QED
    BY <2>1, <2>2, <2>3 DEF OneOrder
<1> QED
  BY <1>3, <1>4, <1>5, <1>6, <1>8, <1>9

LEMMA MissedInv ==
  ASSUME GeneratorInv, NEW w \in DOMAIN workers, Busy(w), Missed(w),
         UNCHANGED <<cache, variants, manifest, phase, refs, bases, next, results, runs, first, mixed>>
  PROVE  GeneratorInv'
<1> DEFINE r == [workers[w] EXCEPT !.entry = @ + 1, !.writing = FALSE, !.failed = TRUE]
<1>1. /\ phase = "working" /\ workers[w] \in Jobs /\ workers[w].entry \in 1..Len(Entries)
      /\ IsPart(workers[w], workers[w].job) /\ At(w)[1] \in Bases /\ At(w)[2] \in EntryNames
      /\ At(w) = <<bases[workers[w].job].of, Entries[workers[w].entry]>>
  BY BusyWorker
<1>2. workers' = [workers EXCEPT ![w] = r]
  BY DEF Missed
<1>3. /\ r.job = workers[w].job /\ r.samples = workers[w].samples /\ r.entry = workers[w].entry + 1
      /\ r.writing = FALSE /\ r.failed = TRUE
  BY <1>1 DEF Jobs
<1>4. r \in Jobs
  <2>1. workers[w].entry + 1 \in 1..(Len(Entries) + 1)
    BY <1>1, NamesOfEntries
  <2> QED
    BY <1>1, <2>1 DEF Jobs
<1> HIDE DEF r
<1>5. IsPart(r, r.job)
  BY <1>1, <1>3 DEF IsPart
<1>6. variants' \in [VariantNames -> Files \cup {Nothing}]
  BY DEF GeneratorInv, GeneratorTyped
<1>7. ~ mixed /\ At(w)[2] = Peering /\ variants'[At(w)] # Nothing =>
        Neighbours(At(w)[1], variants'[At(w)].from.of)
  <2>1. At(w) = <<At(w)[1], At(w)[2]>>
    BY <1>1
  <2> QED
    BY <1>1, <2>1 DEF GeneratorInv, OneOrder
<1> QED
  BY <1>2, <1>3, <1>4, <1>5, <1>6, <1>7, UnlistedInv

(* What is derived is a file, and a negative control is of the neighbour.  *)
LEMMA DerivedFile ==
  ASSUME GeneratorInv, NEW w \in DOMAIN workers, Busy(w)
  PROVE  /\ Derived(workers[w].job, At(w)[2]) \in Files
         /\ [Derived(workers[w].job, At(w)[2]) EXCEPT !.whole = FALSE] \in Files
         /\ ~ mixed /\ At(w)[2] = Peering =>
              /\ Neighbours(At(w)[1], Derived(workers[w].job, At(w)[2]).from.of)
              /\ Neighbours(At(w)[1], [Derived(workers[w].job, At(w)[2]) EXCEPT !.whole = FALSE].from.of)
<1> DEFINE i == workers[w].job
           name == At(w)[2]
           file == Derived(i, name)
<1>1. /\ phase = "working" /\ i \in DOMAIN bases
      /\ At(w) = <<bases[i].of, Entries[workers[w].entry]>> /\ name \in EntryNames
      /\ bases[i] \in Images /\ PeerOf(i) \in Images
  BY BusyWorker
<1> HIDE DEF i
<1>2. At(w)[1] = bases[i].of
  BY <1>1
<1> HIDE DEF name
<1>3. file = [from |-> IF name = Peering THEN PeerOf(i) ELSE bases[i], by |-> name, whole |-> TRUE]
  BY DEF Derived
<1>4. file \in Files
  BY <1>1, <1>3 DEF Files
<1>5. name = Peering => file.from = PeerOf(i)
  BY <1>3
<1> HIDE DEF file
<1>6. [file EXCEPT !.whole = FALSE] \in Files /\ [file EXCEPT !.whole = FALSE].from = file.from
  BY <1>4 DEF Files
<1>7. ~ mixed => Neighbours(At(w)[1], PeerOf(i).of)
  BY <1>1, <1>2, PeerIsNeighbour
<1>8. ~ mixed /\ name = Peering =>
        /\ Neighbours(At(w)[1], file.from.of)
        /\ Neighbours(At(w)[1], [file EXCEPT !.whole = FALSE].from.of)
  BY <1>5, <1>6, <1>7
<1> QED
  BY <1>4, <1>6, <1>8 DEF file, name, i

LEMMA TakeExistingInv ==
  ASSUME GeneratorInv, NEW w \in DOMAIN workers, TakeExisting(w)
  PROVE  GeneratorInv'
<1>1. /\ Busy(w) /\ variants[At(w)] # Nothing
      /\ UNCHANGED <<cache, variants, manifest, phase, refs, bases, next, results, runs, first, mixed>>
  BY DEF TakeExisting, Reused
<1>2. /\ At(w) \in VariantNames /\ At(w)[1] \in Bases /\ At(w)[2] \in EntryNames
      /\ At(w) = <<bases[workers[w].job].of, Entries[workers[w].entry]>>
  BY <1>1, BusyWorker
<1>3. variants[At(w)] \in Files /\ variants' = [variants EXCEPT ![At(w)] = variants[At(w)]]
  BY <1>1, <1>2 DEF GeneratorInv, GeneratorTyped
<1>4. CASE Listed(w, variants[At(w)])
  <2>1. At(w) = <<At(w)[1], At(w)[2]>>
    BY <1>2
  <2>2. ~ mixed /\ At(w)[2] = Peering => Neighbours(At(w)[1], variants[At(w)].from.of)
    BY <1>1, <1>2, <2>1 DEF GeneratorInv, OneOrder
  <2> QED
    BY <1>1, <1>3, <1>4, <2>2, ListingInv
<1>5. CASE Missed(w)
  BY <1>1, <1>5, MissedInv
<1> QED
  BY <1>4, <1>5 DEF TakeExisting

LEMMA BuildInv ==
  ASSUME GeneratorInv, NEW w \in DOMAIN workers, Build(w)
  PROVE  GeneratorInv'
<1>1. /\ Busy(w) /\ ~ workers[w].writing /\ variants[At(w)] = Nothing
      /\ UNCHANGED <<cache, manifest, phase, refs, bases, next, results, runs, first, mixed>>
  BY DEF Build, Reused
<1>2. CASE Missed(w) /\ UNCHANGED variants
  BY <1>1, <1>2, MissedInv
<1>3. CASE /\ variants' = [variants EXCEPT ![At(w)] =
                             [Derived(workers[w].job, At(w)[2]) EXCEPT !.whole = FALSE]]
           /\ workers' = [workers EXCEPT ![w].writing = TRUE]
  <2> DEFINE r == [workers[w] EXCEPT !.writing = TRUE]
             file == [Derived(workers[w].job, At(w)[2]) EXCEPT !.whole = FALSE]
  <2>1. workers' = [workers EXCEPT ![w] = r] /\ variants' = [variants EXCEPT ![At(w)] = file]
    BY <1>3
  <2>2. /\ workers[w] \in Jobs /\ IsPart(workers[w], workers[w].job) /\ At(w) \in VariantNames
    BY <1>1, BusyWorker
  <2>3. /\ r.job = workers[w].job /\ r.samples = workers[w].samples /\ r.entry = workers[w].entry
        /\ r.failed = workers[w].failed /\ r \in Jobs
    BY <2>2 DEF Jobs
  <2>4. file \in Files /\ (~ mixed /\ At(w)[2] = Peering => Neighbours(At(w)[1], file.from.of))
    BY <1>1, DerivedFile
  <2> HIDE DEF r, file
  <2>5. IsPart(r, r.job)
    BY <2>2, <2>3 DEF IsPart
  <2>6. /\ variants' \in [VariantNames -> Files \cup {Nothing}] /\ variants'[At(w)] = file
        /\ \A p \in VariantNames : p # At(w) => variants'[p] = variants[p]
    BY <2>1, <2>2, <2>4 DEF GeneratorInv, GeneratorTyped
  <2> QED
    BY <1>1, <2>1, <2>3, <2>4, <2>5, <2>6, UnlistedInv
<1> QED
  BY <1>2, <1>3 DEF Build

LEMMA WriteVariantInv ==
  ASSUME GeneratorInv, NEW w \in DOMAIN workers, WriteVariant(w)
  PROVE  GeneratorInv'
<1> DEFINE bytes == Derived(workers[w].job, At(w)[2])
<1>1. /\ Busy(w) /\ workers[w].writing
      /\ UNCHANGED <<cache, manifest, phase, refs, bases, next, results, runs, first, mixed>>
      /\ \/ variants' = [variants EXCEPT ![At(w)] = bytes] /\ Listed(w, bytes)
         \/ Missed(w) /\ UNCHANGED variants
  BY DEF WriteVariant, Unwritten
<1>2. CASE Missed(w) /\ UNCHANGED variants
  BY <1>1, <1>2, MissedInv
<1>3. CASE variants' = [variants EXCEPT ![At(w)] = bytes] /\ Listed(w, bytes)
  <2>1. bytes \in Files /\ (~ mixed /\ At(w)[2] = Peering => Neighbours(At(w)[1], bytes.from.of))
    BY <1>1, DerivedFile
  <2> HIDE DEF bytes
  <2> QED
    BY <1>1, <1>3, <2>1, ListingInv
<1> QED
  BY <1>1, <1>2, <1>3

LEMMA TakeJobInv ==
  ASSUME GeneratorInv, NEW w \in DOMAIN workers, TakeJob(w)
  PROVE  GeneratorInv'
<1> USE DEF GeneratorInv
<1> DEFINE r == [workers[w] EXCEPT !.job = next]
<1>1. /\ phase = "working" /\ workers[w].job = 0 /\ next <= Len(bases)
      /\ workers' = [workers EXCEPT ![w] = r] /\ next' = next + 1
      /\ UNCHANGED <<cache, variants, manifest, phase, refs, bases, results, runs, first, mixed>>
  BY DEF TakeJob
<1>2. workers[w] = Idle
  BY <1>1 DEF PoolIsApart
<1>3. next \in Nat \ {0} /\ bases \in Seq(Images) /\ workers \in [DOMAIN workers -> Jobs]
  BY DEF GeneratorTyped
<1>4. next \in DOMAIN bases
  BY <1>1, <1>3
<1>5. /\ r.job = next /\ r.entry = 1 /\ r.writing = FALSE /\ r.samples = <<>> /\ r.failed = FALSE
      /\ r \in Jobs
  <2>1. r = [Idle EXCEPT !.job = next]
    BY <1>2
  <2>2. Idle.job \in Nat
    BY EmptyIsJob DEF Jobs
  <2> HIDE DEF r
  <2>3. r.job = next /\ r.entry = 1 /\ r.writing = FALSE /\ r.samples = <<>> /\ r.failed = FALSE
    BY <2>1 DEF Idle
  <2>4. r \in Jobs
    BY <1>3, <2>1, EmptyIsJob DEF Jobs
  <2> QED
    BY <2>3, <2>4
<1> HIDE DEF r
<1>6. /\ workers' \in [DOMAIN workers' -> Jobs] /\ DOMAIN workers' = DOMAIN workers /\ workers'[w] = r
      /\ \A v \in DOMAIN workers : v # w => workers'[v] = workers[v]
  BY <1>1, <1>3, <1>5
<1>7. GeneratorTyped'
  BY <1>1, <1>3, <1>6 DEF GeneratorTyped
<1>8. BasesAreApart' /\ ResultsAreParts'
  BY <1>1 DEF BasesAreApart, NoTwins, ResultsAreParts, IsPart, PeerOf
<1>9. IsPart(r, next)
  BY <1>5 DEF IsPart
<1>10. \A x, i : IsPart(x, i)' <=> IsPart(x, i)
  BY <1>1 DEF IsPart, PeerOf
<1>11. \A v \in DOMAIN workers : workers[v].job # 0 => workers[v].job < next
  BY DEF PoolIsApart
<1>12. ASSUME NEW v \in DOMAIN workers
       PROVE  /\ workers'[v].job = 0 => workers'[v] = Idle
              /\ workers'[v].job # 0 =>
                   /\ phase' = "working" /\ workers'[v].job \in DOMAIN bases' /\ workers'[v].job < next'
                   /\ IsPart(workers'[v], workers'[v].job)
                   /\ \A u \in DOMAIN workers : workers'[u].job = workers'[v].job => u = v
              /\ workers'[v].writing => workers'[v].entry <= Len(Entries)
  <2>1. \A u \in DOMAIN workers : workers[u].job # next
    BY <1>3, <1>11
  <2>2. CASE v = w
    BY <1>1, <1>3, <1>4, <1>5, <1>6, <1>9, <2>1, <2>2
  <2>3. CASE v # w
    <3>1. workers'[v] = workers[v]
      BY <1>6, <2>3
    <3>2. workers[v].job # 0 => workers[v].job < next'
      <4>1. workers[v].job \in Nat
        BY <1>3 DEF Jobs
      <4> QED
        BY <1>1, <1>3, <1>11, <4>1
    <3> QED
      BY <1>1, <1>5, <1>6, <2>1, <3>1, <3>2 DEF PoolIsApart
  <2> QED
    BY <2>2, <2>3
<1>13. PoolIsApart'
  BY <1>6, <1>10, <1>12 DEF PoolIsApart
<1>14. SamplesStand'
  <2>1. \A v \in DOMAIN workers' : \A k \in DOMAIN workers'[v].samples :
          v # w /\ workers'[v].samples = workers[v].samples
    BY <1>5, <1>6
  <2>2. \A x : Stands(x) => StandsNext(x)
    BY <1>1, <1>5, <1>6, StillStands
  <2>3. manifest' # Nothing => \A k \in DOMAIN manifest'.samples : StandsNext(manifest'.samples[k])
    BY <1>1, <2>2 DEF SamplesStand
  <2>4. \A v \in DOMAIN workers' : \A k \in DOMAIN workers'[v].samples :
          StandsNext(workers'[v].samples[k])
    BY <1>6, <2>1, <2>2 DEF SamplesStand
  <2>5. \A j \in DOMAIN results' : \A k \in DOMAIN results'[j].samples : StandsNext(results'[j].samples[k])
    BY <1>1, <2>2 DEF SamplesStand
  <2> QED
    BY <2>3, <2>4, <2>5, AllStandNext
<1>15. OneOrder' /\ CleanManifestIsComplete'
  BY <1>1 DEF OneOrder, CleanManifestIsComplete, Neighbours
<1> QED
  BY <1>7, <1>8, <1>13, <1>14, <1>15

LEMMA ReportInv ==
  ASSUME GeneratorInv, NEW w \in DOMAIN workers, Report(w)
  PROVE  GeneratorInv'
<1> USE DEF GeneratorInv
<1> DEFINE i == workers[w].job
<1>1. /\ phase = "working" /\ i # 0 /\ workers[w].entry > Len(Entries)
      /\ results' = [results EXCEPT ![i] = workers[w]]
      /\ workers' = [workers EXCEPT ![w] = Idle]
      /\ UNCHANGED <<cache, variants, manifest, phase, refs, bases, next, runs, first, mixed>>
  BY DEF Report, Filed
<1>2. workers \in [DOMAIN workers -> Jobs] /\ results \in [DOMAIN results -> Jobs]
  BY DEF GeneratorTyped
<1>3. i \in DOMAIN bases /\ IsPart(workers[w], i) /\ i \in DOMAIN results
  BY <1>1 DEF PoolIsApart, ResultsAreParts
<1>4. /\ workers' \in [DOMAIN workers' -> Jobs] /\ DOMAIN workers' = DOMAIN workers
      /\ workers'[w] = Idle
      /\ \A v \in DOMAIN workers : v # w => workers'[v] = workers[v]
  BY <1>1, <1>2, EmptyIsJob
<1>5. workers[w].entry = Len(Entries) + 1
  <2>1. workers[w].entry \in 1..(Len(Entries) + 1)
    BY <1>2 DEF Jobs
  <2> QED
    BY <1>1, <2>1, NamesOfEntries
<1> HIDE DEF i
<1>6. /\ results' \in [DOMAIN results' -> Jobs] /\ DOMAIN results' = DOMAIN results
      /\ results'[i] = workers[w] /\ \A j \in DOMAIN results : j # i => results'[j] = results[j]
  BY <1>1, <1>2, <1>3
<1>7. GeneratorTyped'
  BY <1>1, <1>4, <1>6 DEF GeneratorTyped
<1>8. BasesAreApart'
  BY <1>1 DEF BasesAreApart, NoTwins
<1>9. \A x, j : IsPart(x, j)' <=> IsPart(x, j)
  BY <1>1 DEF IsPart, PeerOf
<1>10. PoolIsApart'
  <2>1. ASSUME NEW v \in DOMAIN workers'
        PROVE  /\ workers'[v].job = 0 => workers'[v] = Idle
               /\ workers'[v].job # 0 =>
                    /\ phase' = "working" /\ workers'[v].job \in DOMAIN bases' /\ workers'[v].job < next'
                    /\ IsPart(workers'[v], workers'[v].job)
                    /\ \A u \in DOMAIN workers' : workers'[u].job = workers'[v].job => u = v
               /\ workers'[v].writing => workers'[v].entry <= Len(Entries)
    <3>1. CASE v = w
      BY <1>4, <3>1 DEF Idle
    <3>2. CASE v # w
      <4>1. workers'[v] = workers[v] /\ workers'[w].job = 0
        BY <1>4, <2>1, <3>2 DEF Idle
      <4> QED
        BY <1>1, <1>4, <2>1, <3>2, <4>1 DEF PoolIsApart
    <3> QED
      BY <3>1, <3>2
  <2> QED
    BY <1>9, <2>1 DEF PoolIsApart
<1>11. ResultsAreParts'
  <2>1. ASSUME NEW j \in DOMAIN results'
        PROVE  /\ results'[j].job = 0 => results'[j] = Idle
               /\ results'[j].job # 0 => results'[j].entry = Len(Entries) + 1 /\ IsPart(results'[j], j)
    <3>1. CASE j = i
      BY <1>1, <1>3, <1>5, <1>6, <3>1 DEF i
    <3>2. CASE j # i
      BY <1>6, <2>1, <3>2 DEF ResultsAreParts
    <3> QED
      BY <3>1, <3>2
  <2> QED
    BY <1>1, <1>6, <1>9, <2>1 DEF ResultsAreParts
<1>12. SamplesStand'
  <2>1. ~ workers'[w].writing /\ DOMAIN workers'[w].samples = {}
    BY <1>4 DEF Idle
  <2>2. \A x : Stands(x) => StandsNext(x)
    BY <1>1, <1>4, <2>1, StillStands
  <2>3. manifest' # Nothing => \A k \in DOMAIN manifest'.samples : StandsNext(manifest'.samples[k])
    BY <1>1, <2>2 DEF SamplesStand
  <2>4. \A v \in DOMAIN workers' : \A k \in DOMAIN workers'[v].samples :
          StandsNext(workers'[v].samples[k])
    BY <1>4, <2>1, <2>2 DEF SamplesStand
  <2>5. \A j \in DOMAIN results' : \A k \in DOMAIN results'[j].samples : StandsNext(results'[j].samples[k])
    BY <1>6, <2>2 DEF SamplesStand
  <2> QED
    BY <2>3, <2>4, <2>5, AllStandNext
<1>13. OneOrder' /\ CleanManifestIsComplete'
  BY <1>1 DEF OneOrder, CleanManifestIsComplete, Neighbours
<1> QED
  BY <1>7, <1>8, <1>10, <1>11, <1>12, <1>13

-----------------------------------------------------------------------------
(* The manifest                                                            *)

(* The samples of the first n bases.                                       *)
JoinSteps(g, parts, n) ==
  g = [i \in 0..n |-> IF i = 0 THEN <<>> ELSE g[i - 1] \o parts[i].samples]

LEMMA JoinExists ==
  ASSUME NEW parts, NEW n \in Nat
  PROVE  \E g : JoinSteps(g, parts, n)
<1> DEFINE T == {m \in Nat : \E g : JoinSteps(g, parts, m)}
<1>1. 0 \in T
  <2> DEFINE g == [k \in 0..0 |-> <<>>]
  <2>1. JoinSteps(g, parts, 0)
    BY DEF JoinSteps
  <2> QED
    BY <2>1
<1>2. ASSUME NEW m \in T PROVE m + 1 \in T
  <2>1. PICK g : JoinSteps(g, parts, m)
    OBVIOUS
  <2> DEFINE h == [k \in 0..(m + 1) |-> IF k = m + 1 THEN g[m] \o parts[m + 1].samples ELSE g[k]]
  <2>2. /\ h[m + 1] = g[m] \o parts[m + 1].samples
        /\ \A k \in 0..m : h[k] = g[k]
    OBVIOUS
  <2>3. m \in 0..m /\ m + 1 # 0 /\ (m + 1) - 1 = m
    OBVIOUS
  <2>4. \A k \in 0..m : g[k] = IF k = 0 THEN <<>> ELSE g[k - 1] \o parts[k].samples
    BY <2>1 DEF JoinSteps
  <2>5. \A k \in 1..m : k - 1 \in 0..m
    OBVIOUS
  <2>6. h = [k \in 0..(m + 1) |-> h[k]]
    OBVIOUS
  <2> HIDE DEF h
  <2>7. ASSUME NEW k \in 0..(m + 1)
        PROVE  h[k] = IF k = 0 THEN <<>> ELSE h[k - 1] \o parts[k].samples
    <3>1. CASE k = m + 1
      BY <2>2, <2>3, <3>1
    <3>2. CASE k = 0
      BY <2>2, <2>4, <3>2
    <3>3. CASE k \in 1..m
      BY <2>2, <2>4, <2>5, <3>3
    <3> QED
      BY <3>1, <3>2, <3>3
  <2>8. JoinSteps(h, parts, m + 1)
    BY <2>6, <2>7 DEF JoinSteps
  <2> QED
    BY <2>8
<1> HIDE DEF T
<1>3. T \subseteq Nat
  BY DEF T
<1>4. \A m \in T : m + 1 \in T
  BY <1>2
<1>5. T = Nat
  BY <1>1, <1>3, <1>4, SetInduction
<1> QED
  BY <1>5 DEF T

(* What is joined was in a part.                                           *)
JoinedFrom(s, parts, t) ==
  \A k \in DOMAIN s : \E i \in 1..t : \E j \in DOMAIN parts[i].samples : s[k] = parts[i].samples[j]

(* Where each part has m samples: which of them stands where.              *)
EvenParts(parts, t, m) == \A i \in 1..t : Len(parts[i].samples) = m
JoinedEvenly(s, parts, t, m) ==
  /\ Len(s) = m * t
  /\ \A k \in DOMAIN s :
       \E i \in 1..t : \E j \in 1..m :
         /\ (k - 1) \div m = i - 1 /\ (k - 1) % m = j - 1
         /\ s[k] = parts[i].samples[j]

LEMMA QuotientFixed ==
  ASSUME NEW m \in Nat \ {0}, NEW q \in Nat, NEW r \in 0..(m - 1)
  PROVE  (m * q + r) \div m = q /\ (m * q + r) % m = r
OBVIOUS

LEMMA Joining ==
  ASSUME NEW S, NEW a \in Seq(S), NEW b \in Seq(S)
  PROVE  /\ a \o b \in Seq(S) /\ DOMAIN a = 1..Len(a) /\ DOMAIN b = 1..Len(b)
         /\ Len(a) \in Nat /\ Len(b) \in Nat /\ Len(a \o b) = Len(a) + Len(b)
         /\ \A k \in DOMAIN (a \o b) :
              \/ k \in DOMAIN a /\ (a \o b)[k] = a[k]
              \/ /\ k \in Nat /\ k - Len(a) \in DOMAIN b
                 /\ (a \o b)[k] = b[k - Len(a)]
<1>1. a \o b \in Seq(S) /\ Len(a \o b) = Len(a) + Len(b) /\ Len(a) \in Nat /\ Len(b) \in Nat
  OBVIOUS
<1>2. DOMAIN a = 1..Len(a) /\ DOMAIN b = 1..Len(b) /\ DOMAIN (a \o b) = 1..(Len(a) + Len(b))
  OBVIOUS
<1>3. \A k \in 1..(Len(a) + Len(b)) : (a \o b)[k] = IF k <= Len(a) THEN a[k] ELSE b[k - Len(a)]
  OBVIOUS
<1>4. \A k \in 1..(Len(a) + Len(b)) : k \in 1..Len(a) \/ (k \in Nat /\ ~ (k <= Len(a)) /\ k - Len(a) \in 1..Len(b))
  BY <1>1
<1>5. \A k \in 1..Len(a) : k <= Len(a)
  BY <1>1
<1> QED
  BY <1>1, <1>2, <1>3, <1>4, <1>5

LEMMA JoinedParts ==
  ASSUME NEW parts, NEW n \in Nat, NEW g, JoinSteps(g, parts, n), NEW S,
         \A i \in 1..n : parts[i].samples \in Seq(S)
  PROVE  /\ g[n] \in Seq(S) /\ JoinedFrom(g[n], parts, n)
         /\ \A m \in Nat \ {0} : EvenParts(parts, n, m) => JoinedEvenly(g[n], parts, n, m)
<1> DEFINE T == {t \in Nat : t <= n =>
                  /\ g[t] \in Seq(S) /\ JoinedFrom(g[t], parts, t)
                  /\ \A m \in Nat \ {0} : EvenParts(parts, t, m) => JoinedEvenly(g[t], parts, t, m)}
<1>1. 0 \in T
  <2>1. g[0] = << >>
    BY DEF JoinSteps
  <2>2. g[0] \in Seq(S) /\ DOMAIN g[0] = {} /\ Len(g[0]) = 0
    BY <2>1
  <2>3. \A m \in Nat \ {0} : m * 0 = 0
    OBVIOUS
  <2> QED
    BY <2>2, <2>3 DEF JoinedFrom, JoinedEvenly
<1>2. ASSUME NEW t \in T, t + 1 <= n
      PROVE  /\ g[t + 1] \in Seq(S) /\ JoinedFrom(g[t + 1], parts, t + 1)
             /\ \A m \in Nat \ {0} : EvenParts(parts, t + 1, m) => JoinedEvenly(g[t + 1], parts, t + 1, m)
  <2>1. t \in Nat /\ t <= n
    BY <1>2
  <2>2. /\ g[t] \in Seq(S) /\ JoinedFrom(g[t], parts, t)
        /\ \A m \in Nat \ {0} : EvenParts(parts, t, m) => JoinedEvenly(g[t], parts, t, m)
    BY <2>1
  <2> HIDE DEF T
  <2>3. t + 1 \in 1..n /\ t + 1 \in 1..(t + 1) /\ \A i \in 1..t : i \in 1..(t + 1)
    BY <1>2, <2>1
  <2> DEFINE a == g[t]
             b == parts[t + 1].samples
  <2>4. a \in Seq(S) /\ b \in Seq(S)
    BY <2>2, <2>3
  <2>5. g[t + 1] = a \o b
    <3>1. t + 1 \in 0..n /\ t + 1 # 0 /\ (t + 1) - 1 = t
      BY <1>2, <2>1
    <3> QED
      BY <3>1 DEF JoinSteps
  <2>6. parts[t + 1].samples = b
    OBVIOUS
  <2>7. JoinedFrom(a, parts, t) /\ \A m \in Nat \ {0} : EvenParts(parts, t, m) => JoinedEvenly(a, parts, t, m)
    BY <2>2
  <2> HIDE DEF a, b
  <2>8. JoinedFrom(a \o b, parts, t + 1)
    <3> SUFFICES ASSUME NEW k \in DOMAIN (a \o b)
                 PROVE  \E i \in 1..(t + 1) : \E j \in DOMAIN parts[i].samples :
                          (a \o b)[k] = parts[i].samples[j]
      BY DEF JoinedFrom
    <3>1. CASE k \in DOMAIN a /\ (a \o b)[k] = a[k]
      BY <2>3, <2>7, <3>1 DEF JoinedFrom
    <3>2. CASE k - Len(a) \in DOMAIN b /\ (a \o b)[k] = b[k - Len(a)]
      BY <2>3, <2>6, <3>2
    <3> QED
      BY <2>4, <3>1, <3>2, Joining
  <2>9. ASSUME NEW m \in Nat \ {0}, EvenParts(parts, t + 1, m)
        PROVE  JoinedEvenly(a \o b, parts, t + 1, m)
    <3>1. EvenParts(parts, t, m) /\ Len(b) = m
      BY <2>3, <2>6, <2>9 DEF EvenParts
    <3>2. JoinedEvenly(a, parts, t, m)
      BY <2>7, <3>1
    <3>3. Len(a) = m * t
      BY <3>2 DEF JoinedEvenly
    <3>4. Len(a \o b) = m * (t + 1)
      <4>1. Len(a \o b) = Len(a) + Len(b)
        BY <2>4, Joining
      <4>2. m * t + m = m * (t + 1)
        BY <2>1
      <4> QED
        BY <3>1, <3>3, <4>1, <4>2
    <3>5. ASSUME NEW k \in DOMAIN (a \o b)
          PROVE  \E i \in 1..(t + 1) : \E j \in 1..m :
                   /\ (k - 1) \div m = i - 1 /\ (k - 1) % m = j - 1
                   /\ (a \o b)[k] = parts[i].samples[j]
      <4>1. CASE k \in DOMAIN a /\ (a \o b)[k] = a[k]
        <5>1. PICK i \in 1..t : \E j \in 1..m :
                /\ (k - 1) \div m = i - 1 /\ (k - 1) % m = j - 1
                /\ a[k] = parts[i].samples[j]
          BY <3>2, <4>1 DEF JoinedEvenly
        <5>2. i \in 1..(t + 1)
          BY <2>3
        <5> QED
          BY <4>1, <5>1, <5>2
      <4>2. CASE k \in Nat /\ k - Len(a) \in DOMAIN b /\ (a \o b)[k] = b[k - Len(a)]
        <5> DEFINE j == k - Len(a)
        <5>1. j \in 1..m /\ (a \o b)[k] = parts[t + 1].samples[j]
          BY <2>4, <2>6, <3>1, <4>2, Joining
        <5>2. k - 1 = m * t + (j - 1)
          <6>1. Len(a) \in Nat /\ k \in Nat
            BY <2>4, <4>2, Joining
          <6>2. k - 1 = Len(a) + (k - Len(a) - 1)
            BY <6>1
          <6> QED
            BY <3>3, <6>2
        <5> HIDE DEF j
        <5>3. j - 1 \in 0..(m - 1)
          BY <5>1
        <5>4. (k - 1) \div m = t /\ (k - 1) % m = j - 1
          BY <2>1, <5>2, <5>3, QuotientFixed
        <5>5. (t + 1) - 1 = t
          BY <2>1
        <5> QED
          BY <2>3, <5>1, <5>4, <5>5
      <4>3. \/ k \in DOMAIN a /\ (a \o b)[k] = a[k]
            \/ k \in Nat /\ k - Len(a) \in DOMAIN b /\ (a \o b)[k] = b[k - Len(a)]
        BY <2>4, Joining
      <4> QED
        BY <4>1, <4>2, <4>3
    <3> QED
      BY <3>4, <3>5 DEF JoinedEvenly
  <2> QED
    BY <2>4, <2>5, <2>8, <2>9, Joining
<1>3. T \subseteq Nat /\ \A t \in T : t + 1 \in T
  <2>1. T \subseteq Nat
    OBVIOUS
  <2>2. ASSUME NEW t \in T PROVE t + 1 \in T
    BY <1>2, <2>1
  <2> QED
    BY <2>1, <2>2
<1>4. n \in T => /\ g[n] \in Seq(S) /\ JoinedFrom(g[n], parts, n)
                 /\ \A m \in Nat \ {0} : EvenParts(parts, n, m) => JoinedEvenly(g[n], parts, n, m)
  OBVIOUS
<1> HIDE DEF T
<1>5. T = Nat
  BY <1>1, <1>3, SetInduction
<1> QED
  BY <1>4, <1>5

(* What a run writes down.                                                 *)
LEMMA SamplesAreJoined ==
  ASSUME GeneratorInv
  PROVE  \E g : JoinSteps(g, results, Len(bases)) /\ Samples = g[Len(bases)]
<1> DEFINE G == CHOOSE g : JoinSteps(g, results, Len(bases))
<1>1. Len(bases) \in Nat
  BY DEF GeneratorInv, GeneratorTyped
<1>2. \E g : JoinSteps(g, results, Len(bases))
  BY <1>1, JoinExists
<1>3. JoinSteps(G, results, Len(bases))
  BY <1>2
<1>4. Samples = G[Len(bases)]
  BY DEF Samples, JoinSteps
<1> QED
  BY <1>3, <1>4

LEMMA WrittenIsTrue ==
  ASSUME GeneratorInv, phase = "working", AllIn, NEW clean,
         clean <=> \A i \in DOMAIN results : ~ results[i].failed
  PROVE  IsTrue([bases |-> bases, samples |-> Samples, clean |-> clean])
<1> USE DEF GeneratorInv
<1> DEFINE n == Len(bases)
           s == Samples
           m == Len(Entries)
<1>1. /\ n \in Nat /\ DOMAIN bases = 1..n /\ DOMAIN results = 1..n /\ m \in Nat \ {0}
      /\ results \in [DOMAIN results -> Jobs]
  BY NamesOfEntries DEF GeneratorTyped, ResultsAreParts
<1>2. PICK g : JoinSteps(g, results, n) /\ s = g[n]
  BY SamplesAreJoined
<1>3. \A i \in 1..n : results[i].samples \in Seq(SampleRecords)
  BY <1>1 DEF Jobs
<1>4. \A i \in 1..n : results[i].entry = m + 1 /\ IsPart(results[i], i)
  BY <1>1 DEF AllIn, ResultsAreParts
<1> HIDE DEF n, s, m
<1>5. /\ s \in Seq(SampleRecords) /\ JoinedFrom(s, results, n)
      /\ EvenParts(results, n, m) => JoinedEvenly(s, results, n, m)
  <2>1. /\ g[n] \in Seq(SampleRecords) /\ JoinedFrom(g[n], results, n)
        /\ \A q \in Nat \ {0} : EvenParts(results, n, q) => JoinedEvenly(g[n], results, n, q)
    BY <1>1, <1>2, <1>3, JoinedParts
  <2>2. EvenParts(results, n, m) => JoinedEvenly(g[n], results, n, m)
    BY <1>1, <2>1
  <2>3. s = g[n]
    BY <1>2
  <2> QED
    BY <2>1, <2>2, <2>3, Zenon
<1>6. ASSUME NEW k \in DOMAIN s PROVE variants[<<s[k].base, s[k].entry>>] = s[k].sha
  <2>1. PICK i \in 1..n : \E j \in DOMAIN results[i].samples : s[k] = results[i].samples[j]
    BY <1>5 DEF JoinedFrom
  <2>2. PICK j \in DOMAIN results[i].samples : s[k] = results[i].samples[j]
    BY <2>1
  <2>3. Stands(results[i].samples[j])
    BY <1>1 DEF SamplesStand
  <2> QED
    BY <2>2, <2>3 DEF Stands
<1>7. ASSUME NEW k \in DOMAIN s, ~ mixed, s[k].entry = Peering
      PROVE  Neighbours(s[k].base, s[k].peer)
  <2>1. PICK i \in 1..n : \E j \in DOMAIN results[i].samples : s[k] = results[i].samples[j]
    BY <1>5 DEF JoinedFrom
  <2>2. s[k].base = bases[i].of /\ s[k].peer = PeerOf(i).of
    BY <1>4, <1>7, <2>1 DEF IsPart
  <2> QED
    BY <1>1, <1>7, <2>2, PeerIsNeighbour
<1>8. ~ mixed => first # <<>> /\ bases = first
  BY DEF OneOrder
<1>9. ASSUME \A i \in DOMAIN results : ~ results[i].failed
      PROVE  /\ Len(s) = m * n
             /\ \A k \in DOMAIN s :
                  /\ s[k].base = bases[((k - 1) \div m) + 1].of
                  /\ s[k].entry = Entries[((k - 1) % m) + 1]
  <2>1. \A i \in 1..n : /\ Len(results[i].samples) = m
                        /\ \A j \in DOMAIN results[i].samples : results[i].samples[j].entry = Entries[j]
                        /\ \A j \in DOMAIN results[i].samples : results[i].samples[j].base = bases[i].of
    <3>1. (m + 1) - 1 = m
      BY <1>1
    <3> QED
      BY <1>1, <1>4, <1>9, <3>1 DEF IsPart
  <2>2. JoinedEvenly(s, results, n, m)
    BY <1>5, <2>1 DEF EvenParts
  <2>3. ASSUME NEW k \in DOMAIN s
        PROVE  /\ s[k].base = bases[((k - 1) \div m) + 1].of
               /\ s[k].entry = Entries[((k - 1) % m) + 1]
    <3>1. PICK i \in 1..n, j \in 1..m : /\ (k - 1) \div m = i - 1 /\ (k - 1) % m = j - 1
                                        /\ s[k] = results[i].samples[j]
      BY <2>2 DEF JoinedEvenly
    <3>2. ((k - 1) \div m) + 1 = i /\ ((k - 1) % m) + 1 = j
      <4>1. (i - 1) + 1 = i /\ (j - 1) + 1 = j
        BY <1>1
      <4> QED
        BY <3>1, <4>1
    <3>3. j \in DOMAIN results[i].samples
      BY <1>1, <1>3, <2>1
    <3> QED
      BY <2>1, <3>1, <3>2, <3>3
  <2> QED
    BY <2>2, <2>3 DEF JoinedEvenly
<1> DEFINE written == [bases |-> bases, samples |-> s, clean |-> clean]
<1>10. written.bases = bases /\ written.samples = s /\ written.clean = clean
  OBVIOUS
<1> HIDE DEF written
<1>11. IsTrue(written)
  BY <1>5, <1>6, <1>7, <1>8, <1>9, <1>10 DEF IsTrue, m, n
<1> QED
  BY <1>11 DEF written, s

LEMMA WriteManifestInv == ASSUME GeneratorInv, WriteManifest PROVE GeneratorInv'
<1> DEFINE clean == \A i \in DOMAIN results : ~ results[i].failed
<1>1. phase = "working" /\ AllIn /\ Exit /\ UNCHANGED <<cache, variants, first, mixed>>
  BY DEF WriteManifest
<1>2. CASE manifest' = [bases |-> bases, samples |-> Samples, clean |-> clean]
  <2>1. IsTrue([bases |-> bases, samples |-> Samples, clean |-> clean])
    BY <1>1, WrittenIsTrue
  <2> QED
    BY <1>1, <1>2, <2>1, AfterExit
<1>3. CASE manifest' \in {manifest, Nothing}
  BY <1>1, <1>3, ManifestIsTrue, AfterExit
<1> QED
  BY <1>2, <1>3 DEF WriteManifest

-----------------------------------------------------------------------------
(* The invariant, and the three properties                                 *)

LEMMA GeneratorInvInit == GeneratorInit => GeneratorInv
<1> SUFFICES ASSUME GeneratorInit PROVE GeneratorInv
  OBVIOUS
<1>1. /\ cache = [b \in Bases |-> Nothing] /\ variants = [p \in VariantNames |-> Nothing]
      /\ manifest = Nothing /\ phase = "off" /\ refs = <<>> /\ bases = <<>> /\ next = 1
      /\ workers = <<>> /\ results = <<>> /\ first = <<>> /\ mixed = FALSE
  BY DEF GeneratorInit, VariantNames
<1>2. DOMAIN workers = {} /\ DOMAIN results = {} /\ DOMAIN refs = {} /\ DOMAIN bases = {} /\ DOMAIN first = {}
  BY <1>1
<1>3. workers \in [DOMAIN workers -> Jobs] /\ results \in [DOMAIN results -> Jobs]
  <2>1. workers = [w \in {} |-> Idle] /\ results = [w \in {} |-> Idle]
    BY <1>1
  <2> QED
    BY <2>1, <1>2
<1>4. GeneratorTyped
  <2>1. refs \in Seq(Bases) /\ bases \in Seq(Images) /\ first \in Seq(Images)
    BY <1>1
  <2>2. cache \in [Bases -> Images \cup {Nothing}] /\ \A b \in Bases : cache[b] = Nothing
    BY <1>1
  <2>3. variants \in [VariantNames -> Files \cup {Nothing}]
    BY <1>1
  <2>4. next \in Nat \ {0} /\ mixed \in BOOLEAN /\ manifest = Nothing
    <3>1. mixed = FALSE /\ manifest = Nothing
      BY <1>1, Zenon
    <3>2. mixed \in BOOLEAN
      BY <3>1, Zenon
    <3>3. next \in Nat \ {0}
      BY <1>1
    <3> QED
      BY <3>1, <3>2, <3>3, Zenon
  <2>5. \A b \in Bases : cache[b] = Nothing \/ cache[b].of = b
    BY <2>2
  <2> QED
    BY <1>3, <2>1, <2>2, <2>3, <2>4, <2>5, Zenon DEF GeneratorTyped
<1>5. BasesAreApart /\ PoolIsApart /\ ResultsAreParts /\ SamplesStand
  BY <1>1, <1>2 DEF BasesAreApart, NoTwins, PoolIsApart, ResultsAreParts, SamplesStand
<1>6. OneOrder /\ CleanManifestIsComplete
  BY <1>1 DEF OneOrder, CleanManifestIsComplete, VariantNames
<1> QED
  BY <1>4, <1>5, <1>6 DEF GeneratorInv

LEMMA GeneratorInvNext == GeneratorInv /\ [GeneratorNext]_generatorVars => GeneratorInv'
<1> SUFFICES ASSUME GeneratorInv, [GeneratorNext]_generatorVars PROVE GeneratorInv'
  OBVIOUS
<1>1. CASE Start
  BY <1>1, StartInv
<1>2. CASE FetchBase
  BY <1>2, FetchBaseInv
<1>3. CASE NoBases \/ Kill
  <2>1. Exit /\ UNCHANGED <<cache, variants, manifest, first, mixed>>
    BY <1>3 DEF NoBases, Kill
  <2> QED
    BY <2>1, ManifestIsTrue, AfterExit
<1>4. CASE BeginWork
  BY <1>4, BeginWorkInv
<1>5. CASE WriteManifest
  BY <1>5, WriteManifestInv
<1>6. ASSUME NEW w \in DOMAIN workers, Working(w) PROVE GeneratorInv'
  BY <1>6, TakeJobInv, TakeExistingInv, BuildInv, WriteVariantInv, ReportInv DEF Working
<1>7. CASE UNCHANGED generatorVars
  <2>1. UNCHANGED <<cache, variants, manifest, phase, refs, bases, next, workers, results, first, mixed>>
    BY <1>7 DEF generatorVars
  <2>2. GeneratorTyped' /\ BasesAreApart'
    BY <2>1 DEF GeneratorInv, GeneratorTyped, BasesAreApart, NoTwins
  <2>3. PoolIsApart' /\ ResultsAreParts'
    BY <2>1 DEF GeneratorInv, PoolIsApart, ResultsAreParts, IsPart, PeerOf
  <2>4. SamplesStand'
    BY <2>1 DEF GeneratorInv, SamplesStand, Stands, At
  <2>5. OneOrder' /\ CleanManifestIsComplete'
    BY <2>1 DEF GeneratorInv, OneOrder, CleanManifestIsComplete, Neighbours
  <2> QED
    BY <2>2, <2>3, <2>4, <2>5 DEF GeneratorInv
<1> QED
  BY <1>1, <1>2, <1>3, <1>4, <1>5, <1>6, <1>7 DEF GeneratorNext

LEMMA NegativesAreNamed == GeneratorInv => NegativesNameTheirPeer
<1> SUFFICES ASSUME GeneratorInv, manifest # Nothing, ~ mixed,
                    NEW k \in DOMAIN manifest.samples, manifest.samples[k].entry = Peering
             PROVE  LET s == manifest.samples[k] IN
                    /\ s.sha.from.of = s.peer
                    /\ Len(manifest.bases) > 1 => s.peer # s.base
  BY DEF NegativesNameTheirPeer
<1> USE DEF GeneratorInv
<1> DEFINE s == manifest.samples[k]
<1>1. s.entry \in EntryNames /\ s.base \in Bases /\ s.sha \in Files
  <2>1. s \in SampleRecords
    BY DEF GeneratorTyped
  <2> QED
    BY <2>1 DEF SampleRecords
<1>2. variants[<<s.base, Peering>>] = s.sha
  BY DEF SamplesStand, Stands
<1>3. Neighbours(s.base, s.sha.from.of)
  BY <1>1, <1>2, NothingAssumption DEF OneOrder
<1>4. Neighbours(s.base, s.peer) /\ manifest.bases = first
  BY DEF OneOrder
<1> HIDE DEF s
<1>5. PICK i \in DOMAIN first : first[i].of = s.base /\ first[(i % Len(first)) + 1].of = s.sha.from.of
  BY <1>3 DEF Neighbours
<1>6. PICK j \in DOMAIN first : first[j].of = s.base /\ first[(j % Len(first)) + 1].of = s.peer
  BY <1>4 DEF Neighbours
<1>7. i = j
  BY <1>5, <1>6 DEF BasesAreApart, NoTwins
<1>8. s.sha.from.of = s.peer
  BY <1>5, <1>6, <1>7
<1>9. ASSUME Len(first) > 1 PROVE s.peer # s.base
  <2> DEFINE n == Len(first)
             c == (i % n) + 1
  <2>1. n \in Nat /\ n > 1 /\ DOMAIN first = 1..n /\ i \in 1..n
    BY <1>9 DEF GeneratorTyped
  <2> HIDE DEF n
  <2>2. c \in 1..n /\ c # i
    <3>1. CASE i = n
      <4>1. i % n = 0
        BY <2>1, <3>1
      <4> QED
        BY <2>1, <3>1, <4>1
    <3>2. CASE i # n
      <4>1. i \in 0..(n - 1)
        BY <2>1, <3>2
      <4>2. i % n = i
        BY <2>1, <4>1
      <4> QED
        BY <2>1, <3>2, <4>2
    <3> QED
      BY <3>1, <3>2
  <2>3. first[c].of = s.peer
    BY <1>6, <1>7 DEF n
  <2> HIDE DEF c
  <2> QED
    BY <1>5, <2>1, <2>2, <2>3 DEF BasesAreApart, NoTwins
<1> QED
  BY <1>4, <1>8, <1>9 DEF s

LEMMA GeneratorInvSafe == GeneratorInv => GeneratorSafety
<1> SUFFICES ASSUME GeneratorInv PROVE GeneratorSafety
  OBVIOUS
<1>1. ManifestDescribesFiles
  BY DEF GeneratorInv, SamplesStand, Stands, ManifestDescribesFiles
<1>2. CleanManifestIsComplete
  BY DEF GeneratorInv
<1> QED
  BY <1>1, <1>2, NegativesAreNamed DEF GeneratorSafety

(***************************************************************************)
(* cmd/datasetgen: however its runs are killed, resume or run out of disk, *)
(* a manifest is true of the files it names, one that reports no error is  *)
(* complete and in the order of the bases, and where all runs worked from  *)
(* the same bases a negative control holds the peer the manifest names.    *)
(***************************************************************************)
THEOREM GeneratorIsSafe == GeneratorSpec => []GeneratorSafety
<1>1. GeneratorSpec => []GeneratorInv
  BY GeneratorInvInit, GeneratorInvNext, PTL DEF GeneratorSpec
<1> QED
  BY <1>1, GeneratorInvSafe, PTL

-----------------------------------------------------------------------------
(* Verification: the inductive invariant, what holds of every request      *)

(* While it runs, its histories bracket the table.                         *)
HistoriesBracket(c) == Pending(c) => kept[c] \subseteq live /\ live \subseteq seen[c]

(* Past the look-up: the upload can be searched for, and no row that has   *)
(* been there all along is of this very file.                              *)
OnlyLooksAreLeft(c) ==
  pc[c] \in {"probe", "fetch", "match"} =>
    /\ asked[c].kind # "hash" /\ asked[c].hashes # {}
    /\ \A i \in kept[c] : certs[i].content # asked[c].content

CollidesWith(u, a) == \E g \in u.hashes, h \in a.hash : Collide(g, h)

(* The ids in hand hold every row that has stayed and shares a band.       *)
IdsAreComplete(c) ==
  pc[c] = "fetch" => \A i \in kept[c] : CollidesWith(asked[c], certs[i]) => i \in ids[c]

(* What is compared was in the table, and is of the right kind.            *)
RowsAreOfKind(c) ==
  \A k \in DOMAIN rows[c] : rows[c][k] \in seen[c] /\ certs[rows[c][k]].kind = asked[c].kind

(* What is owed to the request is still to be compared.                    *)
Owed(c, i) == i \in kept[c] \ lapsed[c] /\ MustFind(asked[c], i, seen[c])

RowsAreComplete(c) ==
  pc[c] = "match" => \A i \in DOMAIN certs : Owed(c, i) => \E k \in DOMAIN rows[c] : rows[c][k] = i

AnswerExisted(c) ==
  outcome[c] = "match" => answer[c] \in seen[c] /\ Vouches(asked[c], certs[answer[c]])

NoneIsMissed(c) == outcome[c] = "no_match" => \A i \in DOMAIN certs : ~ Owed(c, i)

RequestInv(c) ==
  /\ HistoriesBracket(c) /\ OnlyLooksAreLeft(c)
  /\ IdsAreComplete(c) /\ RowsAreOfKind(c) /\ RowsAreComplete(c)
  /\ AnswerExisted(c) /\ NoneIsMissed(c)

SearchInv == TypeOK /\ \A c \in Clients : RequestInv(c)

-----------------------------------------------------------------------------
(* Hashes and bands.                                                       *)

(* The least of some naturals is one of them.                              *)
LEMMA LeastOf ==
  ASSUME NEW S, S \subseteq Nat, S # {}
  PROVE  Min(S) \in S /\ \A n \in S : Min(S) <= n
<1>1. PICK x \in S : \A y \in S : ~ (<<y, x>> \in OpToRel(<, Nat))
  BY NatLessThanWellFounded, WFMin
<1>2. \A y \in S : ~ (y < x)
  BY <1>1 DEF OpToRel
<1>3. \A y \in S : x <= y
  BY <1>2
<1> QED
  BY <1>3 DEF Min

LEMMA HammingType ==
  ASSUME NEW g \in SUBSET Bits, NEW h \in SUBSET Bits
  PROVE  /\ IsFiniteSet((g \ h) \cup (h \ g))
         /\ Hamming(g, h) \in Nat
<1>1. IsFiniteSet((g \ h) \cup (h \ g))
  BY BandsAssumption, FS_Subset
<1> QED
  BY <1>1, FS_CardinalityType DEF Hamming

(***************************************************************************)
(* What the index of bands rests on: two hashes that differ in fewer bits  *)
(* than there are bands agree on a whole band.  Otherwise every band would *)
(* hold a bit they differ in, and no two bands share one.                  *)
(***************************************************************************)
THEOREM NearHashesCollide ==
  ASSUME NEW g \in SUBSET Bits, NEW h \in SUBSET Bits, Hamming(g, h) < Cardinality(Bands)
  PROVE  Collide(g, h)
<1> SUFFICES ASSUME ~ Collide(g, h) PROVE FALSE
  OBVIOUS
<1> DEFINE differ == (g \ h) \cup (h \ g)
           f == [b \in Bands |-> CHOOSE x \in differ : x \in b]
<1>1. ASSUME NEW b \in Bands PROVE \E x \in differ : x \in b
  BY DEF Collide
<1>2. \A b \in Bands : f[b] \in differ /\ f[b] \in b
  BY <1>1
<1>3. f \in [Bands -> differ]
  BY <1>2
<1>4. IsFiniteSet(differ) /\ IsFiniteSet(Bands) /\ Cardinality(differ) < Cardinality(Bands)
  BY HammingType, BandsAssumption DEF Hamming
<1> HIDE DEF f, differ
<1>5. PICK b, c \in Bands : b # c /\ f[b] = f[c]
  BY <1>3, <1>4, FS_PigeonHole
<1> QED
  BY <1>2, <1>5, BandsAssumption

(* What is looked for, and what it is compared with.                       *)
IsSearch(u) == u.hashes \in SUBSET SUBSET Bits /\ u.hashes # {}
IsIndexed(a) == a.hash \in SUBSET SUBSET Bits /\ a.hash # {}

(* The distance is that of a variant and the row's hash.                   *)
LEMMA DistanceOfPair ==
  ASSUME NEW u, NEW a, IsSearch(u), IsIndexed(a)
  PROVE  /\ Distance(u, a) \in Nat
         /\ \E g \in u.hashes, h \in a.hash : Distance(u, a) = Hamming(g, h)
<1> DEFINE S == {Hamming(g, h) : g \in u.hashes, h \in a.hash}
<1>1. ASSUME NEW g \in u.hashes, NEW h \in a.hash PROVE Hamming(g, h) \in Nat
  BY HammingType DEF IsSearch, IsIndexed
<1>2. S \subseteq Nat /\ S # {}
  BY <1>1 DEF IsSearch, IsIndexed
<1>3. Min(S) \in S
  <2> HIDE DEF S
  <2> QED
    BY <1>2, LeastOf
<1>4. Distance(u, a) = Min(S)
  BY DEF Distance
<1>5. \A n \in S : \E g \in u.hashes, h \in a.hash : n = Hamming(g, h)
  OBVIOUS
<1> HIDE DEF S
<1> QED
  BY <1>2, <1>3, <1>4, <1>5

LEMMA NearRowsCollide ==
  ASSUME NEW u, NEW a, IsSearch(u), IsIndexed(a), Distance(u, a) < Cardinality(Bands)
  PROVE  CollidesWith(u, a)
<1>1. PICK g \in u.hashes, h \in a.hash : Distance(u, a) = Hamming(g, h)
  BY DistanceOfPair
<1>2. Collide(g, h)
  BY <1>1, NearHashesCollide DEF IsSearch, IsIndexed
<1> QED
  BY <1>2 DEF CollidesWith

-----------------------------------------------------------------------------
(* Truncation.                                                             *)

(* A list of n without repetition, out of a finite set.                    *)
LEMMA ListOf ==
  ASSUME NEW S, IsFiniteSet(S), NEW n \in Nat, NEW s \in [1..n -> S], IsInjective(s)
  PROVE  /\ IsFiniteSet({s[k] : k \in 1..n}) /\ Cardinality({s[k] : k \in 1..n}) = n
         /\ n = Cardinality(S) => \A x \in S : \E k \in 1..n : s[k] = x
<1> DEFINE T == {s[k] : k \in 1..n}
<1>1. s \in Surjection(1..n, T) /\ s \in Injection(1..n, T)
  BY DEF Surjection, Injection, IsInjective
<1>2. IsFiniteSet(1..n) /\ Cardinality(1..n) = n
  BY FS_Interval
<1>3. IsFiniteSet(T) /\ Cardinality(T) = n
  BY <1>1, <1>2, FS_Surjection
<1>4. T \in SUBSET S
  OBVIOUS
<1>5. n = Cardinality(S) => S = T
  BY <1>3, <1>4, FS_Subset
<1> QED
  BY <1>3, <1>5

(***************************************************************************)
(* A hit that is left out by the truncation has TopK others that are at    *)
(* least as near.                                                          *)
(***************************************************************************)
LEMMA LeftOutIsCrowdedOut ==
  ASSUME NEW u, NEW hits, IsFiniteSet(hits), TopK[u.kind] \in Nat,
         NEW s \in TopOf(u, hits), NEW x \in hits, \A k \in DOMAIN s : s[k] # x
  PROVE  \E T \in SUBSET (hits \ {x}) :
           /\ Cardinality(T) = TopK[u.kind]
           /\ \A y \in T : Distance(u, certs[y]) <= Distance(u, certs[x])
<1> DEFINE n == Min({Cardinality(hits), TopK[u.kind]})
           T == {s[k] : k \in 1..n}
<1>1. Cardinality(hits) \in Nat
  BY FS_CardinalityType
<1>2. n \in {Cardinality(hits), TopK[u.kind]}
  BY <1>1, LeastOf
<1>3. n \in Nat
  BY <1>1, <1>2
<1>4. /\ s \in [1..n -> hits] /\ IsInjective(s)
      /\ \A k \in DOMAIN s, y \in hits \ {s[j] : j \in DOMAIN s} :
           Distance(u, certs[s[k]]) <= Distance(u, certs[y])
  BY DEF TopOf
<1> HIDE DEF n
<1>5. DOMAIN s = 1..n
  BY <1>4
<1>6. x \notin {s[j] : j \in DOMAIN s}
  OBVIOUS
<1>7. Cardinality(T) = n /\ n # Cardinality(hits)
  BY <1>3, <1>4, <1>5, <1>6, ListOf
<1>8. n = TopK[u.kind]
  BY <1>2, <1>7
<1>9. \A y \in T : Distance(u, certs[y]) <= Distance(u, certs[x])
  BY <1>4, <1>5, <1>6
<1>10. T \in SUBSET (hits \ {x})
  BY <1>4, <1>5, <1>6
<1> QED
  BY <1>7, <1>8, <1>9, <1>10

-----------------------------------------------------------------------------
(* What the table keeps.                                                   *)

Rivals(u, i, present) ==
  {j \in present \ {i} : /\ certs[j].kind = u.kind /\ certs[j].hash # {}
                         /\ Distance(u, certs[j]) <= Distance(u, certs[i])}

(* What is owed by name, or by sight.                                      *)
LEMMA OwedBySight ==
  ASSUME NEW u, NEW i, NEW present
  PROVE  MustFind(u, i, present) <=>
           \/ certs[i].content = u.content
           \/ /\ certs[i].kind = u.kind /\ u.features /\ u.hashes # {} /\ certs[i].hash # {}
              /\ Distance(u, certs[i]) < Cardinality(Bands)
              /\ Distance(u, certs[i]) <= MaxPHashDistance
              /\ PassesGates(u, certs[i]) /\ Similar(u, certs[i])
              /\ Cardinality(Rivals(u, i, present)) < TopK[u.kind]
BY DEF MustFind, Rivals

(* Rows are only ever added.                                               *)
RowsStay == \A j \in DOMAIN certs : j \in DOMAIN certs' /\ certs'[j] = certs[j]

(***************************************************************************)
(* Whatever joins the table, or is seen besides, can only bring rivals: it *)
(* never makes a row owed that was not.                                    *)
(***************************************************************************)
LEMMA NothingNewIsOwed ==
  ASSUME RowsStay, certs \in Seq(Assets), NEW u, NEW i \in DOMAIN certs,
         NEW S, NEW T, S \subseteq DOMAIN certs, S \subseteq T, IsFiniteSet(T),
         MustFind(u, i, T)'
  PROVE  MustFind(u, i, S)
<1>1. certs'[i] = certs[i]
  BY DEF RowsStay
<1>2. Rivals(u, i, S) \subseteq Rivals(u, i, T)'
  BY <1>1 DEF Rivals, RowsStay
<1>3. IsFiniteSet(Rivals(u, i, T)')
  <2>1. Rivals(u, i, T)' \in SUBSET T
    BY DEF Rivals
  <2> QED
    BY <2>1, FS_Subset
<1>4. /\ Cardinality(Rivals(u, i, S)) <= Cardinality(Rivals(u, i, T)')
      /\ Cardinality(Rivals(u, i, S)) \in Nat /\ Cardinality(Rivals(u, i, T)') \in Nat
  BY <1>2, <1>3, FS_Subset, FS_CardinalityType
<1>5. ASSUME Cardinality(Rivals(u, i, T)') < TopK[u.kind], u.kind \in {"image", "video"}
      PROVE  Cardinality(Rivals(u, i, S)) < TopK[u.kind]
  BY <1>4, <1>5, TopKAssumption
<1>6. MustFind(u, i, T)' <=>
        \/ certs'[i].content = u.content
        \/ /\ certs'[i].kind = u.kind /\ u.features /\ u.hashes # {} /\ certs'[i].hash # {}
           /\ Distance(u, certs'[i]) < Cardinality(Bands)
           /\ Distance(u, certs'[i]) <= MaxPHashDistance
           /\ PassesGates(u, certs'[i]) /\ Similar(u, certs'[i])
           /\ Cardinality(Rivals(u, i, T)') < TopK[u.kind]
  BY DEF MustFind, Rivals
<1>7. certs[i].kind \in {"image", "video"}
  BY AssetsAssumption
<1> QED
  BY <1>1, <1>5, <1>6, <1>7, OwedBySight

-----------------------------------------------------------------------------
(* Requests that a step is not about.                                      *)

(* A step of another client.                                               *)
LEMMA RequestStands ==
  ASSUME NEW c, RequestInv(c), UNCHANGED table,
         pc'[c] = pc[c], asked'[c] = asked[c], ids'[c] = ids[c], rows'[c] = rows[c],
         outcome'[c] = outcome[c], answer'[c] = answer[c],
         seen'[c] = seen[c], kept'[c] = kept[c], lapsed'[c] = lapsed[c]
  PROVE  RequestInv(c)'
<1>1. certs' = certs /\ live' = live
  BY DEF table
<1>2. \A i : Owed(c, i)' <=> Owed(c, i)
  BY <1>1 DEF Owed, MustFind
<1>3. CollidesWith(asked[c], certs[1])' <=> CollidesWith(asked[c], certs[1])
  BY <1>1 DEF CollidesWith
<1>4. /\ HistoriesBracket(c)' /\ OnlyLooksAreLeft(c)' /\ RowsAreOfKind(c)'
  BY <1>1 DEF RequestInv, HistoriesBracket, OnlyLooksAreLeft, RowsAreOfKind, Pending
<1>5. IdsAreComplete(c)'
  BY <1>1 DEF RequestInv, IdsAreComplete, CollidesWith
<1>6. RowsAreComplete(c)' /\ NoneIsMissed(c)'
  BY <1>1, <1>2 DEF RequestInv, RowsAreComplete, NoneIsMissed
<1>7. AnswerExisted(c)'
  BY <1>1 DEF RequestInv, AnswerExisted, Vouches
<1> QED
  BY <1>4, <1>5, <1>6, <1>7 DEF RequestInv

(* The table changes under a request.                                      *)
LEMMA TableMoves ==
  ASSUME SearchInv, NEW c \in Clients, RowsStay,
         UNCHANGED <<pc, asked, ids, rows, outcome, answer, lapsed>>,
         kept'[c] \subseteq kept[c], seen[c] \subseteq seen'[c], IsFiniteSet(seen'[c]),
         Pending(c) => kept'[c] \subseteq live' /\ live' \subseteq seen'[c]
  PROVE  RequestInv(c)'
<1>1. /\ RequestInv(c) /\ certs \in Seq(Assets) /\ kept[c] \subseteq DOMAIN certs
      /\ seen[c] \subseteq DOMAIN certs /\ rows[c] \in Seq(DOMAIN certs)
      /\ asked[c] = asked'[c]
  BY DEF SearchInv, TypeOK
<1>2. ASSUME NEW i, Owed(c, i)' PROVE i \in DOMAIN certs /\ Owed(c, i)
  <2>1. i \in kept[c] \ lapsed[c] /\ i \in DOMAIN certs /\ MustFind(asked[c], i, seen[c])'
    BY <1>1, <1>2 DEF Owed
  <2>2. MustFind(asked[c], i, seen[c])
    BY <1>1, <2>1, NothingNewIsOwed
  <2> QED
    BY <2>1, <2>2 DEF Owed
<1>3. \A i \in kept[c] : i \in DOMAIN certs /\ certs'[i] = certs[i]
  BY <1>1 DEF RowsStay
<1>4. HistoriesBracket(c)'
  BY DEF HistoriesBracket, Pending
<1>5. OnlyLooksAreLeft(c)'
  BY <1>1, <1>3 DEF RequestInv, OnlyLooksAreLeft
<1>6. IdsAreComplete(c)'
  BY <1>1, <1>3 DEF RequestInv, IdsAreComplete, CollidesWith
<1>7. RowsAreOfKind(c)'
  BY <1>1 DEF RequestInv, RowsAreOfKind, RowsStay
<1>8. RowsAreComplete(c)' /\ NoneIsMissed(c)'
  BY <1>1, <1>2 DEF RequestInv, RowsAreComplete, NoneIsMissed
<1>9. AnswerExisted(c)'
  <2>1. outcome[c] = "match" => answer[c] \in DOMAIN certs
    BY <1>1 DEF RequestInv, AnswerExisted
  <2> QED
    BY <1>1, <2>1 DEF RequestInv, AnswerExisted, RowsStay, Vouches
<1> QED
  BY <1>4, <1>5, <1>6, <1>7, <1>8, <1>9 DEF RequestInv

LEMMA RowsAreFinite ==
  ASSUME TypeOK, NEW S, S \subseteq DOMAIN certs
  PROVE  IsFiniteSet(S)
<1>1. DOMAIN certs = 1..Len(certs) /\ Len(certs) \in Nat
  BY DEF TypeOK
<1>2. IsFiniteSet(1..Len(certs))
  BY <1>1, FS_Interval
<1> QED
  BY <1>1, <1>2, FS_Subset

LEMMA SaveKeepsInv ==
  ASSUME SearchInv, NEW a \in Assets, Save(a)
  PROVE  SearchInv'
<1> DEFINE new == Len(certs) + 1
<1>1. /\ certs \in Seq(Assets) /\ live \subseteq DOMAIN certs
      /\ \A i, j \in live : certs[i].content = certs[j].content => i = j
      /\ \A i \in live : certs[i].content # a.content
  BY DEF SearchInv, TypeOK, Save, Stored
<1>2. certs' = Append(certs, a) /\ live' = live \cup {new}
  BY DEF Save
<1>3. /\ certs' \in Seq(Assets) /\ DOMAIN certs' = DOMAIN certs \cup {new}
      /\ new \notin DOMAIN certs /\ certs'[new] = a
      /\ \A i \in DOMAIN certs : certs'[i] = certs[i]
  BY <1>1, <1>2
<1>4. RowsStay
  BY <1>3 DEF RowsStay
<1>5. TypeOK'
  <2>1. certs' \in Seq(Assets) /\ live' \subseteq DOMAIN certs'
    BY <1>1, <1>2, <1>3
  <2>2. seen' \in [Clients -> SUBSET DOMAIN certs']
    BY <1>3 DEF SearchInv, TypeOK, Save
  <2>3. \A i, j \in live' : certs'[i].content = certs'[j].content => i = j
    BY <1>1, <1>2, <1>3
  <2>4. rows \in [Clients -> Seq(DOMAIN certs')]
    <3>1. rows \in [Clients -> Seq(DOMAIN certs)]
      BY DEF SearchInv, TypeOK
    <3> QED
      BY <1>3, <3>1
  <2> QED
    BY <1>3, <2>1, <2>2, <2>3, <2>4 DEF SearchInv, TypeOK, Save
<1>6. ASSUME NEW c \in Clients PROVE RequestInv(c)'
  <2>1. seen'[c] = IF Pending(c) THEN seen[c] \cup {new} ELSE seen[c]
    BY DEF Save
  <2>2. seen'[c] \subseteq DOMAIN certs'
    BY <1>5 DEF TypeOK
  <2>3. IsFiniteSet(seen'[c])
    <3>1. DOMAIN certs' = 1..Len(certs') /\ Len(certs') \in Nat
      BY <1>3
    <3>2. IsFiniteSet(1..Len(certs'))
      BY <3>1, FS_Interval
    <3> QED
      BY <2>2, <3>1, <3>2, FS_Subset
  <2>4. Pending(c) => kept[c] \subseteq live /\ live \subseteq seen[c]
    BY DEF SearchInv, RequestInv, HistoriesBracket
  <2>5. UNCHANGED <<pc, asked, ids, rows, outcome, answer, lapsed, kept>>
    BY DEF Save
  <2> QED
    BY <1>2, <1>4, <2>1, <2>3, <2>4, <2>5, TableMoves
<1> QED
  BY <1>5, <1>6 DEF SearchInv

LEMMA DeleteKeepsInv ==
  ASSUME SearchInv, NEW i \in live, Delete(i)
  PROVE  SearchInv'
<1>1. /\ live' = live \ {i} /\ kept' = [c \in Clients |-> kept[c] \ {i}]
      /\ UNCHANGED <<certs, pc, asked, ids, rows, outcome, answer, seen, lapsed>>
  BY DEF Delete
<1>2. TypeOK'
  BY <1>1 DEF SearchInv, TypeOK
<1>3. ASSUME NEW c \in Clients PROVE RequestInv(c)'
  <2>1. kept'[c] = kept[c] \ {i}
    BY <1>1
  <2>2. Pending(c) => kept[c] \subseteq live /\ live \subseteq seen[c]
    BY DEF SearchInv, RequestInv, HistoriesBracket
  <2>3. IsFiniteSet(seen'[c])
    BY <1>1, RowsAreFinite DEF SearchInv, TypeOK
  <2>4. RowsStay
    BY <1>1 DEF RowsStay
  <2>5. Pending(c) => kept'[c] \subseteq live' /\ live' \subseteq seen'[c]
    <3>1. CASE Pending(c)
      <4>1. i \notin kept'[c]
        BY <2>1
      <4> QED
        BY <1>1, <2>1, <2>2, <4>1
    <3> QED
      BY <3>1
  <2> QED
    BY <1>1, <2>1, <2>3, <2>4, <2>5, TableMoves
<1> QED
  BY <1>2, <1>3 DEF SearchInv

-----------------------------------------------------------------------------
(* The steps of a request.                                                 *)

(* Nothing of another client's, nor of the table, is touched.              *)
OnlyOf(q) ==
  /\ UNCHANGED table
  /\ \A c \in Clients : c # q =>
       /\ pc'[c] = pc[c] /\ asked'[c] = asked[c] /\ ids'[c] = ids[c] /\ rows'[c] = rows[c]
       /\ outcome'[c] = outcome[c] /\ answer'[c] = answer[c]
       /\ seen'[c] = seen[c] /\ kept'[c] = kept[c] /\ lapsed'[c] = lapsed[c]

LEMMA OthersStand ==
  ASSUME SearchInv, NEW q \in Clients, OnlyOf(q), TypeOK', RequestInv(q)'
  PROVE  SearchInv'
BY RequestStands DEF SearchInv, OnlyOf

(* An answer ends the request; it is typed, and it may be given whenever   *)
(* it is true.                                                             *)
LEMMA AnswerTyped ==
  ASSUME SearchInv, NEW q \in Clients, NEW how \in {"match", "no_match", "error"},
         NEW i \in {0} \cup DOMAIN certs, Answer(q, how, i),
         UNCHANGED <<table, asked, seen, kept>>, lapsed' \in [Clients -> SUBSET DOMAIN certs]
  PROVE  TypeOK'
<1>1. /\ certs' = certs /\ live' = live /\ asked' = asked /\ seen' = seen /\ kept' = kept
      /\ pc' = [pc EXCEPT ![q] = "answered"] /\ outcome' = [outcome EXCEPT ![q] = how]
      /\ answer' = [answer EXCEPT ![q] = i]
      /\ ids' = [ids EXCEPT ![q] = {}] /\ rows' = [rows EXCEPT ![q] = <<>>]
  BY DEF table, Answer
<1>2. rows' \in [Clients -> Seq(DOMAIN certs)]
  <2>1. <<>> \in Seq(DOMAIN certs)
    OBVIOUS
  <2> QED
    BY <1>1, <2>1 DEF SearchInv, TypeOK
<1>3. \A c \in Clients : /\ pc'[c] = "answered" <=> outcome'[c] # "none"
                         /\ ids'[c] # {} => pc'[c] = "fetch"
                         /\ rows'[c] # <<>> => pc'[c] = "match"
  <2>1. \A c \in Clients : c # q => /\ pc'[c] = pc[c] /\ outcome'[c] = outcome[c]
                                    /\ ids'[c] = ids[c] /\ rows'[c] = rows[c]
    BY <1>1 DEF SearchInv, TypeOK
  <2>2. pc'[q] = "answered" /\ outcome'[q] = how /\ ids'[q] = {} /\ rows'[q] = <<>>
    BY <1>1 DEF SearchInv, TypeOK
  <2> QED
    BY <2>1, <2>2 DEF SearchInv, TypeOK
<1> QED
  BY <1>1, <1>2, <1>3 DEF SearchInv, TypeOK

LEMMA AnswerKeepsInv ==
  ASSUME SearchInv, NEW q \in Clients, NEW how \in {"match", "no_match", "error"},
         NEW i \in {0} \cup DOMAIN certs, Answer(q, how, i),
         UNCHANGED <<table, asked, history>>,
         how = "match" => i \in seen[q] /\ Vouches(asked[q], certs[i]),
         how = "no_match" => \A j \in DOMAIN certs : ~ Owed(q, j)
  PROVE  SearchInv'
<1>1. certs' = certs /\ live' = live /\ asked' = asked
      /\ seen' = seen /\ kept' = kept /\ lapsed' = lapsed
  BY DEF table, history
<1>2. TypeOK'
  BY <1>1, AnswerTyped DEF SearchInv, TypeOK
<1>3. /\ pc'[q] = "answered" /\ outcome'[q] = how /\ answer'[q] = i
      /\ ids'[q] = {} /\ rows'[q] = <<>>
  BY DEF Answer, SearchInv, TypeOK
<1>4. OnlyOf(q)
  BY <1>1 DEF OnlyOf, Answer, table, SearchInv, TypeOK
<1>5. \A j : Owed(q, j)' <=> Owed(q, j)
  BY <1>1 DEF Owed, MustFind
<1>6. RequestInv(q)'
  <2>1. HistoriesBracket(q)' /\ OnlyLooksAreLeft(q)' /\ IdsAreComplete(q)' /\ RowsAreOfKind(q)'
    BY <1>3 DEF HistoriesBracket, OnlyLooksAreLeft, IdsAreComplete, RowsAreOfKind, Pending
  <2>2. RowsAreComplete(q)' /\ NoneIsMissed(q)'
    BY <1>1, <1>3, <1>5 DEF RowsAreComplete, NoneIsMissed
  <2>3. AnswerExisted(q)'
    BY <1>1, <1>3 DEF AnswerExisted, Vouches
  <2> QED
    BY <2>1, <2>2, <2>3 DEF RequestInv
<1> QED
  BY <1>2, <1>4, <1>6, OthersStand

LEMMA AskKeepsInv ==
  ASSUME SearchInv, NEW q \in Clients, NEW u \in Uploads, Ask(q, u)
  PROVE  SearchInv'
<1>1. certs' = certs /\ live' = live /\ ids' = ids /\ rows' = rows
  BY DEF Ask, table
<1>2. TypeOK'
  BY <1>1 DEF SearchInv, TypeOK, Ask, Pending
<1>3. /\ pc'[q] \in {"lookup", "answered"} /\ outcome'[q] \in {"none", "error"}
      /\ seen'[q] = live /\ kept'[q] = live /\ rows'[q] = rows[q] /\ rows[q] = <<>>
  BY <1>1 DEF Ask, SearchInv, TypeOK, Pending
<1>4. OnlyOf(q)
  BY <1>1 DEF OnlyOf, Ask, SearchInv, TypeOK
<1>5. RequestInv(q)'
  BY <1>1, <1>3 DEF RequestInv, HistoriesBracket, OnlyLooksAreLeft, IdsAreComplete, RowsAreOfKind,
     RowsAreComplete, AnswerExisted, NoneIsMissed
<1> QED
  BY <1>2, <1>4, <1>5, OthersStand

(* A row of another kind, or one that no search could find, is not owed.   *)
LEMMA OwedToSearch ==
  ASSUME SearchInv, NEW q \in Clients, NEW i \in DOMAIN certs, Owed(q, i),
         certs[i].content # asked[q].content
  PROVE  /\ i \in kept[q] \ lapsed[q]
         /\ asked[q].kind # "hash" /\ asked[q].features /\ asked[q].hashes # {}
         /\ IsSearch(asked[q]) /\ IsIndexed(certs[i])
         /\ certs[i].kind = asked[q].kind /\ Distance(asked[q], certs[i]) <= MaxPHashDistance
         /\ CollidesWith(asked[q], certs[i])
         /\ PassesGates(asked[q], certs[i]) /\ Similar(asked[q], certs[i])
         /\ Cardinality(Rivals(asked[q], i, seen[q])) < TopK[asked[q].kind]
<1>1. certs[i] \in Assets /\ asked[q] \in Uploads
  BY DEF SearchInv, TypeOK
<1>2. /\ certs[i].kind = asked[q].kind /\ asked[q].features /\ asked[q].hashes # {}
      /\ certs[i].hash # {} /\ Distance(asked[q], certs[i]) < Cardinality(Bands)
      /\ Distance(asked[q], certs[i]) <= MaxPHashDistance
      /\ PassesGates(asked[q], certs[i]) /\ Similar(asked[q], certs[i])
      /\ Cardinality(Rivals(asked[q], i, seen[q])) < TopK[asked[q].kind]
  BY OwedBySight DEF Owed
<1>3. IsSearch(asked[q]) /\ IsIndexed(certs[i]) /\ asked[q].kind # "hash"
  BY <1>1, <1>2, AssetsAssumption, UploadsAssumption DEF IsSearch, IsIndexed
<1>4. CollidesWith(asked[q], certs[i])
  BY <1>2, <1>3, NearRowsCollide
<1> QED
  BY <1>2, <1>3, <1>4 DEF Owed

LEMMA LookupKeepsInv ==
  ASSUME SearchInv, NEW q \in Clients, Lookup(q)
  PROVE  SearchInv'
<1> DEFINE same == {i \in live : certs[i].content = asked[q].content}
<1>1. /\ pc[q] = "lookup" /\ kept[q] \subseteq live /\ live \subseteq seen[q]
      /\ live \subseteq DOMAIN certs /\ UNCHANGED <<table, asked, history>>
  BY DEF Lookup, SearchInv, TypeOK, RequestInv, HistoriesBracket, Pending
<1>2. ASSUME NEW i \in same, Answer(q, "match", i) PROVE SearchInv'
  <2>1. i \in seen[q] /\ i \in DOMAIN certs /\ Vouches(asked[q], certs[i])
    BY <1>1 DEF Vouches
  <2> QED
    BY <1>1, <1>2, <2>1, AnswerKeepsInv
<1>3. ASSUME same = {}, Answer(q, "no_match", 0),
             asked[q].kind = "hash" \/ asked[q].hashes = {} \/ ~ asked[q].features
      PROVE  SearchInv'
  <2>1. \A i \in DOMAIN certs : ~ Owed(q, i)
    <3> SUFFICES ASSUME NEW i \in DOMAIN certs, Owed(q, i) PROVE FALSE
      OBVIOUS
    <3>1. certs[i].content # asked[q].content
      BY <1>1, <1>3 DEF Owed
    <3> QED
      BY <1>3, <3>1, OwedToSearch
  <2> QED
    BY <1>1, <1>3, <2>1, AnswerKeepsInv
<1>4. ASSUME same = {}, asked[q].kind # "hash", asked[q].hashes # {},
             Proceed(q, "probe"), UNCHANGED <<ids, rows>>
      PROVE  SearchInv'
  <2>1. certs' = certs /\ live' = live /\ asked' = asked
        /\ seen' = seen /\ kept' = kept /\ lapsed' = lapsed
        /\ outcome' = outcome /\ answer' = answer /\ ids' = ids /\ rows' = rows
        /\ pc' = [pc EXCEPT ![q] = "probe"]
    BY <1>1, <1>4 DEF table, history, Proceed
  <2>2. outcome[q] = "none" /\ pc'[q] = "probe" /\ rows[q] = <<>> /\ ids[q] = {}
    BY <1>1, <2>1 DEF SearchInv, TypeOK
  <2>3. TypeOK'
    BY <1>1, <2>1, <2>2 DEF SearchInv, TypeOK
  <2>4. OnlyOf(q)
    BY <1>1, <2>1 DEF OnlyOf, SearchInv, TypeOK
  <2>5. RequestInv(q)'
    BY <1>1, <1>4, <2>1, <2>2
       DEF RequestInv, HistoriesBracket, OnlyLooksAreLeft, IdsAreComplete,
       RowsAreOfKind, RowsAreComplete, AnswerExisted, NoneIsMissed, Pending
  <2> QED
    BY <2>3, <2>4, <2>5, OthersStand
<1> QED
  BY <1>2, <1>3, <1>4 DEF Lookup

LEMMA ProbeKeepsInv ==
  ASSUME SearchInv, NEW q \in Clients, Probe(q)
  PROVE  SearchInv'
<1> DEFINE found == Colliding(asked[q])
<1>1. /\ pc[q] = "probe" /\ kept[q] \subseteq live /\ live \subseteq seen[q]
      /\ live \subseteq DOMAIN certs /\ UNCHANGED <<table, asked, history>>
      /\ OnlyLooksAreLeft(q)
  BY DEF Probe, SearchInv, TypeOK, RequestInv, HistoriesBracket, Pending
<1>2. \A i \in live : CollidesWith(asked[q], certs[i]) => i \in found
  BY DEF CollidesWith, Colliding
<1>3. found \subseteq live
  BY DEF Colliding
<1> HIDE DEF found
<1>4. ASSUME found = {}, Answer(q, "no_match", 0) PROVE SearchInv'
  <2>1. \A i \in DOMAIN certs : ~ Owed(q, i)
    <3> SUFFICES ASSUME NEW i \in DOMAIN certs, Owed(q, i) PROVE FALSE
      OBVIOUS
    <3>1. i \in kept[q]
      BY DEF Owed
    <3>2. certs[i].content # asked[q].content
      BY <1>1, <3>1 DEF OnlyLooksAreLeft
    <3> QED
      BY <1>1, <1>2, <1>4, <3>1, <3>2, OwedToSearch
  <2> QED
    BY <1>1, <1>4, <2>1, AnswerKeepsInv
<1>5. ASSUME Proceed(q, "fetch"), ids' = [ids EXCEPT ![q] = found], UNCHANGED rows
      PROVE  SearchInv'
  <2>1. certs' = certs /\ live' = live /\ asked' = asked
        /\ seen' = seen /\ kept' = kept /\ lapsed' = lapsed
        /\ outcome' = outcome /\ answer' = answer /\ rows' = rows
        /\ pc' = [pc EXCEPT ![q] = "fetch"]
    BY <1>1, <1>5 DEF table, history, Proceed
  <2>2. outcome[q] = "none" /\ pc'[q] = "fetch" /\ rows[q] = <<>> /\ ids'[q] = found
    BY <1>1, <1>5, <2>1 DEF SearchInv, TypeOK
  <2>3. TypeOK'
    BY <1>1, <1>3, <1>5, <2>1, <2>2 DEF SearchInv, TypeOK
  <2>4. OnlyOf(q)
    BY <1>1, <1>5, <2>1 DEF OnlyOf, SearchInv, TypeOK
  <2>5. IdsAreComplete(q)'
    BY <1>1, <1>2, <2>1, <2>2 DEF IdsAreComplete, CollidesWith
  <2>6. RequestInv(q)'
    BY <1>1, <2>1, <2>2, <2>5
       DEF RequestInv, HistoriesBracket, OnlyLooksAreLeft, RowsAreOfKind, RowsAreComplete,
           AnswerExisted, NoneIsMissed, Pending
  <2> QED
    BY <2>3, <2>4, <2>6, OthersStand
<1> QED
  BY <1>4, <1>5 DEF Probe, found

(* The list that is fetched: of hits, and with everything owed in it.      *)
LEMMA FetchFinds ==
  ASSUME SearchInv, NEW q \in Clients, pc[q] = "fetch",
         NEW s \in TopOf(asked[q], Hits(asked[q], ids[q]))
  PROVE  /\ s \in Seq(DOMAIN certs)
         /\ \A k \in DOMAIN s : s[k] \in seen[q] /\ certs[s[k]].kind = asked[q].kind
         /\ \A i \in DOMAIN certs : Owed(q, i) => \E k \in DOMAIN s : s[k] = i
<1> DEFINE u == asked[q]
           hits == Hits(u, ids[q])
<1>1. /\ kept[q] \subseteq live /\ live \subseteq seen[q] /\ live \subseteq DOMAIN certs
      /\ seen[q] \subseteq DOMAIN certs /\ OnlyLooksAreLeft(q) /\ IdsAreComplete(q)
  BY DEF SearchInv, TypeOK, RequestInv, HistoriesBracket, Pending
<1>2. \A j \in hits : /\ j \in live /\ certs[j].hash # {} /\ certs[j].kind = u.kind
                      /\ Distance(u, certs[j]) <= MaxPHashDistance
  BY DEF Hits
<1>3. IsFiniteSet(hits)
  BY <1>1, <1>2, RowsAreFinite DEF SearchInv
<1>4. TopK[u.kind] \in Nat
  BY <1>1, TopKAssumption, UploadsAssumption DEF OnlyLooksAreLeft, SearchInv, TypeOK
<1>5. \A i \in live : /\ i \in ids[q] /\ certs[i].hash # {} /\ certs[i].kind = u.kind
                      /\ Distance(u, certs[i]) <= MaxPHashDistance
                      => i \in hits
  BY DEF Hits
<1> HIDE DEF hits
<1>6. s \in Seq(DOMAIN certs) /\ \A k \in DOMAIN s : s[k] \in hits
  <2> DEFINE n == Min({Cardinality(hits), TopK[u.kind]})
  <2>1. s \in [1..n -> hits]
    BY DEF TopOf, hits
  <2>2. n \in Nat
    BY <1>3, <1>4, LeastOf, FS_CardinalityType
  <2> HIDE DEF n
  <2>3. s \in Seq(hits)
    BY <2>1, <2>2
  <2>4. hits \subseteq DOMAIN certs
    BY <1>1, <1>2
  <2> QED
    BY <2>1, <2>3, <2>4
<1>7. ASSUME NEW i \in DOMAIN certs, Owed(q, i), \A k \in DOMAIN s : s[k] # i
      PROVE  FALSE
  <2>1. certs[i].content # u.content /\ i \in kept[q] /\ i \in live
    BY <1>1, <1>7 DEF OnlyLooksAreLeft, Owed
  <2>2. /\ certs[i].hash # {} /\ certs[i].kind = u.kind /\ CollidesWith(u, certs[i])
        /\ Distance(u, certs[i]) <= MaxPHashDistance
        /\ Cardinality(Rivals(u, i, seen[q])) < TopK[u.kind]
    BY <1>7, <2>1, OwedToSearch DEF IsIndexed
  <2>3. i \in ids[q]
    BY <1>1, <2>1, <2>2 DEF IdsAreComplete
  <2>4. i \in hits
    BY <1>5, <2>1, <2>2, <2>3
  <2>5. PICK T \in SUBSET (hits \ {i}) :
               /\ Cardinality(T) = TopK[u.kind]
               /\ \A y \in T : Distance(u, certs[y]) <= Distance(u, certs[i])
    BY <1>3, <1>4, <1>7, <2>4, LeftOutIsCrowdedOut DEF hits
  <2>6. T \in SUBSET Rivals(u, i, seen[q])
    BY <1>1, <1>2, <2>5 DEF Rivals
  <2>7. IsFiniteSet(Rivals(u, i, seen[q]))
    <3>1. Rivals(u, i, seen[q]) \subseteq DOMAIN certs
      BY <1>1 DEF Rivals
    <3> QED
      BY <3>1, RowsAreFinite DEF SearchInv
  <2>8. /\ Cardinality(T) <= Cardinality(Rivals(u, i, seen[q]))
        /\ Cardinality(Rivals(u, i, seen[q])) \in Nat
    BY <2>6, <2>7, FS_Subset, FS_CardinalityType
  <2> QED
    BY <1>4, <2>2, <2>5, <2>8
<1> QED
  BY <1>1, <1>2, <1>6, <1>7

LEMMA FetchKeepsInv ==
  ASSUME SearchInv, NEW q \in Clients, Fetch(q)
  PROVE  SearchInv'
<1>1. /\ pc[q] = "fetch" /\ UNCHANGED <<table, asked, history>> /\ Proceed(q, "match")
      /\ ids' = [ids EXCEPT ![q] = {}] /\ RequestInv(q)
  BY DEF Fetch, SearchInv
<1>2. PICK s \in TopOf(asked[q], Hits(asked[q], ids[q])) : rows' = [rows EXCEPT ![q] = s]
  BY DEF Fetch
<1>3. certs' = certs /\ live' = live /\ asked' = asked
      /\ seen' = seen /\ kept' = kept /\ lapsed' = lapsed
      /\ outcome' = outcome /\ answer' = answer /\ pc' = [pc EXCEPT ![q] = "match"]
  BY <1>1 DEF table, history, Proceed
<1>4. /\ s \in Seq(DOMAIN certs)
      /\ \A k \in DOMAIN s : s[k] \in seen[q] /\ certs[s[k]].kind = asked[q].kind
      /\ \A i \in DOMAIN certs : Owed(q, i) => \E k \in DOMAIN s : s[k] = i
  BY <1>1, FetchFinds
<1>5. outcome[q] = "none" /\ pc'[q] = "match" /\ rows'[q] = s /\ ids'[q] = {}
  BY <1>1, <1>2, <1>3 DEF SearchInv, TypeOK
<1>6. TypeOK'
  <2>1. rows' \in [Clients -> Seq(DOMAIN certs)]
    BY <1>2, <1>4 DEF SearchInv, TypeOK
  <2>2. /\ ids' \in [Clients -> SUBSET DOMAIN certs]
        /\ pc' \in [Clients -> {"idle", "lookup", "probe", "fetch", "match", "answered"}]
    BY <1>1, <1>3 DEF SearchInv, TypeOK
  <2>3. \A c \in Clients : /\ pc'[c] = "answered" <=> outcome'[c] # "none"
                           /\ ids'[c] # {} => pc'[c] = "fetch"
                           /\ rows'[c] # <<>> => pc'[c] = "match"
    <3>1. \A c \in Clients : c # q => pc'[c] = pc[c] /\ ids'[c] = ids[c] /\ rows'[c] = rows[c]
      BY <1>1, <1>2, <1>3 DEF SearchInv, TypeOK
    <3> QED
      BY <1>3, <1>5, <3>1 DEF SearchInv, TypeOK
  <2> QED
    BY <1>3, <2>1, <2>2, <2>3 DEF SearchInv, TypeOK
<1>7. OnlyOf(q)
  BY <1>1, <1>2, <1>3 DEF OnlyOf, SearchInv, TypeOK
<1>8. RowsAreComplete(q)'
  <2>1. \A i : Owed(q, i)' <=> Owed(q, i)
    BY <1>3 DEF Owed, MustFind
  <2> QED
    BY <1>3, <1>4, <1>5, <2>1 DEF RowsAreComplete
<1>9. RequestInv(q)'
  BY <1>1, <1>3, <1>4, <1>5, <1>8
     DEF RequestInv, HistoriesBracket, OnlyLooksAreLeft, IdsAreComplete, RowsAreOfKind,
         AnswerExisted, NoneIsMissed, Pending
<1> QED
  BY <1>6, <1>7, <1>9, OthersStand

LEMMA FirstAndRest ==
  ASSUME NEW S, NEW r \in Seq(S), r # <<>>
  PROVE  /\ Head(r) \in S /\ Head(r) = r[1] /\ 1 \in DOMAIN r
         /\ Tail(r) \in Seq(S)
         /\ \A k \in DOMAIN Tail(r) : k + 1 \in DOMAIN r /\ Tail(r)[k] = r[k + 1]
         /\ \A k \in DOMAIN r : k = 1 \/ (k - 1 \in DOMAIN Tail(r) /\ Tail(r)[k - 1] = r[k])
<1>1. /\ Head(r) \in S /\ Head(r) = r[1] /\ 1 \in DOMAIN r /\ Tail(r) \in Seq(S)
      /\ Len(Tail(r)) = Len(r) - 1 /\ Len(r) \in Nat
      /\ DOMAIN r = 1..Len(r) /\ DOMAIN Tail(r) = 1..Len(Tail(r))
  OBVIOUS
<1>2. \A k \in 1..(Len(r) - 1) : Tail(r)[k] = r[k + 1]
  OBVIOUS
<1> QED
  BY <1>1, <1>2

(* The candidate that is compared: if it is owed it matches, or fails.     *)
LEMMA CompareKeepsInv ==
  ASSUME SearchInv, NEW q \in Clients, Compare(q)
  PROVE  SearchInv'
<1> DEFINE top == Head(rows[q])
           rest == Tail(rows[q])
<1>1. /\ pc[q] = "match" /\ rows[q] # <<>> /\ rows[q] \in Seq(DOMAIN certs)
      /\ kept[q] \subseteq live /\ live \subseteq seen[q] /\ live \subseteq DOMAIN certs
      /\ OnlyLooksAreLeft(q) /\ RowsAreOfKind(q) /\ RowsAreComplete(q)
      /\ certs' = certs /\ live' = live /\ asked' = asked /\ seen' = seen /\ kept' = kept
  BY DEF Compare, SearchInv, TypeOK, RequestInv, HistoriesBracket, Pending, table
<1>2. /\ top \in DOMAIN certs /\ top = rows[q][1] /\ 1 \in DOMAIN rows[q]
      /\ rest \in Seq(DOMAIN certs)
      /\ \A k \in DOMAIN rest : k + 1 \in DOMAIN rows[q] /\ rest[k] = rows[q][k + 1]
      /\ \A k \in DOMAIN rows[q] : k = 1 \/ (k - 1 \in DOMAIN rest /\ rest[k - 1] = rows[q][k])
  BY <1>1, FirstAndRest
<1>3. top \in seen[q] /\ certs[top].kind = asked[q].kind
  BY <1>1, <1>2 DEF RowsAreOfKind
<1> HIDE DEF top, rest
<1>4. PICK how \in Verdicts(asked[q], certs[top]) :
        \/ how = "matched" /\ Answer(q, "match", top) /\ UNCHANGED lapsed
        \/ /\ how # "matched"
           /\ rows' = [rows EXCEPT ![q] = rest]
           /\ lapsed' = [lapsed EXCEPT ![q] = IF how = "failed" THEN @ \cup {top} ELSE @]
           /\ UNCHANGED <<pc, ids, outcome, answer>>
  BY DEF Compare, Rest, top, rest
<1>5. CASE how = "matched"
  <2>1. PassesGates(asked[q], certs[top]) /\ Similar(asked[q], certs[top])
    BY <1>4, <1>5 DEF Verdicts
  <2>2. Vouches(asked[q], certs[top])
    BY <1>3, <2>1 DEF Vouches
  <2> QED
    BY <1>1, <1>2, <1>3, <1>4, <1>5, <2>2, AnswerKeepsInv DEF table, history
<1>6. CASE how # "matched"
  <2>1. /\ rows' = [rows EXCEPT ![q] = rest]
        /\ lapsed' = [lapsed EXCEPT ![q] = IF how = "failed" THEN @ \cup {top} ELSE @]
        /\ UNCHANGED <<pc, ids, outcome, answer>>
    BY <1>4, <1>6
  <2>2. /\ rows'[q] = rest /\ outcome[q] = "none"
        /\ lapsed'[q] = IF how = "failed" THEN lapsed[q] \cup {top} ELSE lapsed[q]
    BY <1>1, <2>1 DEF SearchInv, TypeOK
  <2>3. TypeOK'
    <3>1. rows' \in [Clients -> Seq(DOMAIN certs)] /\ lapsed' \in [Clients -> SUBSET DOMAIN certs]
      BY <1>2, <2>1 DEF SearchInv, TypeOK
    <3>2. \A c \in Clients : rows'[c] # <<>> => pc[c] = "match"
      BY <1>1, <2>1 DEF SearchInv, TypeOK
    <3> QED
      BY <1>1, <2>1, <3>1, <3>2 DEF SearchInv, TypeOK
  <2>4. OnlyOf(q)
    BY <1>1, <2>1 DEF OnlyOf, table, SearchInv, TypeOK
  <2>5. RowsAreComplete(q)'
    <3> SUFFICES ASSUME NEW i \in DOMAIN certs, Owed(q, i)'
                 PROVE  \E k \in DOMAIN rest : rest[k] = i
      BY <1>1, <2>2 DEF RowsAreComplete
    <3>1. Owed(q, i) /\ (how = "failed" => i # top)
      BY <1>1, <2>2 DEF Owed, MustFind
    <3>2. PICK k \in DOMAIN rows[q] : rows[q][k] = i
      BY <1>1, <3>1 DEF RowsAreComplete
    <3>3. i # top
      <4> SUFFICES ASSUME i = top, how # "failed" PROVE FALSE
        BY <3>1
      <4>1. certs[i].content # asked[q].content
        BY <1>1, <3>1 DEF OnlyLooksAreLeft, Owed
      <4>2. PassesGates(asked[q], certs[i]) /\ Similar(asked[q], certs[i])
        BY <3>1, <4>1, OwedToSearch
      <4> QED
        BY <1>4, <1>6, <4>2 DEF Verdicts
    <3> QED
      BY <1>2, <3>2, <3>3
  <2>6. RowsAreOfKind(q)'
    BY <1>1, <1>2, <2>2 DEF RowsAreOfKind
  <2>7. RequestInv(q)'
    BY <1>1, <2>1, <2>2, <2>5, <2>6
       DEF RequestInv, HistoriesBracket, OnlyLooksAreLeft, IdsAreComplete, AnswerExisted,
           NoneIsMissed, Pending
  <2> QED
    BY <2>3, <2>4, <2>7, OthersStand
<1> QED
  BY <1>5, <1>6

LEMMA ExhaustKeepsInv ==
  ASSUME SearchInv, NEW q \in Clients, Exhaust(q)
  PROVE  SearchInv'
<1>1. /\ pc[q] = "match" /\ rows[q] = <<>> /\ Answer(q, "no_match", 0)
      /\ UNCHANGED <<table, asked, history>> /\ RowsAreComplete(q)
  BY DEF Exhaust, SearchInv, RequestInv
<1>2. \A i \in DOMAIN certs : ~ Owed(q, i)
  BY <1>1 DEF RowsAreComplete
<1> QED
  BY <1>1, <1>2, AnswerKeepsInv

LEMMA FailKeepsInv ==
  ASSUME SearchInv, NEW q \in Clients, Fail(q)
  PROVE  SearchInv'
BY AnswerKeepsInv DEF Fail

-----------------------------------------------------------------------------
LEMMA InitSearchInv == Init => SearchInv
<1> SUFFICES ASSUME Init PROVE SearchInv
  OBVIOUS
<1>1. asked \in [Clients -> Uploads]
  BY UploadsAssumption DEF Init
<1>2. TypeOK
  BY <1>1 DEF Init, TypeOK
<1>3. \A c \in Clients : RequestInv(c)
  BY DEF Init, RequestInv, HistoriesBracket, OnlyLooksAreLeft, IdsAreComplete, RowsAreOfKind,
         RowsAreComplete, AnswerExisted, NoneIsMissed, Pending
<1> QED
  BY <1>2, <1>3 DEF SearchInv

LEMMA NextSearchInv == SearchInv /\ [Next]_vars => SearchInv'
<1> SUFFICES ASSUME SearchInv, [Next]_vars PROVE SearchInv'
  OBVIOUS
<1>1. ASSUME NEW a \in Assets, Save(a) PROVE SearchInv'
  BY <1>1, SaveKeepsInv
<1>2. ASSUME NEW i \in live, Delete(i) PROVE SearchInv'
  BY <1>2, DeleteKeepsInv
<1>3. ASSUME NEW q \in Clients, NEW u \in Uploads, Ask(q, u) PROVE SearchInv'
  BY <1>3, AskKeepsInv
<1>4. ASSUME NEW q \in Clients, Step(q) PROVE SearchInv'
  BY <1>4, LookupKeepsInv, ProbeKeepsInv, FetchKeepsInv, CompareKeepsInv, ExhaustKeepsInv DEF Step
<1>5. ASSUME NEW q \in Clients, Fail(q) PROVE SearchInv'
  BY <1>5, FailKeepsInv
<1>6. CASE UNCHANGED vars
  <2>1. TypeOK'
    BY <1>6 DEF vars, table, SearchInv, TypeOK
  <2>2. \A c \in Clients : RequestInv(c)'
    BY <1>6, RequestStands DEF vars, table, SearchInv
  <2> QED
    BY <2>1, <2>2 DEF SearchInv
<1> QED
  BY <1>1, <1>2, <1>3, <1>4, <1>5, <1>6 DEF Next

LEMMA SearchInvariant == Spec => []SearchInv
BY InitSearchInv, NextSearchInv, PTL DEF Spec

-----------------------------------------------------------------------------
(***************************************************************************)
(* Contents are stored once, and a request holds candidates only while it  *)
(* looks at them.                                                          *)
(***************************************************************************)
THEOREM VerificationTypeCorrect == Spec => []TypeOK
<1>1. SearchInv => TypeOK
  BY DEF SearchInv
<1> QED
  BY <1>1, SearchInvariant, PTL

(***************************************************************************)
(* Whoever is told that a file is certified is shown a certificate that    *)
(* stood while they asked, of this file or of one that looks like it.      *)
(***************************************************************************)
THEOREM VerificationAnswersExisted == Spec => []AnswersExisted
<1>1. SearchInv => AnswersExisted
  BY DEF SearchInv, RequestInv, AnswerExisted, AnswersExisted
<1> QED
  BY <1>1, SearchInvariant, PTL

(***************************************************************************)
(* Whoever is told that a file is not certified was owed no match: a       *)
(* certificate within as many bits as there are bands, which stood during  *)
(* the whole request and which fewer than TopK rivals crowd, is never lost *)
(* by the index, the truncation, the failure of another comparison, or by  *)
(* what is saved and deleted between the queries.                          *)
(***************************************************************************)
THEOREM VerificationMissesNothing == Spec => []NothingMissed
<1>1. SearchInv => NothingMissed
  BY DEF SearchInv, TypeOK, RequestInv, NoneIsMissed, Owed, NothingMissed
<1> QED
  BY <1>1, SearchInvariant, PTL

(* All of it, as it is model-checked.                                      *)
THEOREM VerificationIsSafe == Spec => []VerificationSafety
<1>1. TypeOK /\ AnswersExisted /\ NothingMissed => VerificationSafety
  BY DEF VerificationSafety
<1> QED
  BY <1>1, VerificationTypeCorrect, VerificationAnswersExisted, VerificationMissesNothing, PTL
=============================================================================
