--------------------------- MODULE TraceCollector ---------------------------
(***************************************************************************)
(* The trace collector (internal/observability/collector.go), between the  *)
(* requests that record a trace and the dashboards that stream events and  *)
(* read the ring (internal/handler/observability.go).                      *)
(*                                                                         *)
(* One sync.RWMutex guards the ring and the table of subscribers.  A       *)
(* writer that waits keeps new readers out; publish sends to the           *)
(* subscribers one by one while it holds the lock for reading.             *)
(***************************************************************************)
EXTENDS Integers, Sequences, FiniteSets

CONSTANTS
  Tracers,        \* requests that shouldTrace, each its own trace
  Dashboards,     \* connections to /observability/events
  RingCapacity,   \* traces the ring retains
  SubBuffer,      \* events a subscriber's channel holds
  MaxRecorded,    \* bound: stage events of a trace
  NoOne

ASSUME CollectorAssumption ==
  /\ RingCapacity \in Nat \ {0} /\ SubBuffer \in Nat \ {0} /\ MaxRecorded \in Nat
  /\ IsFiniteSet(Tracers) /\ IsFiniteSet(Dashboards) /\ Tracers \cap Dashboards = {}
  /\ NoOne \notin Tracers \cup Dashboards

VARIABLES
  writer,   \* who holds, or waits for, the lock for writing
  rlocks,   \* who holds it for reading
  ring,     \* stored traces, newest last
  subs,     \* dashboards in the table of subscribers
  chan,     \* the buffered events of each dashboard's channel
  closed,   \* channels that are closed
  step,     \* where a request or a dashboard is
  count,    \* events a trace has had so far
  todo,     \* subscribers the event being published has yet to reach
  stored    \* history: every trace that was stored, in order

lock == <<writer, rlocks>>
listeners == <<subs, chan, closed>>
collectorVars == <<lock, ring, listeners, step, count, todo, stored>>

Actors == Tracers \cup Dashboards
Event(t, last) == [trace |-> t, n |-> count[t], last |-> last]
Goto(a, s) == step' = [step EXCEPT ![a] = s]

-----------------------------------------------------------------------------
(* sync.RWMutex                                                            *)

(* What a writer does next once it is the only one to announce itself.     *)
Announcing == {"numbering", "storing", "subscribing", "cancelling"}

Lock(a) ==
  /\ step[a] \in Announcing /\ writer = NoOne
  /\ writer' = a
  /\ UNCHANGED <<rlocks, ring, listeners, step, count, todo, stored>>

(* The writer's turn, when the readers it found have left.                 *)
Exclusive(a) == writer = a /\ rlocks = {}
Unlock == writer' = NoOne /\ UNCHANGED rlocks

MayRead == writer = NoOne

(* Mutated: the table is copied under the lock, and sent to without it.    *)
RLock_Snapshot(a) ==
  MayRead /\ rlocks' = (IF a \in Tracers THEN rlocks ELSE rlocks \cup {a}) /\ UNCHANGED writer

RLock(a) == MayRead /\ rlocks' = rlocks \cup {a} /\ UNCHANGED writer
RUnlock(a) == rlocks' = rlocks \ {a} /\ UNCHANGED writer

-----------------------------------------------------------------------------
(* Requests                                                                *)

(* NewSink draws the trace's number under the lock, and announces it.      *)
NewSink(t) ==
  /\ step[t] = "idle" /\ Goto(t, "numbering")
  /\ UNCHANGED <<lock, ring, listeners, count, todo, stored>>

Numbered(t) ==
  /\ step[t] = "numbering" /\ Exclusive(t)
  /\ Unlock /\ Goto(t, "publishing")
  /\ UNCHANGED <<ring, listeners, count, todo, stored>>

(* Mutated: a stage may still be ended when the verdict is out.            *)
MayRecord_Late(t) == step[t] \in {"running", "ended"} /\ count[t] < MaxRecorded

MayRecord(t) == step[t] = "running" /\ count[t] < MaxRecorded

(* SetPipeline, StartStage, Child, SetAttrs, End: the trace changes first, *)
(* without the lock, and is published then.                                *)
Record(t) ==
  /\ MayRecord(t)
  /\ count' = [count EXCEPT ![t] = @ + 1] /\ Goto(t, "publishing")
  /\ UNCHANGED <<lock, ring, listeners, todo, stored>>

(* Mutated: the end is published first.                                    *)
AfterVerdict_Publish == "concluding"

AfterVerdict == "storing"

SetVerdict(t) ==
  /\ step[t] = "running" /\ Goto(t, AfterVerdict)
  /\ UNCHANGED <<lock, ring, listeners, count, todo, stored>>

(* An attested capture that fails before certification has no verdict, and *)
(* its trace is dropped with the request.                                  *)
Abandon(t) ==
  /\ step[t] = "running" /\ Goto(t, "ended")
  /\ UNCHANGED <<lock, ring, listeners, count, todo, stored>>

(* Mutated: trimmed one trace late.                                        *)
Retained_Late(r) == IF Len(r) > RingCapacity + 1 THEN Tail(r) ELSE r

Retained(r) ==
  IF Len(r) > RingCapacity THEN SubSeq(r, Len(r) - RingCapacity + 1, Len(r)) ELSE r

Store(t) ==
  /\ step[t] = "storing" /\ Exclusive(t)
  /\ ring' = Retained(Append(ring, t)) /\ stored' = Append(stored, t)
  /\ Unlock /\ Goto(t, "concluding")
  /\ UNCHANGED <<listeners, count, todo>>

-----------------------------------------------------------------------------
(* publish                                                                 *)

Sending(t) == step[t] \in {"sending", "sendingEnd"}

BeginPublish(t) ==
  /\ step[t] \in {"publishing", "concluding"} /\ RLock(t)
  /\ todo' = [todo EXCEPT ![t] = subs]
  /\ Goto(t, IF step[t] = "publishing" THEN "sending" ELSE "sendingEnd")
  /\ UNCHANGED <<ring, listeners, count, stored>>

(* Mutated: the send waits for room.                                       *)
Offer_Blocking(d, e) ==
  Len(chan[d]) < SubBuffer /\ chan' = [chan EXCEPT ![d] = Append(@, e)]

(* A full channel loses the event, and nobody is told.                     *)
Offer(d, e) ==
  chan' = IF Len(chan[d]) < SubBuffer THEN [chan EXCEPT ![d] = Append(@, e)] ELSE chan

Send(t, d) ==
  /\ Sending(t) /\ d \in todo[t]
  /\ Offer(d, Event(t, step[t] = "sendingEnd"))
  /\ todo' = [todo EXCEPT ![t] = @ \ {d}]
  /\ UNCHANGED <<lock, ring, subs, closed, step, count, stored>>

EndPublish(t) ==
  /\ Sending(t) /\ todo[t] = {} /\ RUnlock(t)
  /\ Goto(t, IF step[t] = "sending" THEN "running" ELSE "ended")
  /\ UNCHANGED <<ring, listeners, count, todo, stored>>

-----------------------------------------------------------------------------
(* Dashboards                                                              *)

Connect(d) ==
  /\ step[d] = "idle" /\ Goto(d, "subscribing")
  /\ UNCHANGED <<lock, ring, listeners, count, todo, stored>>

Subscribe(d) ==
  /\ step[d] = "subscribing" /\ Exclusive(d)
  /\ subs' = subs \cup {d}
  /\ Unlock /\ Goto(d, "listening")
  /\ UNCHANGED <<ring, chan, closed, count, todo, stored>>

Receive(d) ==
  /\ step[d] = "listening" /\ chan[d] # <<>>
  /\ chan' = [chan EXCEPT ![d] = Tail(@)]
  /\ UNCHANGED <<lock, ring, subs, closed, step, count, todo, stored>>

(* Recent and Get copy what they read under the lock.                      *)
Read(d) ==
  /\ step[d] = "listening" /\ RLock(d) /\ Goto(d, "reading")
  /\ UNCHANGED <<ring, listeners, count, todo, stored>>

DoneReading(d) ==
  /\ step[d] = "reading" /\ RUnlock(d) /\ Goto(d, "listening")
  /\ UNCHANGED <<ring, listeners, count, todo, stored>>

(* The browser goes away: the deferred cancel of streamEvents.             *)
Leave(d) ==
  /\ step[d] = "listening" /\ Goto(d, "cancelling")
  /\ UNCHANGED <<lock, ring, listeners, count, todo, stored>>

Cancel(d) ==
  /\ step[d] = "cancelling" /\ Exclusive(d)
  /\ subs' = subs \ {d} /\ closed' = closed \cup {d}
  /\ Unlock /\ Goto(d, "ended")
  /\ UNCHANGED <<ring, chan, count, todo, stored>>

-----------------------------------------------------------------------------
Tracing(t) ==
  \/ Lock(t) \/ Numbered(t) \/ Record(t) \/ SetVerdict(t) \/ Abandon(t) \/ Store(t)
  \/ BeginPublish(t) \/ (\E d \in Dashboards : Send(t, d)) \/ EndPublish(t)

(* What a dashboard's goroutine does without the browser's help.           *)
Serving(d) == Lock(d) \/ Subscribe(d) \/ DoneReading(d) \/ Cancel(d)

CollectorNext ==
  \/ \E t \in Tracers : NewSink(t) \/ Tracing(t)
  \/ \E d \in Dashboards : Connect(d) \/ Receive(d) \/ Read(d) \/ Leave(d) \/ Serving(d)

CollectorInit ==
  /\ writer = NoOne /\ rlocks = {}
  /\ ring = <<>> /\ stored = <<>>
  /\ subs = {} /\ closed = {} /\ chan = [d \in Dashboards |-> <<>>]
  /\ step = [a \in Actors |-> "idle"]
  /\ count = [t \in Tracers |-> 0] /\ todo = [t \in Tracers |-> {}]

(* Goroutines run; no browser has to read or to leave.                     *)
CollectorFairness ==
  /\ \A t \in Tracers : WF_collectorVars(Tracing(t))
  /\ \A d \in Dashboards : WF_collectorVars(Serving(d))

CollectorSpec == CollectorInit /\ [][CollectorNext]_collectorVars /\ CollectorFairness

-----------------------------------------------------------------------------
(* Properties                                                              *)

(* The ring and the channels never hold more than they were made for.      *)
CollectorTypeOK ==
  /\ writer \in Actors \cup {NoOne} /\ rlocks \in SUBSET Actors
  /\ ring \in Seq(Tracers) /\ Len(ring) <= RingCapacity /\ stored \in Seq(Tracers)
  /\ subs \in SUBSET Dashboards /\ closed \in SUBSET Dashboards
  /\ chan \in [Dashboards -> Seq([trace : Tracers, n : Nat, last : BOOLEAN])]
  /\ \A d \in Dashboards : Len(chan[d]) <= SubBuffer
  /\ step \in [Actors ->
       Announcing \cup {"idle", "publishing", "concluding", "sending", "sendingEnd",
                        "running", "listening", "reading", "ended"}]
  /\ count \in [Tracers -> 0..MaxRecorded] /\ todo \in [Tracers -> SUBSET Dashboards]

(* A send to a closed channel panics, in the goroutine of a request that   *)
(* has nothing to do with the dashboard that left.                         *)
SendsFindOpenChannels == \A t \in Tracers : todo[t] \cap closed = {}

(***************************************************************************)
(* A dashboard that is told of the end of a trace finds it in the ring,    *)
(* unless a ring's worth of others has ended since.                        *)
(***************************************************************************)
EndedIsFound ==
  \A d \in Dashboards : \A i \in DOMAIN chan[d] :
    chan[d][i].last =>
      \E k \in DOMAIN stored :
        /\ stored[k] = chan[d][i].trace
        /\ \/ \E j \in DOMAIN ring : ring[j] = stored[k]
           \/ Len(stored) - k >= RingCapacity

(* A trace in the ring is read by others under the lock and was written    *)
(* without it: it must not change any more.                                *)
StoredIsFrozen ==
  [][\A k \in DOMAIN stored : count'[stored[k]] = count[stored[k]]]_collectorVars

(* The ring, the channels and the locks are within bounds; nobody sends    *)
(* where it panics; and an end that is announced can be looked up.         *)
CollectorSafety == CollectorTypeOK /\ SendsFindOpenChannels /\ EndedIsFound

(* Dashboards that never read hold up no request, and one that leaves is   *)
(* released, however busy the collector is.                                *)
RequestsFinish ==
  /\ \A t \in Tracers : step[t] = "numbering" ~> step[t] = "ended"
  /\ \A d \in Dashboards : step[d] = "cancelling" ~> step[d] = "ended"
=============================================================================
