---------------------------- MODULE VideoIngest ----------------------------
(***************************************************************************)
(* The intake of an uploaded video (internal/feature/video_source.go and   *)
(* the use cases that hold a handle).  The decoder needs a file, so a      *)
(* video is spilled to the temporary directory for as long as its request  *)
(* works on it; a semaphore made of a buffered channel bounds how many     *)
(* requests do so at once, and the start of the process removes what an    *)
(* earlier one left behind.                                                *)
(*                                                                         *)
(* What is read from the file (hash, probe, frames) is not modelled here,  *)
(* only whose file it is.                                                  *)
(***************************************************************************)
EXTENDS Integers, FiniteSets, Sequences

CONSTANTS
  Requests,     \* requests that carry a video
  Names,        \* file names os.CreateTemp can draw
  Concurrency,  \* capacity of the channel sem
  StaleAge,     \* staleTempAge, in ticks
  MaxTime,      \* bound on the clock
  Faults,       \* subset of {"crash", "tempfail", "removefail"}
  None          \* no file, no owner

ASSUME RequestsAssumption == IsFiniteSet(Requests)
ASSUME ConcurrencyAssumption == Concurrency \in Nat \ {0}
ASSUME StaleAgeAssumption == StaleAge \in Nat /\ MaxTime \in Nat
ASSUME NoneAssumption ==
  /\ None \notin Requests \cup Names
  /\ None \notin [of : Requests \cup {None}, mtime : Nat]

VARIABLES
  up,       \* whether the process runs
  now,      \* the clock, in ticks
  sweptAt,  \* when the process started, that is, last swept
  phase,    \* how far each request is
  path,     \* videoSource.path of each request
  closed,   \* videoSource.isClosed of each request
  queue,    \* requests blocked on the channel, in the order Go serves them
  tokens,   \* elements in the channel sem
  disk,     \* the spill files, by name
  stuck     \* names whose removal the system refused

vars == <<up, now, sweptAt, phase, path, closed, queue, tokens, disk, stuck>>

Phases == {"idle", "waiting", "holding", "spilling", "open", "closing", "closed"}
Times == 0..MaxTime
Spill == [of : Requests \cup {None}, mtime : Times]

TypeOK ==
  /\ up \in BOOLEAN
  /\ now \in Times /\ sweptAt \in Times
  /\ phase \in [Requests -> Phases]
  /\ path \in [Requests -> Names \cup {None}]
  /\ closed \in [Requests -> BOOLEAN]
  /\ queue \in Seq(Requests)
  /\ tokens \in 0..Concurrency
  /\ disk \in [Names -> Spill \cup {None}]
  /\ stuck \subseteq Names

OnDisk == {f \in Names : disk[f] # None}

Init ==
  /\ up = FALSE
  /\ now = 0 /\ sweptAt = 0
  /\ phase = [r \in Requests |-> "idle"]
  /\ path = [r \in Requests |-> None]
  /\ closed = [r \in Requests |-> FALSE]
  /\ queue = <<>> /\ tokens = 0
  /\ disk = [f \in Names |-> None]
  /\ stuck = {}

----------------------------------------------------------------------------
(* The process *)

Stale(f) == f \in OnDisk /\ now - disk[f].mtime >= StaleAge

(* NewVideoExtractor: an empty channel, and a sweep of what is old enough. *)
(* A file the system does not remove is logged and stays.                  *)
Start ==
  /\ ~up
  /\ up' = TRUE
  /\ sweptAt' = now
  /\ \E kept \in SUBSET {f \in Names : Stale(f)} :
       /\ kept # {} => "removefail" \in Faults
       /\ disk' = [f \in Names |-> IF Stale(f) /\ f \notin kept THEN None ELSE disk[f]]
       /\ stuck' = (stuck \cap {f \in Names : disk'[f] # None}) \cup kept
  /\ UNCHANGED <<now, phase, path, closed, queue, tokens>>

(* SIGKILL, or a fault inside OpenCV: the files stay, nothing else does.   *)
Crash ==
  /\ "crash" \in Faults
  /\ up
  /\ up' = FALSE
  /\ phase' = [r \in Requests |-> "idle"]
  /\ path' = [r \in Requests |-> None]
  /\ closed' = [r \in Requests |-> FALSE]
  /\ queue' = <<>> /\ tokens' = 0
  /\ disk' = [f \in Names |-> IF f \in OnDisk THEN [disk[f] EXCEPT !.of = None] ELSE None]
  /\ UNCHANGED <<now, sweptAt, stuck>>

Tick == now < MaxTime /\ now' = now + 1
        /\ UNCHANGED <<up, sweptAt, phase, path, closed, queue, tokens, disk, stuck>>

----------------------------------------------------------------------------
(* Ingest *)

Move(r, from, to) == phase[r] \in from /\ phase' = [phase EXCEPT ![r] = to]

(* Ingest is called and asks for a decode slot.                            *)
Ingest(r) ==
  /\ up
  /\ Move(r, {"idle"}, "waiting")
  /\ queue' = Append(queue, r)
  /\ UNCHANGED <<up, now, sweptAt, path, closed, tokens, disk, stuck>>

(* A request stands in the queue once, and leaves it from where it stands.  *)
Leaves(r) ==
  \E i \in DOMAIN queue :
    /\ queue[i] = r
    /\ queue' = SubSeq(queue, 1, i - 1) \o SubSeq(queue, i + 1, Len(queue))

MayAcquire_Any(r) == \E i \in 1..Len(queue) : queue[i] = r

(* A blocked send on a channel is served in the order of arrival.          *)
MayAcquire(r) == Head(queue) = r

Acquire_Unbounded(r) ==
  /\ queue # <<>> /\ MayAcquire(r)
  /\ Move(r, {"waiting"}, "holding")
  /\ tokens' = tokens + 1
  /\ Leaves(r)
  /\ UNCHANGED <<up, now, sweptAt, path, closed, disk, stuck>>

(* acquire: the send succeeds.                                             *)
Acquire(r) ==
  /\ queue # <<>> /\ MayAcquire(r)
  /\ tokens < Concurrency
  /\ Move(r, {"waiting"}, "holding")
  /\ tokens' = tokens + 1
  /\ Leaves(r)
  /\ UNCHANGED <<up, now, sweptAt, path, closed, disk, stuck>>

(* acquire: the request is abandoned first.                                *)
Abandon(r) ==
  /\ Move(r, {"waiting"}, "idle")
  /\ Leaves(r)
  /\ UNCHANGED <<up, now, sweptAt, path, closed, tokens, disk, stuck>>

CreateTemp_NotExclusive(r) ==
  /\ Move(r, {"holding"}, "spilling")
  /\ \E f \in Names :
       /\ path' = [path EXCEPT ![r] = f]
       /\ disk' = [disk EXCEPT ![f] = [of |-> r, mtime |-> now]]
  /\ UNCHANGED <<up, now, sweptAt, closed, queue, tokens, stuck>>

(* os.CreateTemp draws a name until it creates a file nobody else has.     *)
CreateTemp(r) ==
  /\ Move(r, {"holding"}, "spilling")
  /\ \E f \in Names \ OnDisk :
       /\ path' = [path EXCEPT ![r] = f]
       /\ disk' = [disk EXCEPT ![f] = [of |-> r, mtime |-> now]]
  /\ UNCHANGED <<up, now, sweptAt, closed, queue, tokens, stuck>>

(* The copy, the sync and the probe all succeed: the caller has a handle.  *)
Spilled(r) ==
  /\ Move(r, {"spilling"}, "open")
  /\ disk' = [disk EXCEPT ![path[r]].mtime = now]
  /\ UNCHANGED <<up, now, sweptAt, path, closed, queue, tokens, stuck>>

----------------------------------------------------------------------------
(* Close *)

FirstClose_Always(r) == TRUE

(* isClosed, and the sync.Once around the receive.                         *)
FirstClose(r) == ~closed[r]

AfterRelease_Done(r) == IF phase[r] = "open" THEN "closing" ELSE "closed"

(* What Close does after it gave the slot back: a source without a file is *)
(* done, the others have a file to remove.                                 *)
AfterRelease(r) == IF path[r] = None THEN "closed" ELSE "closing"

(* Close up to the release of the slot; a second Close returns at once.    *)
Close(r) ==
  /\ FirstClose(r)
  /\ tokens > 0
  /\ closed' = [closed EXCEPT ![r] = TRUE]
  /\ tokens' = tokens - 1
  /\ phase' = [phase EXCEPT ![r] = AfterRelease(r)]
  /\ UNCHANGED <<up, now, sweptAt, path, queue, disk, stuck>>

CanFail(r) ==
  \/ phase[r] = "spilling"
  \/ phase[r] = "holding" /\ ("tempfail" \in Faults \/ OnDisk = Names)

(* Ingest fails after it took a slot: its deferred Close.                  *)
IngestFails(r) == CanFail(r) /\ Close(r)

(* The use case is done with the video, whatever came of it: its deferred  *)
(* Close.                                                                  *)
Finish(r) == phase[r] = "open" /\ Close(r)

(* A handle that was closed is closed again.                               *)
CloseAgain(r) ==
  /\ phase[r] = "closed"
  /\ Close(r) \/ (~FirstClose(r) /\ UNCHANGED vars)

(* Close after the release: os.Remove, which may fail.                     *)
Remove(r) ==
  /\ Move(r, {"closing"}, "closed")
  /\ \/ disk' = [disk EXCEPT ![path[r]] = None] /\ UNCHANGED stuck
     \/ "removefail" \in Faults /\ stuck' = stuck \cup {path[r]} /\ UNCHANGED disk
  /\ UNCHANGED <<up, now, sweptAt, path, closed, queue, tokens>>

(* The request ends, and its number may stand for another one.             *)
Return(r) ==
  /\ Move(r, {"closed"}, "idle")
  /\ path' = [path EXCEPT ![r] = None]
  /\ closed' = [closed EXCEPT ![r] = FALSE]
  /\ UNCHANGED <<up, now, sweptAt, queue, tokens, disk, stuck>>

Next ==
  \/ Start \/ Crash \/ Tick
  \/ \E r \in Requests :
       \/ Ingest(r) \/ Acquire(r) \/ Abandon(r) \/ CreateTemp(r) \/ Spilled(r)
       \/ IngestFails(r) \/ Finish(r) \/ CloseAgain(r) \/ Remove(r) \/ Return(r)

(* A request that holds a slot keeps going: the upload has arrived in full *)
(* before Ingest reads it, a decode is bounded by the limits the probe is  *)
(* checked against, and Close is deferred on every path.                   *)
Fairness ==
  \A r \in Requests :
    /\ WF_vars(Acquire(r))
    /\ WF_vars(CreateTemp(r) \/ Spilled(r) \/ IngestFails(r) \/ Finish(r))
    /\ WF_vars(Remove(r))

Spec == Init /\ [][Next]_vars /\ Fairness

----------------------------------------------------------------------------
(* Properties *)

Holders == {r \in Requests : phase[r] \in {"holding", "spilling", "open"}}

(* The channel holds one element per request between acquire and release:  *)
(* its elements are anonymous, so a release too many frees the slot of     *)
(* somebody else and one too few loses a slot for good.                    *)
TokensAreHeld == tokens = Cardinality(Holders)

(* A request that reads its spill file reads its own: it is still there,   *)
(* and it is not one that another request created under a name it freed.   *)
OwnFile ==
  \A r \in Requests :
    phase[r] \in {"spilling", "open"} =>
      path[r] \in OnDisk /\ disk[path[r]].of = r

(* A file in the spill directory belongs to a request that will remove it, *)
(* could not be removed, or was left by a process that died and was too    *)
(* young when this one started.                                            *)
NothingLeftBehind ==
  up => \A f \in OnDisk :
          \/ \E r \in Requests : path[r] = f /\ phase[r] \in {"spilling", "open", "closing"}
          \/ f \in stuck
          \/ disk[f].of = None /\ sweptAt - disk[f].mtime < StaleAge

(* A request that waits for a decode slot gets one or gives up, whoever    *)
(* keeps arriving.                                                         *)
WaitersAreServed == \A r \in Requests : phase[r] = "waiting" ~> phase[r] # "waiting"

(* OPERATIONS.md: the spill directory needs room for one upload per slot.  *)
WithinBudget == Cardinality(OnDisk) <= Concurrency
============================================================================
