------------------------- MODULE VideoIngestProofs -------------------------
(***************************************************************************)
(* Safety of the video intake for any number of requests, names and slots. *)
(***************************************************************************)
EXTENDS VideoIngest, FiniteSetTheorems, TLAPS

(* The parts of the type invariant the argument needs.                     *)
Typed ==
  /\ up \in BOOLEAN
  /\ now \in Nat /\ sweptAt \in Nat
  /\ phase \in [Requests -> Phases]
  /\ path \in [Requests -> Names \cup {None}]
  /\ closed \in [Requests -> BOOLEAN]
  /\ tokens \in Nat
  /\ disk \in [Names -> [of : Requests \cup {None}, mtime : Nat] \cup {None}]

(* isClosed tells which requests have released their slot.                 *)
ClosedIsReleased ==
  \A r \in Requests : closed[r] <=> phase[r] \in {"closing", "closed"}

(* A request has its file from its creation until its removal.             *)
Owns(r) == path[r] \in OnDisk /\ disk[path[r]].of = r
KeepsItsFile ==
  \A r \in Requests : phase[r] \in {"spilling", "open", "closing"} => Owns(r)

(* Every file is accounted for: by its owner, by a refused removal, or by  *)
(* the death of the process that wrote it.                                 *)
Accounted(f) ==
  \/ f \in stuck
  \/ up /\ disk[f].of # None
     /\ path[disk[f].of] = f /\ phase[disk[f].of] \in {"spilling", "open", "closing"}
  \/ disk[f].of = None /\ (up => sweptAt - disk[f].mtime < StaleAge)
FilesAccounted == \A f \in OnDisk : Accounted(f)

(* A request has no file before it creates one.                            *)
NoFileYet ==
  \A r \in Requests : phase[r] \in {"idle", "waiting", "holding"} => path[r] = None

(* No request is in progress while the process is down.                    *)
DownIsIdle == ~up => \A r \in Requests : phase[r] = "idle"

IInv ==
  /\ Typed /\ TokensAreHeld /\ ClosedIsReleased
  /\ NoFileYet /\ KeepsItsFile /\ FilesAccounted /\ DownIsIdle

(* A request that takes a slot is one more holder.                         *)
LEMMA OneMoreHolder ==
  ASSUME NEW r \in Requests, r \notin Holders, Holders' = Holders \cup {r},
         TokensAreHeld, tokens' = tokens + 1
  PROVE  TokensAreHeld'
<1>1. IsFiniteSet(Holders)
  BY RequestsAssumption, FS_Subset DEF Holders
<1>2. Cardinality(Holders \cup {r}) = Cardinality(Holders) + 1
  BY <1>1, FS_AddElement
<1> QED
  BY <1>2 DEF TokensAreHeld

(* A request that gives its slot back is one less.                         *)
LEMMA OneLessHolder ==
  ASSUME NEW r \in Requests, r \in Holders, Holders' = Holders \ {r},
         TokensAreHeld, tokens' = tokens - 1
  PROVE  TokensAreHeld'
<1>1. IsFiniteSet(Holders)
  BY RequestsAssumption, FS_Subset DEF Holders
<1>2. Cardinality(Holders \ {r}) = Cardinality(Holders) - 1
  BY <1>1, FS_RemoveElement
<1> QED
  BY <1>2 DEF TokensAreHeld

LEMMA InitIInv == Init => IInv
<1> SUFFICES ASSUME Init PROVE IInv
  OBVIOUS
<1>1. Typed
  BY DEF Init, Typed, Phases
<1>2. Holders = {}
  BY DEF Init, Holders
<1>3. TokensAreHeld
  BY <1>2, FS_EmptySet DEF Init, TokensAreHeld
<1>4. ClosedIsReleased /\ NoFileYet /\ KeepsItsFile
  BY DEF Init, ClosedIsReleased, NoFileYet, KeepsItsFile
<1>5. FilesAccounted /\ DownIsIdle
  BY DEF Init, FilesAccounted, DownIsIdle, OnDisk
<1> QED
  BY <1>1, <1>3, <1>4, <1>5 DEF IInv

(* The release half of Close, from the states its callers are in.          *)
LEMMA CloseIInv ==
  ASSUME IInv, NEW r \in Requests, Close(r),
         phase[r] \in {"holding", "spilling", "open", "closed"}
  PROVE  IInv'
<1> USE DEF IInv
<1>1. r \in Holders /\ phase[r] # "closed"
  BY DEF Close, FirstClose, ClosedIsReleased, Holders
<1>2. Typed'
  BY DEF Typed, Close, AfterRelease, Phases
<1>3. Holders' = Holders \ {r}
  BY DEF Holders, Close, AfterRelease, Typed
<1>4. TokensAreHeld'
  BY <1>1, <1>3, OneLessHolder DEF Close
<1>5. ClosedIsReleased'
  BY DEF ClosedIsReleased, Close, AfterRelease, Typed
<1>6. NoFileYet'
  BY DEF NoFileYet, Close, AfterRelease, Typed
<1>7. phase[r] = "holding" => path[r] = None
  BY DEF NoFileYet
<1>8. KeepsItsFile'
  BY <1>1, <1>7 DEF KeepsItsFile, Owns, OnDisk, Close, AfterRelease, Typed
<1>9. phase[r] \in {"spilling", "open"} => path[r] # None
  BY NoneAssumption DEF KeepsItsFile, Owns, OnDisk
<1>10. FilesAccounted'
  BY <1>1, <1>7, <1>9 DEF FilesAccounted, Accounted, OnDisk, Close, AfterRelease, Typed
<1>11. DownIsIdle'
  BY <1>1 DEF DownIsIdle, Close, Typed, Holders
<1> QED
  BY <1>2, <1>4, <1>5, <1>6, <1>8, <1>10, <1>11

(* Steps of the process.                                                   *)
LEMMA StartIInv == ASSUME IInv, Start PROVE IInv'
<1> USE DEF IInv, Start
<1>1. Typed'
  <2>1. disk' \in [Names -> [of : Requests \cup {None}, mtime : Nat] \cup {None}]
    <3>1. PICK kept \in SUBSET {f \in Names : Stale(f)} :
            disk' = [f \in Names |-> IF Stale(f) /\ f \notin kept THEN None ELSE disk[f]]
      OBVIOUS
    <3> HIDE DEF Start, IInv
    <3>2. disk \in [Names -> [of : Requests \cup {None}, mtime : Nat] \cup {None}]
      BY DEF Typed, IInv
    <3> QED
      BY <3>1, <3>2
  <2> QED
    BY <2>1 DEF Typed
<1>2. TokensAreHeld' /\ ClosedIsReleased' /\ NoFileYet' /\ DownIsIdle'
  BY DEF TokensAreHeld, Holders, ClosedIsReleased, NoFileYet, DownIsIdle
<1>3. KeepsItsFile'
  BY DEF KeepsItsFile, DownIsIdle
<1>4. FilesAccounted'
  <2> SUFFICES ASSUME NEW f \in Names, disk'[f] # None PROVE Accounted(f)'
    BY DEF FilesAccounted, OnDisk
  <2>1. f \in OnDisk /\ disk'[f] = disk[f]
    BY DEF Stale, OnDisk, Typed
  <2>2. Accounted(f)
    BY <2>1 DEF FilesAccounted
  <2>3. CASE f \in stuck
    BY <2>3 DEF Accounted
  <2>4. CASE disk[f].of = None /\ Stale(f)
    <3>1. PICK kept \in SUBSET {g \in Names : Stale(g)} :
            /\ disk' = [g \in Names |-> IF Stale(g) /\ g \notin kept THEN None ELSE disk[g]]
            /\ stuck' = (stuck \cap {g \in Names : disk'[g] # None}) \cup kept
      OBVIOUS
    <3>2. f \in kept
      BY <2>4, <3>1
    <3> QED
      BY <3>1, <3>2 DEF Accounted
  <2>5. CASE disk[f].of = None /\ ~Stale(f)
    <3>1. disk[f].mtime \in Nat
      BY <2>1 DEF Typed, OnDisk
    <3>2. now - disk[f].mtime < StaleAge
      BY <2>1, <2>5, <3>1, StaleAgeAssumption DEF Stale, Typed
    <3> QED
      BY <2>1, <2>5, <3>2 DEF Accounted
  <2> QED
    BY <2>2, <2>3, <2>4, <2>5 DEF Accounted
<1> QED
  BY <1>1, <1>2, <1>3, <1>4

LEMMA CrashIInv == ASSUME IInv, Crash PROVE IInv'
<1> USE DEF IInv, Crash
<1>1. Typed'
  BY DEF Typed, OnDisk, Phases
<1>2. Holders' = {}
  BY DEF Holders
<1>3. TokensAreHeld'
  BY <1>2, FS_EmptySet DEF TokensAreHeld
<1>4. ClosedIsReleased' /\ NoFileYet' /\ KeepsItsFile' /\ DownIsIdle'
  BY DEF ClosedIsReleased, NoFileYet, KeepsItsFile, DownIsIdle
<1>5. FilesAccounted'
  BY DEF FilesAccounted, Accounted, OnDisk, Typed
<1> QED
  BY <1>1, <1>3, <1>4, <1>5

(* Steps that move neither a slot nor a file.                              *)
LEMMA TickIInv == ASSUME IInv, Tick PROVE IInv'
<1> USE DEF IInv, Tick
<1>1. Typed'
  BY DEF Typed, OnDisk
<1>2. TokensAreHeld' /\ ClosedIsReleased' /\ NoFileYet' /\ DownIsIdle'
  BY DEF TokensAreHeld, Holders, ClosedIsReleased, NoFileYet, DownIsIdle
<1>3. KeepsItsFile' /\ FilesAccounted'
  BY DEF KeepsItsFile, Owns, FilesAccounted, Accounted, OnDisk
<1> QED
  BY <1>1, <1>2, <1>3

LEMMA QueueIInv ==
  ASSUME IInv, NEW r \in Requests, Ingest(r) \/ Abandon(r)
  PROVE  IInv'
<1> USE DEF IInv, Ingest, Abandon, Move
<1>1. Typed'
  BY DEF Typed, Phases
<1>2. Holders' = Holders
  BY DEF Holders, Typed
<1>3. TokensAreHeld'
  BY <1>2 DEF TokensAreHeld
<1>4. ClosedIsReleased' /\ NoFileYet' /\ DownIsIdle'
  BY DEF ClosedIsReleased, NoFileYet, DownIsIdle, Typed
<1>5. KeepsItsFile' /\ FilesAccounted'
  BY DEF KeepsItsFile, Owns, FilesAccounted, Accounted, OnDisk, Typed
<1> QED
  BY <1>1, <1>3, <1>4, <1>5

LEMMA AcquireIInv ==
  ASSUME IInv, NEW r \in Requests, Acquire(r)
  PROVE  IInv'
<1> USE DEF IInv, Acquire, Move
<1>1. Typed'
  BY DEF Typed, Phases
<1>2. r \notin Holders /\ Holders' = Holders \cup {r}
  BY DEF Holders, Typed
<1>3. TokensAreHeld'
  BY <1>2, OneMoreHolder
<1>4. ClosedIsReleased' /\ NoFileYet' /\ DownIsIdle'
  BY DEF ClosedIsReleased, NoFileYet, DownIsIdle, Typed
<1>5. KeepsItsFile' /\ FilesAccounted'
  BY DEF KeepsItsFile, Owns, FilesAccounted, Accounted, OnDisk, Typed
<1> QED
  BY <1>1, <1>3, <1>4, <1>5

(* Steps that touch a file of their own: what the others have is left      *)
(* alone because a file has one owner.                                     *)
LEMMA CreateTempIInv ==
  ASSUME IInv, NEW r \in Requests, CreateTemp(r)
  PROVE  IInv'
<1> USE DEF IInv, Move
<1>1. PICK f \in Names \ OnDisk :
         /\ path' = [path EXCEPT ![r] = f]
         /\ disk' = [disk EXCEPT ![f] = [of |-> r, mtime |-> now]]
  BY DEF CreateTemp
<1>2. r # None /\ [of |-> r, mtime |-> now] # None
  BY NoneAssumption DEF Typed
<1>3. Typed'
  BY <1>1 DEF Typed, Phases, CreateTemp
<1>4. Holders' = Holders
  BY DEF Holders, Typed, CreateTemp
<1>5. TokensAreHeld'
  BY <1>4 DEF TokensAreHeld, CreateTemp
<1>6. ClosedIsReleased' /\ NoFileYet' /\ DownIsIdle'
  BY DEF ClosedIsReleased, NoFileYet, DownIsIdle, Typed, CreateTemp
<1>7. KeepsItsFile'
  <2> SUFFICES ASSUME NEW s \in Requests, phase'[s] \in {"spilling", "open", "closing"}
               PROVE  Owns(s)'
    BY DEF KeepsItsFile
  <2>1. CASE s = r
    BY <1>1, <1>2, <2>1 DEF Owns, OnDisk, Typed
  <2>2. CASE s # r
    BY <1>1, <2>2 DEF KeepsItsFile, Owns, OnDisk, Typed, CreateTemp
  <2> QED
    BY <2>1, <2>2
<1>8. FilesAccounted'
  <2> SUFFICES ASSUME NEW g \in OnDisk' PROVE Accounted(g)'
    BY DEF FilesAccounted
  <2>1. CASE g = f
    BY <1>1, <1>2, <2>1 DEF Accounted, Typed, CreateTemp, DownIsIdle
  <2>2. CASE g # f
    <3>1. g \in OnDisk /\ disk'[g] = disk[g]
      BY <1>1, <2>2 DEF OnDisk, Typed
    <3>2. disk[g].of # r \/ g \in stuck
      BY <3>1, NoneAssumption DEF FilesAccounted, Accounted, NoFileYet, OnDisk, Typed, CreateTemp
    <3> QED
      BY <3>1, <3>2, <1>1 DEF FilesAccounted, Accounted, Typed, CreateTemp, OnDisk
  <2> QED
    BY <2>1, <2>2
<1> QED
  BY <1>3, <1>5, <1>6, <1>7, <1>8

LEMMA SpilledIInv ==
  ASSUME IInv, NEW r \in Requests, Spilled(r)
  PROVE  IInv'
<1> USE DEF IInv
<1>0. /\ phase[r] = "spilling" /\ phase' = [phase EXCEPT ![r] = "open"]
      /\ UNCHANGED <<up, now, sweptAt, path, closed, queue, tokens, stuck>>
  BY DEF Spilled, Move
<1>1. Owns(r) /\ path[r] \in Names
  BY <1>0 DEF KeepsItsFile, Owns, OnDisk
<1>2. disk[path[r]] \in [of : Requests \cup {None}, mtime : Nat]
  BY <1>1 DEF Typed, Owns, OnDisk
<1>3. disk' = [disk EXCEPT ![path[r]] = [of |-> r, mtime |-> now]]
  <2>1. [disk[path[r]] EXCEPT !.mtime = now] = [of |-> r, mtime |-> now]
    BY <1>1, <1>2 DEF Owns
  <2>2. disk' = [disk EXCEPT ![path[r]] = [disk[path[r]] EXCEPT !.mtime = now]]
    BY DEF Spilled
  <2> QED
    BY <2>1, <2>2
<1>4. [of |-> r, mtime |-> now] # None
  BY NoneAssumption DEF Typed
<1>5. Typed'
  BY <1>0, <1>1, <1>3 DEF Typed, Phases
<1>6. Holders' = Holders
  BY <1>0 DEF Holders, Typed
<1>7. TokensAreHeld'
  BY <1>0, <1>6 DEF TokensAreHeld
<1>8. ClosedIsReleased' /\ NoFileYet' /\ DownIsIdle'
  BY <1>0 DEF ClosedIsReleased, NoFileYet, DownIsIdle, Typed
<1>9. KeepsItsFile'
  BY <1>0, <1>1, <1>3, <1>4 DEF KeepsItsFile, Owns, OnDisk, Typed
<1>10. FilesAccounted'
  <2> SUFFICES ASSUME NEW f \in OnDisk' PROVE Accounted(f)'
    BY DEF FilesAccounted
  <2>1. CASE f = path[r]
    BY <1>0, <1>1, <1>3, <1>4, <2>1, NoneAssumption DEF Accounted, Typed, DownIsIdle
  <2>2. CASE f # path[r]
    <3>1. f \in OnDisk /\ disk'[f] = disk[f]
      BY <1>1, <1>3, <2>2 DEF OnDisk, Typed
    <3>2. Accounted(f)
      BY <3>1 DEF FilesAccounted
    <3> QED
      BY <1>0, <3>1, <3>2, <2>2 DEF Accounted, Typed
  <2> QED
    BY <2>1, <2>2
<1> QED
  BY <1>5, <1>7, <1>8, <1>9, <1>10

LEMMA RemoveIInv ==
  ASSUME IInv, NEW r \in Requests, Remove(r)
  PROVE  IInv'
<1> USE DEF IInv, Remove, Move
<1>1. Owns(r) /\ path[r] \in Names
  BY DEF KeepsItsFile, Owns, OnDisk
<1>2. Typed'
  BY DEF Typed, Phases
<1>3. Holders' = Holders
  BY DEF Holders, Typed
<1>4. TokensAreHeld'
  BY <1>3 DEF TokensAreHeld
<1>5. ClosedIsReleased' /\ NoFileYet' /\ DownIsIdle'
  BY DEF ClosedIsReleased, NoFileYet, DownIsIdle, Typed
<1>6. KeepsItsFile'
  BY <1>1 DEF KeepsItsFile, Owns, OnDisk, Typed
<1>7. FilesAccounted'
  <2> SUFFICES ASSUME NEW f \in OnDisk' PROVE Accounted(f)'
    BY DEF FilesAccounted
  <2>1. f \in OnDisk /\ disk'[f] = disk[f]
    BY DEF OnDisk, Typed
  <2>2. f = path[r] => f \in stuck'
    BY <1>1 DEF OnDisk, Typed
  <2>3. f # path[r] /\ f \notin stuck => disk[f].of # r
    BY <2>1, NoneAssumption DEF FilesAccounted, Accounted, Typed
  <2> QED
    BY <2>1, <2>2, <2>3 DEF FilesAccounted, Accounted, Typed, OnDisk
<1> QED
  BY <1>2, <1>4, <1>5, <1>6, <1>7

LEMMA ReturnIInv ==
  ASSUME IInv, NEW r \in Requests, Return(r)
  PROVE  IInv'
<1> USE DEF IInv, Return, Move
<1>1. Typed'
  BY DEF Typed, Phases
<1>2. Holders' = Holders
  BY DEF Holders, Typed
<1>3. TokensAreHeld'
  BY <1>2 DEF TokensAreHeld
<1>4. ClosedIsReleased' /\ NoFileYet' /\ DownIsIdle'
  BY DEF ClosedIsReleased, NoFileYet, DownIsIdle, Typed
<1>5. KeepsItsFile'
  BY DEF KeepsItsFile, Owns, OnDisk, Typed
<1>6. FilesAccounted'
  BY DEF FilesAccounted, Accounted, OnDisk, Typed
<1> QED
  BY <1>1, <1>3, <1>4, <1>5, <1>6

LEMMA UnchangedIInv == ASSUME IInv, UNCHANGED vars PROVE IInv'
<1> USE DEF IInv, vars
<1>1. Typed' /\ TokensAreHeld' /\ ClosedIsReleased' /\ NoFileYet' /\ DownIsIdle'
  BY DEF Typed, TokensAreHeld, Holders, ClosedIsReleased, NoFileYet, DownIsIdle
<1>2. KeepsItsFile' /\ FilesAccounted'
  BY DEF KeepsItsFile, Owns, FilesAccounted, Accounted, OnDisk
<1> QED
  BY <1>1, <1>2

LEMMA NextIInv == IInv /\ [Next]_vars => IInv'
<1> SUFFICES ASSUME IInv, [Next]_vars PROVE IInv'
  OBVIOUS
<1>1. CASE Start \/ Crash \/ Tick
  BY <1>1, StartIInv, CrashIInv, TickIInv
<1>2. ASSUME NEW r \in Requests, Ingest(r) \/ Abandon(r) \/ Acquire(r)
      PROVE  IInv'
  BY <1>2, QueueIInv, AcquireIInv
<1>3. ASSUME NEW r \in Requests, CreateTemp(r) \/ Spilled(r) \/ Remove(r) \/ Return(r)
      PROVE  IInv'
  BY <1>3, CreateTempIInv, SpilledIInv, RemoveIInv, ReturnIInv
<1>4. ASSUME NEW r \in Requests, IngestFails(r) \/ Finish(r) \/ CloseAgain(r)
      PROVE  IInv'
  BY <1>4, CloseIInv, UnchangedIInv DEF IngestFails, CanFail, Finish, CloseAgain
<1>5. CASE UNCHANGED vars
  BY <1>5, UnchangedIInv
<1> QED
  BY <1>1, <1>2, <1>3, <1>4, <1>5 DEF Next

(* The invariant yields what the runs check.                               *)
LEMMA IInvImplies == IInv => TokensAreHeld /\ OwnFile /\ NothingLeftBehind
<1> SUFFICES ASSUME IInv PROVE TokensAreHeld /\ OwnFile /\ NothingLeftBehind
  OBVIOUS
<1>1. TokensAreHeld
  BY DEF IInv
<1>2. OwnFile
  BY DEF IInv, KeepsItsFile, Owns, OwnFile
<1>3. NothingLeftBehind
  <2> SUFFICES ASSUME up, NEW f \in OnDisk,
                      f \notin stuck,
                      ~(disk[f].of = None /\ sweptAt - disk[f].mtime < StaleAge)
               PROVE  \E r \in Requests :
                        path[r] = f /\ phase[r] \in {"spilling", "open", "closing"}
    BY DEF NothingLeftBehind
  <2>1. disk[f].of # None /\ path[disk[f].of] = f
        /\ phase[disk[f].of] \in {"spilling", "open", "closing"}
    BY DEF IInv, FilesAccounted, Accounted
  <2>2. disk[f].of \in Requests
    BY <2>1 DEF IInv, Typed, OnDisk
  <2> QED
    BY <2>1, <2>2
<1> QED
  BY <1>1, <1>2, <1>3

(* Whatever requests come, fail, are abandoned or die with the process,    *)
(* the channel holds one element per request that holds a slot (acquire    *)
(* and Close, video_source.go 126-173).                                    *)
THEOREM SlotsAreSafe == Spec => []TokensAreHeld
<1>1. Spec => []IInv
  BY InitIInv, NextIInv, PTL DEF Spec
<1> QED
  BY <1>1, IInvImplies, PTL

(* A request reads the file it wrote itself (Ingest and Close, 181-238).   *)
THEOREM FilesAreOwn == Spec => []OwnFile
<1>1. Spec => []IInv
  BY InitIInv, NextIInv, PTL DEF Spec
<1> QED
  BY <1>1, IInvImplies, PTL

(* No path of Ingest or Close forgets a file, and what a crash leaves is   *)
(* removed by the first start that finds it an hour old (sweepStaleTemp-   *)
(* Files, 103-122).                                                        *)
THEOREM NoSpillIsForgotten == Spec => []NothingLeftBehind
<1>1. Spec => []IInv
  BY InitIInv, NextIInv, PTL DEF Spec
<1> QED
  BY <1>1, IInvImplies, PTL
-----------------------------------------------------------------------------
(* The bounds of the type invariant that the argument above does without.  *)
Bounded ==
  /\ now \in Times /\ sweptAt \in Times
  /\ queue \in Seq(Requests)
  /\ tokens <= Concurrency
  /\ disk \in [Names -> Spill \cup {None}]
  /\ stuck \subseteq Names

LEMMA LeavingKeepsQueue ==
  ASSUME queue \in Seq(Requests), NEW r \in Requests, Leaves(r)
  PROVE  queue' \in Seq(Requests)
BY DEF Leaves

LEMMA InitBounded == Init => Bounded
BY StaleAgeAssumption, ConcurrencyAssumption DEF Init, Bounded, Times

(* Steps of the process.                                                   *)
LEMMA ProcessBounded ==
  ASSUME IInv, Bounded, Start \/ Crash \/ Tick
  PROVE  Bounded'
<1>1. CASE Start
  <2>1. PICK kept \in SUBSET {f \in Names : Stale(f)} :
          /\ disk' = [f \in Names |-> IF Stale(f) /\ f \notin kept THEN None ELSE disk[f]]
          /\ stuck' = (stuck \cap {f \in Names : disk'[f] # None}) \cup kept
    BY <1>1 DEF Start
  <2>2. disk' \in [Names -> Spill \cup {None}] /\ stuck' \subseteq Names
    BY <2>1 DEF Bounded
  <2> QED
    BY <1>1, <2>2 DEF Bounded, Start
<1>2. CASE Crash
  <2>1. disk' \in [Names -> Spill \cup {None}]
    BY <1>2 DEF Crash, Bounded, Spill, OnDisk
  <2> QED
    BY <1>2, <2>1, ConcurrencyAssumption DEF Crash, Bounded
<1>3. CASE Tick
  <2>1. now' \in Times
    BY <1>3, StaleAgeAssumption DEF Tick, Bounded, Times
  <2> QED
    BY <1>3, <2>1 DEF Tick, Bounded
<1> QED
  BY <1>1, <1>2, <1>3

(* Steps of a request: only Acquire takes a slot, and only where there is  *)
(* room; the names that stick are names of files.                          *)
LEMMA RequestBounded ==
  ASSUME IInv, Bounded, NEW r \in Requests,
         \/ Ingest(r) \/ Acquire(r) \/ Abandon(r) \/ CreateTemp(r) \/ Spilled(r)
         \/ Close(r) \/ Remove(r) \/ Return(r)
  PROVE  Bounded'
<1>1. tokens \in Nat /\ Concurrency \in Nat
  BY ConcurrencyAssumption DEF IInv, Typed
<1>2. CASE Ingest(r)
  BY <1>2 DEF Ingest, Bounded
<1>3. CASE Acquire(r)
  BY <1>1, <1>3, LeavingKeepsQueue DEF Acquire, Bounded
<1>4. CASE Abandon(r)
  BY <1>4, LeavingKeepsQueue DEF Abandon, Bounded
<1>5. CASE CreateTemp(r)
  <2>1. PICK f \in Names : disk' = [disk EXCEPT ![f] = [of |-> r, mtime |-> now]]
    BY <1>5 DEF CreateTemp
  <2>2. [of |-> r, mtime |-> now] \in Spill
    BY DEF Bounded, Spill
  <2>3. disk' \in [Names -> Spill \cup {None}]
    BY <2>1, <2>2 DEF Bounded
  <2> QED
    BY <1>5, <2>3 DEF CreateTemp, Bounded
<1>6. CASE Spilled(r)
  <2>1. Owns(r) /\ path[r] \in Names
    BY <1>6 DEF IInv, KeepsItsFile, Owns, OnDisk, Spilled, Move
  <2>2. disk[path[r]] \in Spill
    BY <2>1 DEF Bounded, Owns, OnDisk
  <2>3. [disk[path[r]] EXCEPT !.mtime = now] \in Spill
    BY <2>2 DEF Bounded, Spill
  <2>4. disk' = [disk EXCEPT ![path[r]] = [disk[path[r]] EXCEPT !.mtime = now]]
    BY <1>6 DEF Spilled
  <2>5. disk' \in [Names -> Spill \cup {None}]
    BY <2>3, <2>4 DEF Bounded
  <2> QED
    BY <1>6, <2>5 DEF Spilled, Bounded
<1>7. CASE Close(r)
  BY <1>1, <1>7 DEF Close, Bounded
<1>8. CASE Remove(r)
  <2>1. path[r] \in Names
    BY <1>8 DEF IInv, KeepsItsFile, Owns, OnDisk, Remove, Move
  <2> QED
    BY <1>8, <2>1 DEF Remove, Bounded
<1>9. CASE Return(r)
  BY <1>9 DEF Return, Bounded
<1> QED
  BY <1>2, <1>3, <1>4, <1>5, <1>6, <1>7, <1>8, <1>9

LEMMA NextBounded == IInv /\ Bounded /\ [Next]_vars => Bounded'
<1> SUFFICES ASSUME IInv, Bounded, [Next]_vars PROVE Bounded'
  OBVIOUS
<1>1. CASE UNCHANGED vars
  BY <1>1 DEF Bounded, vars
<1>2. CASE Start \/ Crash \/ Tick
  BY <1>2, ProcessBounded
<1>3. ASSUME NEW r \in Requests,
             \/ Ingest(r) \/ Acquire(r) \/ Abandon(r) \/ CreateTemp(r) \/ Spilled(r)
             \/ IngestFails(r) \/ Finish(r) \/ CloseAgain(r) \/ Remove(r) \/ Return(r)
      PROVE  Bounded'
  BY <1>1, <1>3, RequestBounded DEF IngestFails, Finish, CloseAgain
<1> QED
  BY <1>1, <1>2, <1>3 DEF Next

(* No state of the intake is out of bounds: the channel never holds more   *)
(* than it was made for, and only files are waited for to be removed       *)
(* (video_source.go 77-173).                                               *)
THEOREM IntakeTypeCorrect == Spec => []TypeOK
<1>1. Init => IInv /\ Bounded
  BY InitIInv, InitBounded
<1>2. IInv /\ Bounded /\ [Next]_vars => IInv' /\ Bounded'
  BY NextIInv, NextBounded
<1>3. IInv /\ Bounded => TypeOK
  BY DEF IInv, Typed, Bounded, TypeOK
<1> QED
  BY <1>1, <1>2, <1>3, PTL DEF Spec
=============================================================================
