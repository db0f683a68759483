-------------------------- MODULE DatasetGenerator --------------------------
(***************************************************************************)
(* cmd/datasetgen with its sources and its manifest (internal/dataset):    *)
(* fetch the base images, hand them to a pool of workers that derive the   *)
(* variants, write down what came of it.  A run takes up the files that an *)
(* earlier one left, also one that was killed or ran out of disk.          *)
(***************************************************************************)
EXTENDS Integers, Sequences, FiniteSets, FiniteSetsExt

CONSTANTS
  Bases,           \* images a source has
  Listings,        \* what Source.List may answer, for some seed and --count
  Entries,         \* transform.Registry: the names of the transforms, in order
  Peering,         \* the entry whose family is "different_image"
  WorkerFlags,     \* values of --workers that are tried
  Cores,           \* runtime.NumCPU()
  GeneratorFaults, \* subset of {"fetch", "build", "write", "read", "kill"}
  MaxRuns,         \* bound: how often the generator is started
  Nothing          \* no such file

ASSUME EntriesAssumption == Entries \in Seq(STRING) /\ Len(Entries) > 0
ASSUME ListingsAssumption ==
  /\ Listings \subseteq Seq(Bases)
  /\ \A s \in Listings : s # <<>> /\ \A i, j \in DOMAIN s : s[i] = s[j] => i = j

(* The files of the cache and those below variants/.                       *)
Images == [of : Bases, whole : BOOLEAN]
EntryNames == {Entries[e] : e \in DOMAIN Entries}
Files == [from : Images, by : EntryNames, whole : BOOLEAN]

ASSUME NothingAssumption == Nothing \notin Images \cup Files

ASSUME RunsAssumption == MaxRuns \in Nat /\ WorkerFlags \subseteq Int /\ Cores \in Nat \ {0}

VARIABLES
  cache,     \* the files of the source's cache
  variants,  \* the files below variants/
  manifest,  \* manifest.json
  phase,     \* "off", "fetching" or "working"
  refs,      \* what Source.List answered and is still to be fetched
  bases,     \* allBases
  next,      \* the next job in the channel
  workers,   \* the pool: the job of each worker and how far it is
  results,   \* samplesByBase
  runs,      \* how often the generator was started
  first,     \* history: allBases of the first run that came so far
  mixed      \* history: a later run worked from other bases

generatorVars ==
  <<cache, variants, manifest, phase, refs, bases, next, workers, results, runs, first, mixed>>

Idle == [job |-> 0, entry |-> 1, writing |-> FALSE, samples |-> <<>>, failed |-> FALSE]
Fetched(b, whole) == [of |-> b, whole |-> whole]

-----------------------------------------------------------------------------
(* Start, end, and the bases *)

(* The process is gone, and what it held in memory.                        *)
Exit ==
  /\ phase' = "off"
  /\ refs' = <<>> /\ bases' = <<>> /\ next' = 1 /\ workers' = <<>> /\ results' = <<>>

(* Mutated: as many as the flag says.                                      *)
PoolSize_AsGiven(flag) == flag

PoolSize(flag) == Max({1, Min({flag, Cores})})

Start ==
  /\ phase = "off" /\ runs < MaxRuns
  /\ phase' = "fetching" /\ runs' = runs + 1
  /\ refs' \in Listings /\ bases' = <<>> /\ next' = 1 /\ results' = <<>>
  /\ \E flag \in WorkerFlags : workers' = [w \in 1..PoolSize(flag) |-> Idle]
  /\ UNCHANGED <<cache, variants, manifest, first, mixed>>

(* Fetch answers from the cache, whatever it holds, and fills it.  A base  *)
(* that cannot be had is left out.                                         *)
FetchBase ==
  LET b == Head(refs) IN
  /\ phase = "fetching" /\ refs # <<>>
  /\ refs' = Tail(refs)
  /\ \/ /\ cache[b] = Nothing
        /\ cache' = [cache EXCEPT ![b] = Fetched(b, TRUE)]
        /\ bases' = Append(bases, Fetched(b, TRUE))
     \/ cache[b] # Nothing /\ bases' = Append(bases, cache[b]) /\ UNCHANGED cache
     \/ /\ "fetch" \in GeneratorFaults /\ UNCHANGED bases
        /\ cache' \in {cache} \cup
             (IF cache[b] = Nothing THEN {[cache EXCEPT ![b] = Fetched(b, FALSE)]} ELSE {})
  /\ UNCHANGED <<variants, manifest, phase, next, workers, results, runs, first, mixed>>

(* log.Fatal without a base.                                               *)
NoBases ==
  /\ phase = "fetching" /\ refs = <<>> /\ bases = <<>>
  /\ Exit
  /\ UNCHANGED <<cache, variants, manifest, runs, first, mixed>>

BeginWork ==
  /\ phase = "fetching" /\ refs = <<>> /\ bases # <<>>
  /\ phase' = "working"
  /\ results' = [i \in DOMAIN bases |-> Idle]
  /\ first' = IF first = <<>> THEN bases ELSE first
  /\ mixed' = (mixed \/ first \notin {<<>>, bases})
  /\ UNCHANGED <<cache, variants, manifest, refs, bases, next, workers, runs>>

-----------------------------------------------------------------------------
(* processBase *)

(* Mutated: the neighbour of a base in the list of names.                  *)
PeerOf_Listed(i) == bases[IF i = Len(bases) THEN i ELSE i + 1]

(* The next base in cyclic order.                                          *)
PeerOf(i) == bases[(i % Len(bases)) + 1]

Sample(i, entry, bytes) ==
  [base |-> bases[i].of, entry |-> entry, sha |-> bytes,
   peer |-> IF entry = Peering THEN PeerOf(i).of ELSE Nothing]

(* different_image hands out its peer; the others derive from the base.    *)
Derived(i, entry) ==
  IF entry = Peering THEN [from |-> PeerOf(i), by |-> Peering, whole |-> TRUE]
  ELSE [from |-> bases[i], by |-> entry, whole |-> TRUE]

At(w) == <<bases[workers[w].job].of, Entries[workers[w].entry]>>
Busy(w) == phase = "working" /\ workers[w].job # 0 /\ workers[w].entry <= Len(Entries)

TakeJob(w) ==
  /\ phase = "working" /\ workers[w].job = 0 /\ next <= Len(bases)
  /\ workers' = [workers EXCEPT ![w].job = next]
  /\ next' = next + 1
  /\ UNCHANGED <<cache, variants, manifest, phase, refs, bases, results, runs, first, mixed>>

(* The sample is listed, or an error joined, and the next entry comes.     *)
Listed(w, bytes) ==
  workers' = [workers EXCEPT ![w].entry = @ + 1, ![w].writing = FALSE,
                ![w].samples = Append(@, Sample(workers[w].job, At(w)[2], bytes))]
Missed(w) ==
  workers' = [workers EXCEPT ![w].entry = @ + 1, ![w].writing = FALSE, ![w].failed = TRUE]

(* Mutated: what exists is derived again.                                  *)
Reused_Never(w) == FALSE

Reused(w) == variants[At(w)] # Nothing

TakeExisting(w) ==
  /\ Busy(w) /\ ~ workers[w].writing /\ Reused(w)
  /\ \/ Listed(w, variants[At(w)])
     \/ "read" \in GeneratorFaults /\ Missed(w)
  /\ UNCHANGED <<cache, variants, manifest, phase, refs, bases, next, results, runs, first, mixed>>

(* os.WriteFile truncates first; it has not written everything yet.        *)
Build(w) ==
  /\ Busy(w) /\ ~ workers[w].writing /\ ~ Reused(w)
  /\ \/ /\ variants' =
             [variants EXCEPT ![At(w)] =
                [Derived(workers[w].job, At(w)[2]) EXCEPT !.whole = FALSE]]
        /\ workers' = [workers EXCEPT ![w].writing = TRUE]
     \/ "build" \in GeneratorFaults /\ Missed(w) /\ UNCHANGED variants
  /\ UNCHANGED <<cache, manifest, phase, refs, bases, next, results, runs, first, mixed>>

(* Mutated: the sample is listed although the write failed.                *)
Unwritten_Listed(w) == Listed(w, Derived(workers[w].job, At(w)[2]))

(* A failed write leaves its file behind.                                  *)
Unwritten(w) == Missed(w)

WriteVariant(w) ==
  LET bytes == Derived(workers[w].job, At(w)[2]) IN
  /\ Busy(w) /\ workers[w].writing
  /\ \/ variants' = [variants EXCEPT ![At(w)] = bytes] /\ Listed(w, bytes)
     \/ "write" \in GeneratorFaults /\ Unwritten(w) /\ UNCHANGED variants
  /\ UNCHANGED <<cache, manifest, phase, refs, bases, next, results, runs, first, mixed>>

(* Mutated: in the order in which the workers are done.                    *)
Filed_Arrival(r, w) ==
  LET i == CHOOSE k \in DOMAIN r : r[k].job = 0 /\ \A j \in DOMAIN r : r[j].job = 0 => k <= j
  IN  [r EXCEPT ![i] = workers[w]]

(* samplesByBase[res.idx], however the workers overtake each other.        *)
Filed(r, w) == [r EXCEPT ![workers[w].job] = workers[w]]

Report(w) ==
  /\ phase = "working" /\ workers[w].job # 0 /\ workers[w].entry > Len(Entries)
  /\ results' = Filed(results, w)
  /\ workers' = [workers EXCEPT ![w] = Idle]
  /\ UNCHANGED <<cache, variants, manifest, phase, refs, bases, next, runs, first, mixed>>

-----------------------------------------------------------------------------
AllIn == \A i \in DOMAIN results : results[i].job # 0

Samples ==
  LET upTo[i \in 0..Len(bases)] ==
        IF i = 0 THEN <<>> ELSE upTo[i - 1] \o results[i].samples
  IN  upTo[Len(bases)]

(* What cannot be written may not be readable afterwards.                  *)
WriteManifest ==
  /\ phase = "working" /\ AllIn
  /\ Exit
  /\ \/ manifest' = [bases |-> bases, samples |-> Samples,
                     clean |-> \A i \in DOMAIN results : ~ results[i].failed]
     \/ "write" \in GeneratorFaults /\ manifest' \in {manifest, Nothing}
  /\ UNCHANGED <<cache, variants, runs, first, mixed>>

(* Files stay as they are, half written ones too.                          *)
Kill ==
  /\ "kill" \in GeneratorFaults /\ phase \in {"fetching", "working"}
  /\ Exit
  /\ UNCHANGED <<cache, variants, manifest, runs, first, mixed>>

Working(w) == TakeJob(w) \/ TakeExisting(w) \/ Build(w) \/ WriteVariant(w) \/ Report(w)

GeneratorNext ==
  \/ Start \/ FetchBase \/ NoBases \/ BeginWork \/ WriteManifest \/ Kill
  \/ \E w \in DOMAIN workers : Working(w)

GeneratorInit ==
  /\ cache = [b \in Bases |-> Nothing]
  /\ variants = [p \in Bases \X EntryNames |-> Nothing]
  /\ manifest = Nothing
  /\ phase = "off" /\ refs = <<>> /\ bases = <<>> /\ next = 1
  /\ workers = <<>> /\ results = <<>> /\ runs = 0
  /\ first = <<>> /\ mixed = FALSE

(* A generator that is not killed goes on.                                 *)
GeneratorFairness ==
  WF_generatorVars(FetchBase \/ NoBases \/ BeginWork \/ WriteManifest
                     \/ \E w \in DOMAIN workers : Working(w))

GeneratorSpec == GeneratorInit /\ [][GeneratorNext]_generatorVars /\ GeneratorFairness

-----------------------------------------------------------------------------
(* Properties *)

(***************************************************************************)
(* A manifest stays true of the files it names, while later runs resume,   *)
(* fail or are killed: each hash is of the file that is on disk.           *)
(***************************************************************************)
ManifestDescribesFiles ==
  manifest # Nothing =>
    \A k \in DOMAIN manifest.samples :
      LET s == manifest.samples[k] IN variants[<<s.base, s.entry>>] = s.sha

(***************************************************************************)
(* A run that reports no error has listed every variant of every base,     *)
(* once, and in an order that does not depend on the workers.              *)
(***************************************************************************)
CleanManifestIsComplete ==
  manifest # Nothing /\ manifest.clean =>
    LET m == Len(Entries) IN
    /\ Len(manifest.samples) = m * Len(manifest.bases)
    /\ \A k \in DOMAIN manifest.samples :
         /\ manifest.samples[k].base = manifest.bases[((k - 1) \div m) + 1].of
         /\ manifest.samples[k].entry = Entries[((k - 1) % m) + 1]

(***************************************************************************)
(* A negative control holds the image that the manifest says it holds, and *)
(* one that is not its own base where there is another, as long as all the *)
(* runs in the directory worked from the same bases.  A base that could    *)
(* not be fetched in one of them is enough for the label to be wrong.      *)
(***************************************************************************)
NegativesNameTheirPeer ==
  manifest # Nothing /\ ~ mixed =>
    \A k \in DOMAIN manifest.samples :
      LET s == manifest.samples[k] IN
      s.entry = Peering =>
        /\ s.sha.from.of = s.peer
        /\ Len(manifest.bases) > 1 => s.peer # s.base

(* What the manifest says of a file holds of it, what it should list it    *)
(* lists, and a negative is made from the image it names.                  *)
GeneratorSafety == ManifestDescribesFiles /\ CleanManifestIsComplete /\ NegativesNameTheirPeer

(* A run ends, whatever --workers says.                                    *)
GeneratorEnds == phase = "working" ~> phase = "off"
=============================================================================
