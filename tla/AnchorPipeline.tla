--------------------------- MODULE AnchorPipeline ---------------------------
(***************************************************************************)
(* The anchoring pipeline of Aletheia: certificates wait in Postgres, a    *)
(* worker reads a batch of them, commits the batch's Merkle root to the    *)
(* AnchorRegistry contract, waits for the receipt, and writes the anchor   *)
(* row and every certificate's inclusion proof in one SQL transaction.     *)
(*                                                                         *)
(* Sources: internal/usecase/anchor.go (the worker),                       *)
(* internal/repository/postgres_anchor.go (its queries),                   *)
(* internal/repository/evm_anchor.go (the JSON-RPC client),                *)
(* contracts/AnchorRegistry.sol (the contract), and the two operations of  *)
(* internal/repository/postgres.go that add and remove certificates.       *)
(*                                                                         *)
(* Between any two database or node round trips of the worker everything   *)
(* else may move: each round trip is an action of its own.                 *)
(***************************************************************************)
EXTENDS Integers, Sequences, FiniteSets, Merkle

CONSTANTS
  CertIds,     \* certificate row ids; a row id is used at most once
  Contents,    \* what can be certified; a content determines its Merkle leaf
  Times,       \* values of certificates.created_at
  Workers,     \* anchor workers, one per API process
  BatchSize,   \* ANCHOR_BATCH_SIZE
  MaxPool,     \* bound: transactions of the anchoring account in the mempool
  Admits,      \* which failures and operator actions the instance admits
  NoAnchor, NoContent, NoWorker

Hazards == {"drop", "lost", "late", "saveFails", "recordFails", "crash",
            "pause", "delete"}

ASSUME FinitelyManyIds   == IsFiniteSet(CertIds)
ASSUME BatchSizePositive == BatchSize \in Nat \ {0}
ASSUME TimesAreIntegers  == Times \subseteq Int
ASSUME PoolBound         == MaxPool \in Nat
ASSUME AdmitsHazards     == Admits \subseteq Hazards
ASSUME WorkerNull        == NoWorker \notin Workers

VARIABLES
  certs,    \* table certificates, by row id
  anchors,  \* table anchors
  registry, \* the contract: which roots are anchored, with their leaf counts
  paused,   \* the contract's pause flag
  mempool,  \* broadcast transactions not mined yet, in account-nonce order
  receipt,  \* what eth_getTransactionReceipt answers a polling worker
  pc,       \* where each worker is in its pass
  batch     \* the certificates each worker's pass read from the database

dbVars     == <<certs, anchors>>
chainVars  == <<registry, paused, mempool, receipt>>
workerVars == <<pc, batch>>
vars       == <<certs, anchors, registry, paused, mempool, receipt, pc, batch>>

-----------------------------------------------------------------------------
(* The leaf sequences a pass can commit, and the roots they hash to.       *)
LeafSeqs == UNION {[1..n -> Contents] : n \in 1..BatchSize}
Roots    == {MerkleRoot(l) : l \in LeafSeqs}
Proofs   == UNION {{MerkleProof(l, i) : i \in DOMAIN l} : l \in LeafSeqs}

(* A certificate row with no anchor (or no row yet, or no longer one).     *)
Row(state, m, t) ==
  [state |-> state, content |-> m, createdAt |-> t, anchor |-> NoAnchor,
   leafIndex |-> 0, proof |-> << >>]

Live(c)     == certs[c].state = "live"
Pending(c)  == Live(c) /\ certs[c].anchor = NoAnchor
Anchored(c) == Live(c) /\ certs[c].anchor # NoAnchor
(* Mutated: forgets `WHERE anchor_id IS NULL`.                             *)
Waiting_All == {c \in CertIds : Live(c)}

Waiting     == {c \in CertIds : Pending(c)}

Leaves(b) == [i \in DOMAIN b |-> b[i].content]
Root(w)   == MerkleRoot(Leaves(batch[w]))
Count(w)  == Len(batch[w])

AnchoredRoots == {r.root : r \in registry}

(* Mutated: forgets LIMIT.                                                 *)
BatchLength_NoLimit == Cardinality(Waiting)

(***************************************************************************)
(* PendingLeaves: unanchored rows, oldest first, at most BatchSize of them.*)
(* Rows with the same created_at come in whichever order the database      *)
(* yields them.                                                            *)
(***************************************************************************)
BatchLength ==
  IF Cardinality(Waiting) < BatchSize THEN Cardinality(Waiting) ELSE BatchSize

OldestFirst(ids) ==
  /\ \A i, j \in DOMAIN ids : i < j => /\ ids[i] # ids[j]
                                       /\ certs[ids[i]].createdAt <= certs[ids[j]].createdAt
  /\ \A c \in Waiting, i \in DOMAIN ids :
        (\A j \in DOMAIN ids : ids[j] # c) => certs[ids[i]].createdAt <= certs[c].createdAt

PendingLeaves == {ids \in [1..BatchLength -> Waiting] : OldestFirst(ids)}

-----------------------------------------------------------------------------
Init ==
  /\ certs = [c \in CertIds |-> Row("unissued", NoContent, 0)]
  /\ anchors = {}
  /\ registry = {}
  /\ paused = FALSE
  /\ mempool = << >>
  /\ receipt = [w \in Workers |-> "none"]
  /\ pc = [w \in Workers |-> "idle"]
  /\ batch = [w \in Workers |-> << >>]

-----------------------------------------------------------------------------
(* The certificates table, as the request handlers change it.              *)

(***************************************************************************)
(* Certification saves a row with no anchor.  content_hash is UNIQUE, the  *)
(* id is fresh, and created_at was taken by the handler some time before   *)
(* the insert, so it bears no relation to the order of the inserts.        *)
(***************************************************************************)
Certify(c, m, t) ==
  /\ certs[c].state = "unissued"
  /\ \A d \in CertIds : Live(d) => certs[d].content # m
  /\ certs' = [certs EXCEPT ![c] = Row("live", m, t)]
  /\ UNCHANGED <<anchors, chainVars, workerVars>>

(* An administrator deletes a certificate, anchored or not.                *)
Delete(c) ==
  /\ "delete" \in Admits
  /\ Live(c)
  /\ certs' = [certs EXCEPT ![c] = Row("deleted", NoContent, 0)]
  /\ UNCHANGED <<anchors, chainVars, workerVars>>

-----------------------------------------------------------------------------
(* The worker: AnchorUseCase.RunOnce, one action per round trip.           *)

(* The pass ends: the stack frame is gone, and with it the transaction     *)
(* hash, so no receipt will be asked for again.                            *)
EndPass(w) ==
  /\ pc' = [pc EXCEPT ![w] = "idle"]
  /\ batch' = [batch EXCEPT ![w] = << >>]
  /\ receipt' = [receipt EXCEPT ![w] = "none"]

(* The mempool once w no longer polls for its transaction.                 *)
Unwatched(w) ==
  [i \in DOMAIN mempool |->
     [mempool[i] EXCEPT !.watcher = IF @ = w THEN NoWorker ELSE @]]

(* Nothing pending: the pass returns without doing anything.               *)
NothingPending(w) ==
  /\ pc[w] = "idle"
  /\ Waiting = {}
  /\ UNCHANGED vars

ReadPending(w) ==
  /\ pc[w] = "idle"
  /\ Waiting # {}
  /\ \E ids \in PendingLeaves :
       batch' = [batch EXCEPT ![w] =
                   [i \in DOMAIN ids |-> [id |-> ids[i], content |-> certs[ids[i]].content]]]
  /\ pc' = [pc EXCEPT ![w] = "batched"]
  /\ UNCHANGED <<dbVars, chainVars>>

Tx(w, watcher) == [root |-> Root(w), count |-> Count(w), watcher |-> watcher]

(* Mutated: reports success as soon as the transaction is sent.            *)
Broadcast_NoWait(w) ==
  /\ pc[w] = "batched"
  /\ Len(mempool) < MaxPool
  /\ mempool' = Append(mempool, Tx(w, NoWorker))
  /\ pc' = [pc EXCEPT ![w] = "confirmed"]
  /\ UNCHANGED <<dbVars, registry, paused, receipt, batch>>

(* eth_sendRawTransaction succeeds: the worker has the hash and polls.     *)
Broadcast(w) ==
  /\ pc[w] = "batched"
  /\ Len(mempool) < MaxPool
  /\ mempool' = Append(mempool, Tx(w, w))
  /\ pc' = [pc EXCEPT ![w] = "polling"]
  /\ UNCHANGED <<dbVars, registry, paused, receipt, batch>>

(***************************************************************************)
(* The node took the transaction but its answer never arrived: the client  *)
(* returns an empty hash, recordUnconfirmed returns early, the pass ends.  *)
(***************************************************************************)
BroadcastLost(w) ==
  /\ "lost" \in Admits
  /\ pc[w] = "batched"
  /\ Len(mempool) < MaxPool
  /\ mempool' = Append(mempool, Tx(w, NoWorker))
  /\ EndPass(w)
  /\ UNCHANGED <<dbVars, registry, paused>>

(* The nonce, gas price or send call fails and nothing was broadcast.      *)
BroadcastRejected(w) ==
  /\ pc[w] = "batched"
  /\ EndPass(w)
  /\ UNCHANGED <<dbVars, registry, paused, mempool>>

ReceiptSuccess(w) ==
  /\ pc[w] = "polling"
  /\ receipt[w] = "success"
  /\ pc' = [pc EXCEPT ![w] = "confirmed"]
  /\ UNCHANGED <<dbVars, chainVars, batch>>

(* Mutated: any receipt with a block number counts as success.             *)
ReceiptReverted_Unchecked(w) ==
  /\ pc[w] = "polling"
  /\ receipt[w] = "reverted"
  /\ pc' = [pc EXCEPT ![w] = "confirmed"]
  /\ UNCHANGED <<dbVars, chainVars, batch>>

(* status 0x0: an error, with the hash.                                    *)
ReceiptReverted(w) ==
  /\ pc[w] = "polling"
  /\ receipt[w] = "reverted"
  /\ pc' = [pc EXCEPT ![w] = "unconfirmed"]
  /\ UNCHANGED <<dbVars, chainVars, batch>>

InFlight(w) == \E i \in DOMAIN mempool : mempool[i].watcher = w

(* Mutated: the hash is dropped with the error.                            *)
GiveUp_DropsHash(w) ==
  /\ pc[w] = "polling"
  /\ "late" \in Admits \/ (~ InFlight(w) /\ receipt[w] = "none")
  /\ EndPass(w)
  /\ mempool' = Unwatched(w)
  /\ UNCHANGED <<dbVars, registry, paused>>

(* Mutated: the receipt is awaited with no deadline.                       *)
GiveUp_NoDeadline(w) ==
  /\ pc[w] = "polling"
  /\ "late" \in Admits /\ receipt[w] # "none"
  /\ pc' = [pc EXCEPT ![w] = "unconfirmed"]
  /\ mempool' = Unwatched(w)
  /\ UNCHANGED <<dbVars, registry, paused, receipt, batch>>

(***************************************************************************)
(* The receipt budget runs out or the context is cancelled: an error, with *)
(* the hash.  A receipt may exist by then (the polls that would have seen  *)
(* it failed, or carried an unreadable block number); "late" admits giving *)
(* up on a transaction that is still in flight or already mined.           *)
(***************************************************************************)
GiveUp(w) ==
  /\ pc[w] = "polling"
  /\ "late" \in Admits \/ (~ InFlight(w) /\ receipt[w] = "none")
  /\ pc' = [pc EXCEPT ![w] = "unconfirmed"]
  /\ mempool' = Unwatched(w)
  /\ UNCHANGED <<dbVars, registry, paused, receipt, batch>>

(***************************************************************************)
(* recordUnconfirmed: the hash is filed under an anchor row with status    *)
(* pending that no certificate references.  Rows of equal root and status  *)
(* are one element of anchors: their hashes are not told apart.            *)
(***************************************************************************)
AnchorRow(w, status) == [root |-> Root(w), count |-> Count(w), status |-> status]

RecordUnconfirmed(w) ==
  /\ pc[w] = "unconfirmed"
  /\ anchors' = anchors \cup {AnchorRow(w, "pending")}
  /\ EndPass(w)
  /\ UNCHANGED <<certs, registry, paused, mempool>>

(* Best effort: a failed write is logged and forgotten.                    *)
RecordUnconfirmedFails(w) ==
  /\ "recordFails" \in Admits
  /\ pc[w] = "unconfirmed"
  /\ EndPass(w)
  /\ UNCHANGED <<dbVars, registry, paused, mempool>>

(* Mutated: proofs are attached one position off.                          *)
AttachBatch_Shifted(w) ==
  [c \in CertIds |->
     IF Live(c) /\ \E i \in DOMAIN batch[w] : batch[w][i].id = c
     THEN LET i == CHOOSE i \in DOMAIN batch[w] : batch[w][i].id = c
          IN  [certs[c] EXCEPT !.anchor = Root(w), !.leafIndex = i - 1,
                               !.proof = MerkleProof(Leaves(batch[w]), 1)]
     ELSE certs[c]]

(***************************************************************************)
(* SaveAnchor: one SQL transaction inserts the confirmed row and updates   *)
(* every certificate of the batch by id.  A row deleted meanwhile matches  *)
(* nothing and is skipped; the update does not ask whether a row already   *)
(* has an anchor.                                                          *)
(***************************************************************************)
AttachBatch(w) ==
  [c \in CertIds |->
     IF Live(c) /\ \E i \in DOMAIN batch[w] : batch[w][i].id = c
     THEN LET i == CHOOSE i \in DOMAIN batch[w] : batch[w][i].id = c
          IN  [certs[c] EXCEPT !.anchor = Root(w), !.leafIndex = i - 1,
                               !.proof = MerkleProof(Leaves(batch[w]), i)]
     ELSE certs[c]]

SaveAnchor(w) ==
  /\ pc[w] = "confirmed"
  /\ anchors' = anchors \cup {AnchorRow(w, "confirmed")}
  /\ certs' = AttachBatch(w)
  /\ EndPass(w)
  /\ UNCHANGED <<registry, paused, mempool>>

(* The transaction rolls back; the pass returns the error.                 *)
SaveAnchorFails(w) ==
  /\ "saveFails" \in Admits
  /\ pc[w] = "confirmed"
  /\ EndPass(w)
  /\ UNCHANGED <<dbVars, registry, paused, mempool>>

(* The process dies mid-pass, or exits without joining the worker.         *)
Crash(w) ==
  /\ "crash" \in Admits
  /\ pc[w] # "idle"
  /\ EndPass(w)
  /\ mempool' = Unwatched(w)
  /\ UNCHANGED <<dbVars, registry, paused>>

-----------------------------------------------------------------------------
(* The chain.                                                              *)

(* The oldest transaction in the mempool is mined with the given outcome.  *)
Mine(outcome) ==
  /\ mempool' = Tail(mempool)
  /\ receipt' = [w \in Workers |->
                   IF w = Head(mempool).watcher THEN outcome ELSE receipt[w]]
  /\ UNCHANGED <<dbVars, paused, workerVars>>

(* AnchorRegistry.anchor accepts a root it has never seen.                 *)
MineAnchors ==
  /\ mempool # << >>
  /\ ~ paused
  /\ Head(mempool).root \notin AnchoredRoots
  /\ registry' = registry \cup {[root |-> Head(mempool).root, count |-> Head(mempool).count]}
  /\ Mine("success")

(* whenNotPaused, or RootAlreadyAnchored.                                  *)
MineReverts ==
  /\ mempool # << >>
  /\ paused \/ Head(mempool).root \in AnchoredRoots
  /\ UNCHANGED registry
  /\ Mine("reverted")

(* A node evicts a transaction; it will never be mined.                    *)
Drop(k) ==
  /\ "drop" \in Admits
  /\ mempool' = [i \in 1..(Len(mempool) - 1) |-> IF i < k THEN mempool[i] ELSE mempool[i + 1]]
  /\ UNCHANGED <<dbVars, registry, paused, receipt, workerVars>>

Pause   == "pause" \in Admits /\ ~ paused /\ paused' = TRUE
           /\ UNCHANGED <<dbVars, registry, mempool, receipt, workerVars>>
Unpause == paused /\ paused' = FALSE
           /\ UNCHANGED <<dbVars, registry, mempool, receipt, workerVars>>

-----------------------------------------------------------------------------
Handlers ==
  \/ \E c \in CertIds, m \in Contents, t \in Times : Certify(c, m, t)
  \/ \E c \in CertIds : Delete(c)

Worker(w) ==
  \/ NothingPending(w) \/ ReadPending(w)
  \/ Broadcast(w) \/ BroadcastLost(w) \/ BroadcastRejected(w)
  \/ ReceiptSuccess(w) \/ ReceiptReverted(w) \/ GiveUp(w)
  \/ RecordUnconfirmed(w) \/ RecordUnconfirmedFails(w)
  \/ SaveAnchor(w) \/ SaveAnchorFails(w) \/ Crash(w)

Chain ==
  \/ MineAnchors \/ MineReverts
  \/ \E k \in DOMAIN mempool : Drop(k)
  \/ Pause \/ Unpause

Next == Handlers \/ (\E w \in Workers : Worker(w)) \/ Chain

Spec == Init /\ [][Next]_vars

(***************************************************************************)
(* Fairness.  The ticker starts passes for as long as the process lives    *)
(* and every round trip returns (rpcTimeout, the receipt deadline, the     *)
(* write timeout), so the worker's own steps are weakly fair.  That the    *)
(* node is reachable again after rejecting a send, and that a transaction  *)
(* which keeps being re-sent is mined in the end, is what the operator     *)
(* provides: strong fairness.  Handlers, faults and Pause get none.        *)
(***************************************************************************)
Fairness ==
  /\ \A w \in Workers :
       /\ WF_vars(ReadPending(w))
       /\ SF_vars(Broadcast(w))
       /\ WF_vars(ReceiptSuccess(w) \/ ReceiptReverted(w) \/ GiveUp(w))
       /\ WF_vars(RecordUnconfirmed(w) \/ RecordUnconfirmedFails(w))
       /\ WF_vars(SaveAnchor(w) \/ SaveAnchorFails(w))
  /\ SF_vars(MineAnchors)
  /\ WF_vars(MineAnchors \/ MineReverts)

FairSpec == Spec /\ Fairness

-----------------------------------------------------------------------------
(* Properties.                                                             *)

CertRows ==
  [state : {"unissued", "live", "deleted"}, content : Contents \cup {NoContent},
   createdAt : Times \cup {0}, anchor : Roots \cup {NoAnchor},
   leafIndex : 0..BatchSize, proof : Proofs \cup {<< >>}]
BatchEntries == [id : CertIds, content : Contents]
Commitments  == [root : Roots, count : 1..BatchSize]

(* Every variable holds values the code can produce.                       *)
TypeOK ==
  /\ certs \in [CertIds -> CertRows]
  /\ anchors \subseteq [root : Roots, count : 1..BatchSize, status : {"pending", "confirmed"}]
  /\ registry \subseteq Commitments
  /\ paused \in BOOLEAN
  /\ mempool \in Seq([root : Roots, count : 1..BatchSize, watcher : Workers \cup {NoWorker}])
  /\ receipt \in [Workers -> {"none", "success", "reverted"}]
  /\ pc \in [Workers -> {"idle", "batched", "polling", "confirmed", "unconfirmed"}]
  /\ batch \in [Workers -> Seq(BatchEntries)]

(***************************************************************************)
(* What a certificate that claims an anchor promises its holder: the       *)
(* anchor row it references exists and is confirmed, its root really is in *)
(* the contract with that leaf count, the leaf index is inside the batch,  *)
(* and the stored proof climbs from the certificate's own leaf to that     *)
(* root.  Crashes, deletions, stale batches, reverted transactions and     *)
(* abandoned ones must not break it.                                       *)
(***************************************************************************)
AnchoredIsProvable ==
  \A c \in CertIds : Anchored(c) =>
    \E n \in 1..BatchSize :
      /\ [root |-> certs[c].anchor, count |-> n] \in registry
      /\ [root |-> certs[c].anchor, count |-> n, status |-> "confirmed"] \in anchors
      /\ certs[c].leafIndex < n
      /\ VerifyMerkleProof(certs[c].content, certs[c].anchor, certs[c].proof)

(* A confirmed anchor row is never ahead of the chain: its root was        *)
(* accepted by the contract with the row's leaf count.                     *)
ConfirmedIsOnChain ==
  \A a \in anchors : a.status = "confirmed" => [root |-> a.root, count |-> a.count] \in registry

(***************************************************************************)
(* The contract never re-dates a root, and a transaction that was told it  *)
(* succeeded is the one that anchored it: two workers that committed the   *)
(* same root are never both about to save it.                              *)
(***************************************************************************)
OneWinnerPerRoot ==
  \A v, w \in Workers :
    v # w /\ pc[v] = "confirmed" /\ pc[w] = "confirmed" => Root(v) # Root(w)

(***************************************************************************)
(* With one worker, an anchor is final: no later pass, retry or restart    *)
(* re-attaches a certificate or changes the proof already handed out.      *)
(***************************************************************************)
AnchorIsFinal ==
  [][\A c \in CertIds : Anchored(c) /\ certs'[c].state = "live" => certs'[c] = certs[c]]_certs

(***************************************************************************)
(* ports.go asks that a broadcast transaction never becomes a root on      *)
(* chain that nothing in the database refers to: every anchored root has   *)
(* an anchor row, or a worker still holds it.                              *)
(***************************************************************************)
Holds(w, r) == pc[w] \in {"polling", "confirmed", "unconfirmed"} /\ Root(w) = r

EveryRootAccounted ==
  \A r \in AnchoredRoots :
    (\E a \in anchors : a.root = r) \/ (\E w \in Workers : Holds(w, r))

(***************************************************************************)
(* Every certificate is eventually anchored, unless it is deleted: passes  *)
(* that fail leave the batch pending and a later tick retries it.          *)
(***************************************************************************)
Drains == \A c \in CertIds : Pending(c) ~> ~ Pending(c)

(***************************************************************************)
(* The only thing that can keep a certificate from being anchored is the   *)
(* contract refusing the root of the batch it waits behind: that root is   *)
(* already anchored, and no worker is left that would save it.  (A         *)
(* contract that is paused over and over is set aside.)                    *)
(***************************************************************************)
BatchRoots == {MerkleRoot([i \in DOMAIN ids |-> certs[ids[i]].content]) : ids \in PendingLeaves}

Orphaned ==
  /\ Waiting # {}
  /\ \E r \in BatchRoots \cap AnchoredRoots :
       ~ \E w \in Workers : Holds(w, r) /\ receipt[w] = "success"

StuckOnlyBehindOrphan ==
  <>[](~ paused) => \A c \in CertIds : Pending(c) ~> (~ Pending(c) \/ Orphaned)

-----------------------------------------------------------------------------
(* The inductive invariant behind the safety properties.                   *)

LiveHasContent == \A c \in CertIds : Live(c) => certs[c].content \in Contents

(* A pass works on a non-empty batch whose entries still name the rows     *)
(* they were read from, for as long as those rows exist.                   *)
BatchesAreCurrent ==
  \A w \in Workers :
    /\ pc[w] # "idle" => Count(w) \in 1..BatchSize
    /\ \A i \in DOMAIN batch[w] :
         /\ certs[batch[w][i].id].state # "unissued"
         /\ Live(batch[w][i].id) => certs[batch[w][i].id].content = batch[w][i].content

(* A transaction somebody polls for commits that worker's current batch,   *)
(* and nobody polls for two.                                               *)
WatchedCommitsBatch ==
  /\ \A i \in DOMAIN mempool, w \in Workers :
       mempool[i].watcher = w =>
         /\ pc[w] = "polling"
         /\ receipt[w] = "none"
         /\ mempool[i].root = Root(w)
         /\ mempool[i].count = Count(w)
  /\ \A i, j \in DOMAIN mempool :
       mempool[i].watcher = mempool[j].watcher /\ mempool[i].watcher \in Workers => i = j

(* A receipt belongs to the pass that reads it, and success means that     *)
(* the contract holds the root of that pass's batch.                       *)
ReceiptsAreTrue ==
  \A w \in Workers :
    /\ pc[w] \in {"idle", "batched"} => receipt[w] = "none"
    /\ pc[w] = "confirmed" => receipt[w] = "success"
    /\ receipt[w] = "success" => [root |-> Root(w), count |-> Count(w)] \in registry

OneReceiptPerRoot ==
  \A v, w \in Workers :
    v # w /\ receipt[v] = "success" /\ receipt[w] = "success" => Root(v) # Root(w)

IInv ==
  /\ TypeOK
  /\ LiveHasContent
  /\ BatchesAreCurrent
  /\ WatchedCommitsBatch
  /\ ReceiptsAreTrue
  /\ OneReceiptPerRoot
  /\ ConfirmedIsOnChain
  /\ AnchoredIsProvable

-----------------------------------------------------------------------------
(* The pipeline implements the ledger a certificate's holder relies on.    *)

LedgerHolding ==
  [c \in CertIds |->
     CASE certs[c].state = "unissued" -> [state |-> "absent"]
       [] certs[c].state = "deleted"  -> [state |-> "gone"]
       [] OTHER -> [state |-> "held", content |-> certs[c].content, under |-> certs[c].anchor]]

Commits == {p \in Roots \X Contents :
              \E l \in LeafSeqs : MerkleRoot(l) = p[1] /\ \E i \in DOMAIN l : l[i] = p[2]}

Ledger == INSTANCE AnchorLedger
          WITH holding <- LedgerHolding, published <- AnchoredRoots, Nothing <- NoAnchor

(* A certificate is placed only under a root already on chain that commits *)
(* it, a batch is placed at once, and no root is ever withdrawn.           *)
ImplementsLedger == Ledger!Spec
=============================================================================
