------------------------ MODULE AnchorPipelineProofs ------------------------
(***************************************************************************)
(* The safety properties of AnchorPipeline, for any set of certificates,   *)
(* any number of workers and any batch size, whatever failures occur.      *)
(***************************************************************************)
EXTENDS AnchorPipeline, MerkleTheorems, FiniteSetTheorems, SequenceTheorems, TLAPS

(* What a step that leaves a worker's batch alone leaves alone.            *)
LEMMA SameBatch ==
  ASSUME NEW w, batch'[w] = batch[w]
  PROVE  Root(w)' = Root(w) /\ Count(w)' = Count(w)
BY DEF Root, Count, Leaves

(* A pass commits one of the roots, and one of the proofs under it.        *)
LEMMA BatchCommits ==
  ASSUME TypeOK, BatchesAreCurrent, NEW w \in Workers, pc[w] # "idle"
  PROVE  /\ Count(w) \in 1..BatchSize
         /\ Leaves(batch[w]) \in Seq(Contents)
         /\ Leaves(batch[w]) \in LeafSeqs
         /\ DOMAIN Leaves(batch[w]) = DOMAIN batch[w]
         /\ DOMAIN batch[w] = 1..Count(w)
         /\ \A i \in DOMAIN batch[w] : Leaves(batch[w])[i] = batch[w][i].content
         /\ Root(w) \in Roots
         /\ \A i \in DOMAIN batch[w] : MerkleProof(Leaves(batch[w]), i) \in Proofs
<1> DEFINE b == batch[w]
           l == Leaves(b)
           n == Len(b)
<1>1. b \in Seq(BatchEntries) /\ n \in 1..BatchSize
  BY DEF TypeOK, BatchesAreCurrent, Count
<1>2. DOMAIN b = 1..n /\ \A i \in 1..n : b[i].content \in Contents
  <2> HIDE DEF b
  <2>1. DOMAIN b = 1..n /\ \A i \in 1..n : b[i] \in BatchEntries
    BY <1>1, BatchSizePositive
  <2> QED BY <2>1 DEF BatchEntries
<1>3. l = [i \in 1..n |-> b[i].content]
  BY <1>2 DEF Leaves
<1> HIDE DEF b, l, n
<1>4. l \in [1..n -> Contents]
  BY <1>2, <1>3
<1>5. l \in Seq(Contents) /\ n \in Nat
  BY <1>1, <1>4, BatchSizePositive, FunctionIsSeq
<1>6. l \in LeafSeqs
  BY <1>1, <1>4 DEF LeafSeqs
<1>7. MerkleRoot(l) \in Roots
  BY <1>6 DEF Roots
<1>8. \A i \in DOMAIN l : MerkleProof(l, i) \in Proofs
  BY <1>6 DEF Proofs
<1> QED
  BY <1>1, <1>2, <1>3, <1>5, <1>6, <1>7, <1>8 DEF Root, Count, b, l, n

LEMMA BatchLengthBounds ==
  /\ BatchLength \in 0..BatchSize
  /\ Waiting # {} => BatchLength \in 1..BatchSize
<1>1. IsFiniteSet(Waiting)
  BY FinitelyManyIds, FS_Subset DEF Waiting
<1>2. Cardinality(Waiting) \in Nat /\ (Cardinality(Waiting) = 0 <=> Waiting = {})
  BY <1>1, FS_CardinalityType, FS_EmptySet
<1> QED
  BY <1>2, BatchSizePositive DEF BatchLength

-----------------------------------------------------------------------------
(* Type correctness.                                                       *)

Txs == [root : Roots, count : 1..BatchSize, watcher : Workers \cup {NoWorker}]

LEMMA UnwatchedType ==
  ASSUME mempool \in Seq(Txs), NEW w
  PROVE  /\ Unwatched(w) \in Seq(Txs)
         /\ DOMAIN Unwatched(w) = DOMAIN mempool
         /\ \A i \in DOMAIN mempool :
              Unwatched(w)[i] = [mempool[i] EXCEPT !.watcher = IF @ = w THEN NoWorker ELSE @]
<1> DEFINE n == Len(mempool)
           u == Unwatched(w)
<1>1. n \in Nat /\ DOMAIN mempool = 1..n
  OBVIOUS
<1>2. ASSUME NEW i \in 1..n
      PROVE  [mempool[i] EXCEPT !.watcher = IF @ = w THEN NoWorker ELSE @] \in Txs
  <2>1. mempool[i] \in Txs
    BY <1>1
  <2> QED BY <2>1 DEF Txs
<1>3. u \in [1..n -> Txs]
  BY <1>1, <1>2 DEF Unwatched
<1> HIDE DEF n, u
<1>4. u \in Seq(Txs)
  BY <1>1, <1>3, FunctionIsSeq
<1> QED
  BY <1>1, <1>4 DEF Unwatched, u

LEMMA DropType ==
  ASSUME mempool \in Seq(Txs), NEW k \in DOMAIN mempool, Drop(k)
  PROVE  /\ mempool' \in Seq(Txs)
         /\ DOMAIN mempool' = 1..(Len(mempool) - 1)
         /\ \A i \in DOMAIN mempool' :
              mempool'[i] = IF i < k THEN mempool[i] ELSE mempool[i + 1]
<1> DEFINE n == Len(mempool)
<1>1. n \in Nat \ {0} /\ DOMAIN mempool = 1..n
  OBVIOUS
<1>2. mempool' = [i \in 1..(n - 1) |-> IF i < k THEN mempool[i] ELSE mempool[i + 1]]
  BY DEF Drop
<1>3. mempool' \in [1..(n - 1) -> Txs]
  BY <1>1, <1>2
<1> HIDE DEF n
<1>4. n - 1 \in Nat
  BY <1>1
<1>5. mempool' \in Seq(Txs)
  BY <1>3, <1>4, FunctionIsSeq
<1> QED
  BY <1>2, <1>5 DEF n

LEMMA TailType ==
  ASSUME mempool \in Seq(Txs), mempool # << >>
  PROVE  /\ Head(mempool) \in Txs
         /\ Head(mempool) = mempool[1]
         /\ 1 \in DOMAIN mempool
         /\ Tail(mempool) \in Seq(Txs)
         /\ \A i \in DOMAIN Tail(mempool) :
              i + 1 \in DOMAIN mempool /\ Tail(mempool)[i] = mempool[i + 1]
OBVIOUS

LEMMA AppendType ==
  ASSUME mempool \in Seq(Txs), NEW x \in Txs
  PROVE  /\ Append(mempool, x) \in Seq(Txs)
         /\ DOMAIN Append(mempool, x) = DOMAIN mempool \cup {Len(mempool) + 1}
         /\ Len(mempool) + 1 \notin DOMAIN mempool
         /\ Append(mempool, x)[Len(mempool) + 1] = x
         /\ \A i \in DOMAIN mempool : Append(mempool, x)[i] = mempool[i]
OBVIOUS

-----------------------------------------------------------------------------
(* What a step must respect to preserve each part of the invariant.        *)

(***************************************************************************)
(* Rows of a batch are never un-issued or rewritten, and a pass keeps the  *)
(* batch it read or drops it.                                              *)
(***************************************************************************)
LEMMA BatchesKept ==
  ASSUME TypeOK, BatchesAreCurrent,
         \A c \in CertIds : certs[c].state # "unissued" =>
            /\ certs'[c].state # "unissued"
            /\ certs'[c].state = "live" =>
                 certs[c].state = "live" /\ certs'[c].content = certs[c].content,
         \A v \in Workers : batch'[v] = batch[v] \/ batch'[v] = << >>,
         \A v \in Workers : pc'[v] # "idle" => pc[v] # "idle" /\ batch'[v] = batch[v]
  PROVE  BatchesAreCurrent'
<1> SUFFICES ASSUME NEW v \in Workers
             PROVE  /\ pc'[v] # "idle" => Count(v)' \in 1..BatchSize
                    /\ \A i \in DOMAIN batch'[v] :
                         /\ certs'[batch'[v][i].id].state # "unissued"
                         /\ certs'[batch'[v][i].id].state = "live" =>
                              certs'[batch'[v][i].id].content = batch'[v][i].content
  BY DEF BatchesAreCurrent, Live
<1>1. pc'[v] # "idle" => Count(v)' \in 1..BatchSize
  BY SameBatch DEF BatchesAreCurrent
<1>2. ASSUME NEW i \in DOMAIN batch'[v]
      PROVE  /\ certs'[batch'[v][i].id].state # "unissued"
             /\ certs'[batch'[v][i].id].state = "live" =>
                  certs'[batch'[v][i].id].content = batch'[v][i].content
  <2>1. batch'[v] = batch[v] /\ i \in DOMAIN batch[v]
    OBVIOUS
  <2>2. batch[v] \in Seq(BatchEntries)
    BY DEF TypeOK
  <2>3. batch[v][i] \in BatchEntries
    BY <2>1, <2>2
  <2>4. batch[v][i].id \in CertIds
    BY <2>3 DEF BatchEntries
  <2> QED BY <2>1, <2>4 DEF BatchesAreCurrent, Live
<1> QED BY <1>1, <1>2

(***************************************************************************)
(* Each transaction still watched was watched before, at position f[i],    *)
(* by a worker this step leaves alone.                                     *)
(***************************************************************************)
LEMMA WatchedKept ==
  ASSUME WatchedCommitsBatch, NEW f,
         \A i \in DOMAIN mempool' : mempool'[i].watcher \in Workers =>
            /\ f[i] \in DOMAIN mempool
            /\ mempool'[i] = mempool[f[i]]
            /\ pc'[mempool'[i].watcher] = pc[mempool'[i].watcher]
            /\ receipt'[mempool'[i].watcher] = receipt[mempool'[i].watcher]
            /\ batch'[mempool'[i].watcher] = batch[mempool'[i].watcher],
         \A i, j \in DOMAIN mempool' : f[i] = f[j] => i = j
  PROVE  WatchedCommitsBatch'
<1>1. ASSUME NEW i \in DOMAIN mempool', NEW v \in Workers, mempool'[i].watcher = v
      PROVE  /\ pc'[v] = "polling"
             /\ receipt'[v] = "none"
             /\ mempool'[i].root = Root(v)'
             /\ mempool'[i].count = Count(v)'
  <2>1. Root(v)' = Root(v) /\ Count(v)' = Count(v)
    BY <1>1, SameBatch
  <2> QED BY <1>1, <2>1 DEF WatchedCommitsBatch
<1>2. ASSUME NEW i \in DOMAIN mempool', NEW j \in DOMAIN mempool',
             mempool'[i].watcher = mempool'[j].watcher, mempool'[i].watcher \in Workers
      PROVE  i = j
  <2>1. f[i] = f[j]
    BY <1>2 DEF WatchedCommitsBatch
  <2> QED BY <2>1
<1> QED BY <1>1, <1>2 DEF WatchedCommitsBatch

(* The same when no transaction moves.                                     *)
LEMMA WatchedInPlace ==
  ASSUME WatchedCommitsBatch,
         \A i \in DOMAIN mempool' : mempool'[i].watcher \in Workers =>
            /\ i \in DOMAIN mempool
            /\ mempool'[i] = mempool[i]
            /\ pc'[mempool'[i].watcher] = pc[mempool'[i].watcher]
            /\ receipt'[mempool'[i].watcher] = receipt[mempool'[i].watcher]
            /\ batch'[mempool'[i].watcher] = batch[mempool'[i].watcher]
  PROVE  WatchedCommitsBatch'
<1> DEFINE f == [i \in DOMAIN mempool' |-> i]
<1>1. \A i \in DOMAIN mempool' : f[i] = i
  OBVIOUS
<1> HIDE DEF f
<1> QED BY <1>1, WatchedKept

(* No receipt is invented, and none outlives the pass it belongs to.       *)
LEMMA ReceiptsKept ==
  ASSUME ReceiptsAreTrue, OneReceiptPerRoot, registry \subseteq registry',
         \A v \in Workers : receipt'[v] = "success" =>
            receipt[v] = "success" /\ batch'[v] = batch[v],
         \A v \in Workers : pc'[v] \in {"idle", "batched"} => receipt'[v] = "none",
         \A v \in Workers : pc'[v] = "confirmed" => receipt'[v] = "success"
  PROVE  ReceiptsAreTrue' /\ OneReceiptPerRoot'
<1>1. \A v \in Workers : receipt'[v] = "success" =>
         Root(v)' = Root(v) /\ Count(v)' = Count(v)
  BY SameBatch
<1> QED BY <1>1 DEF ReceiptsAreTrue, OneReceiptPerRoot

(* Rows that are anchored after the step were before; nothing is removed   *)
(* from the contract or from the anchors table.                            *)
LEMMA AnchorsKept ==
  ASSUME ConfirmedIsOnChain, AnchoredIsProvable,
         registry \subseteq registry', anchors \subseteq anchors',
         \A a \in anchors' \ anchors : a.status # "confirmed",
         \A c \in CertIds : certs'[c].state = "live" /\ certs'[c].anchor # NoAnchor =>
            certs'[c] = certs[c]
  PROVE  ConfirmedIsOnChain' /\ AnchoredIsProvable'
BY DEF ConfirmedIsOnChain, AnchoredIsProvable, Anchored, Live

-----------------------------------------------------------------------------
(* The request handlers.                                                   *)

LEMMA CertifyStep ==
  ASSUME IInv, NEW c \in CertIds, NEW m \in Contents, NEW t \in Times, Certify(c, m, t)
  PROVE  IInv'
<1> DEFINE row == Row("live", m, t)
<1>1. certs' = [certs EXCEPT ![c] = row] /\ certs[c].state = "unissued"
  BY DEF Certify
<1>2. row = [state |-> "live", content |-> m, createdAt |-> t, anchor |-> NoAnchor,
             leafIndex |-> 0, proof |-> << >>]
  BY DEF Row
<1>3. row \in CertRows
  BY <1>2, BatchSizePositive DEF CertRows
<1> HIDE DEF row
<1>4. UNCHANGED <<anchors, registry, paused, mempool, receipt, pc, batch>>
  BY DEF Certify, chainVars, workerVars
<1>5. TypeOK'
  BY <1>1, <1>3, <1>4 DEF IInv, TypeOK
<1>6. certs \in [CertIds -> CertRows]
  BY DEF IInv, TypeOK
<1>7. BatchesAreCurrent'
  BY <1>1, <1>4, <1>6, BatchesKept DEF IInv
<1>11. LiveHasContent'
  BY <1>1, <1>2, <1>6 DEF IInv, LiveHasContent, Live
<1>8. WatchedCommitsBatch' /\ ReceiptsAreTrue' /\ OneReceiptPerRoot'
  BY <1>4 DEF IInv, WatchedCommitsBatch, ReceiptsAreTrue, OneReceiptPerRoot, Root, Count, Leaves
<1>9. ASSUME NEW d \in CertIds, certs'[d].state = "live", certs'[d].anchor # NoAnchor
      PROVE  certs'[d] = certs[d]
  <2>1. row.anchor = NoAnchor
    BY <1>2
  <2> QED BY <1>1, <1>6, <1>9, <2>1
<1>10. ConfirmedIsOnChain' /\ AnchoredIsProvable'
  BY <1>4, <1>9, AnchorsKept DEF IInv
<1> QED BY <1>5, <1>7, <1>8, <1>10, <1>11 DEF IInv

LEMMA DeleteStep ==
  ASSUME IInv, NEW c \in CertIds, Delete(c)
  PROVE  IInv'
<1> DEFINE row == Row("deleted", NoContent, 0)
<1>1. certs' = [certs EXCEPT ![c] = row]
  BY DEF Delete
<1>2. row \in CertRows /\ row.state = "deleted"
  BY BatchSizePositive DEF CertRows, Row
<1> HIDE DEF row
<1>4. UNCHANGED <<anchors, registry, paused, mempool, receipt, pc, batch>>
  BY DEF Delete, chainVars, workerVars
<1>5. TypeOK'
  BY <1>1, <1>2, <1>4 DEF IInv, TypeOK
<1>6. certs \in [CertIds -> CertRows]
  BY DEF IInv, TypeOK
<1>7. BatchesAreCurrent'
  BY <1>1, <1>2, <1>4, <1>6, BatchesKept DEF IInv
<1>11. LiveHasContent'
  BY <1>1, <1>2, <1>6 DEF IInv, LiveHasContent, Live
<1>8. WatchedCommitsBatch' /\ ReceiptsAreTrue' /\ OneReceiptPerRoot'
  BY <1>4 DEF IInv, WatchedCommitsBatch, ReceiptsAreTrue, OneReceiptPerRoot, Root, Count, Leaves
<1>9. ConfirmedIsOnChain' /\ AnchoredIsProvable'
  BY <1>1, <1>2, <1>4, <1>6, AnchorsKept DEF IInv
<1> QED BY <1>5, <1>7, <1>8, <1>9, <1>11 DEF IInv

-----------------------------------------------------------------------------
(* The worker.                                                             *)

LEMMA ReadPendingStep ==
  ASSUME IInv, NEW w \in Workers, ReadPending(w)
  PROVE  IInv'
<1>1. PICK ids \in PendingLeaves :
         batch' = [batch EXCEPT ![w] =
                     [i \in DOMAIN ids |-> [id |-> ids[i], content |-> certs[ids[i]].content]]]
  BY DEF ReadPending
<1> DEFINE n == BatchLength
           b == [i \in DOMAIN ids |-> [id |-> ids[i], content |-> certs[ids[i]].content]]
<1>2. n \in 1..BatchSize
  BY BatchLengthBounds DEF ReadPending
<1>3. ids \in [1..n -> Waiting]
  BY DEF PendingLeaves
<1>4. UNCHANGED <<certs, anchors, registry, paused, mempool, receipt>>
  BY DEF ReadPending, dbVars, chainVars
<1>5. pc' = [pc EXCEPT ![w] = "batched"] /\ pc[w] = "idle"
  BY DEF ReadPending
<1>6. /\ certs \in [CertIds -> CertRows]
      /\ pc \in [Workers -> {"idle", "batched", "polling", "confirmed", "unconfirmed"}]
      /\ batch \in [Workers -> Seq(BatchEntries)]
  BY DEF IInv, TypeOK
<1> HIDE DEF n
<1>7. ASSUME NEW i \in 1..n
      PROVE  /\ b[i].id \in CertIds
             /\ certs[b[i].id].state = "live"
             /\ b[i].content = certs[b[i].id].content
             /\ b[i] \in BatchEntries
  <2>1. ids[i] \in Waiting
    BY <1>3
  <2>2. ids[i] \in CertIds /\ certs[ids[i]].state = "live"
    BY <2>1 DEF Waiting, Pending, Live
  <2> DEFINE k == certs[ids[i]].content
  <2>3. b[i] = [id |-> ids[i], content |-> k]
    BY <1>3
  <2>4. k \in Contents
    BY <2>2 DEF IInv, LiveHasContent, Live
  <2> HIDE DEF k, b
  <2>5. b[i].id = ids[i] /\ b[i].content = k /\ b[i] \in BatchEntries
    BY <2>2, <2>3, <2>4 DEF BatchEntries
  <2> QED BY <2>2, <2>5 DEF k
<1>8. DOMAIN b = 1..n
  BY <1>3
<1>9. batch' = [batch EXCEPT ![w] = b]
  BY <1>1
<1> HIDE DEF b
<1>10. b \in Seq(BatchEntries) /\ Len(b) = n
  <2>1. b \in [1..n -> BatchEntries]
    BY <1>1, <1>3, <1>7 DEF b
  <2> QED BY <1>2, <2>1, BatchSizePositive, FunctionIsSeq
<1>11. TypeOK'
  BY <1>4, <1>5, <1>6, <1>9, <1>10 DEF IInv, TypeOK
<1>12. LiveHasContent'
  BY <1>4 DEF IInv, LiveHasContent, Live
<1>13. BatchesAreCurrent'
  <2> SUFFICES ASSUME NEW v \in Workers
               PROVE  /\ pc'[v] # "idle" => Len(batch'[v]) \in 1..BatchSize
                      /\ \A i \in DOMAIN batch'[v] :
                           /\ certs[batch'[v][i].id].state # "unissued"
                           /\ certs[batch'[v][i].id].state = "live" =>
                                certs[batch'[v][i].id].content = batch'[v][i].content
    BY <1>4 DEF BatchesAreCurrent, Live, Count
  <2>1. CASE v = w
    BY <2>1, <1>2, <1>6, <1>7, <1>8, <1>9, <1>10
  <2>2. CASE v # w
    <3>1. pc'[v] = pc[v] /\ batch'[v] = batch[v]
      BY <2>2, <1>5, <1>6, <1>9
    <3> QED BY <3>1 DEF IInv, BatchesAreCurrent, Live, Count
  <2> QED BY <2>1, <2>2
<1>15. WatchedCommitsBatch'
  <2>1. ASSUME NEW i \in DOMAIN mempool, mempool[i].watcher \in Workers
        PROVE  LET v == mempool[i].watcher
               IN  pc'[v] = pc[v] /\ batch'[v] = batch[v]
    <3>1. pc[mempool[i].watcher] = "polling"
      BY <2>1 DEF IInv, WatchedCommitsBatch
    <3> QED BY <2>1, <3>1, <1>5, <1>6, <1>9
  <2> QED BY <1>4, <2>1, WatchedInPlace DEF IInv
<1>16. receipt[w] = "none"
  BY <1>5 DEF IInv, ReceiptsAreTrue
<1>17. ReceiptsAreTrue' /\ OneReceiptPerRoot'
  BY <1>4, <1>5, <1>6, <1>9, <1>16, ReceiptsKept DEF IInv, ReceiptsAreTrue
<1>18. ConfirmedIsOnChain' /\ AnchoredIsProvable'
  BY <1>4, AnchorsKept DEF IInv
<1> QED BY <1>11, <1>12, <1>13, <1>15, <1>17, <1>18 DEF IInv

(* The state components of a worker, as TypeOK types them.                 *)
LEMMA WorkerTypes ==
  ASSUME TypeOK
  PROVE  /\ certs \in [CertIds -> CertRows]
         /\ mempool \in Seq(Txs)
         /\ receipt \in [Workers -> {"none", "success", "reverted"}]
         /\ pc \in [Workers -> {"idle", "batched", "polling", "confirmed", "unconfirmed"}]
         /\ batch \in [Workers -> Seq(BatchEntries)]
BY DEF TypeOK, Txs

(* A pass that ends, with no transaction of its own left watched.          *)
LEMMA EndPassStep ==
  ASSUME IInv, NEW w \in Workers, EndPass(w), registry' = registry,
         \A c \in CertIds : certs[c].state # "unissued" =>
            /\ certs'[c].state # "unissued"
            /\ certs'[c].state = "live" =>
                 certs[c].state = "live" /\ certs'[c].content = certs[c].content,
         \A i \in DOMAIN mempool' : mempool'[i].watcher \in Workers =>
            mempool'[i].watcher # w /\ i \in DOMAIN mempool /\ mempool'[i] = mempool[i]
  PROVE  /\ receipt' \in [Workers -> {"none", "success", "reverted"}]
         /\ pc' \in [Workers -> {"idle", "batched", "polling", "confirmed", "unconfirmed"}]
         /\ batch' \in [Workers -> Seq(BatchEntries)]
         /\ BatchesAreCurrent'
         /\ WatchedCommitsBatch'
         /\ ReceiptsAreTrue'
         /\ OneReceiptPerRoot'
<1>1. /\ pc' = [pc EXCEPT ![w] = "idle"]
      /\ batch' = [batch EXCEPT ![w] = << >>]
      /\ receipt' = [receipt EXCEPT ![w] = "none"]
  BY DEF EndPass
<1>2. TypeOK /\ WatchedCommitsBatch /\ BatchesAreCurrent /\ ReceiptsAreTrue /\ OneReceiptPerRoot
  BY DEF IInv
<1>3. << >> \in Seq(BatchEntries)
  OBVIOUS
<1>4. \A v \in Workers : v # w =>
         pc'[v] = pc[v] /\ batch'[v] = batch[v] /\ receipt'[v] = receipt[v]
  BY <1>1, <1>2, WorkerTypes
<1>5. pc'[w] = "idle" /\ batch'[w] = << >> /\ receipt'[w] = "none"
  BY <1>1, <1>2, WorkerTypes
<1>6. /\ receipt' \in [Workers -> {"none", "success", "reverted"}]
      /\ pc' \in [Workers -> {"idle", "batched", "polling", "confirmed", "unconfirmed"}]
      /\ batch' \in [Workers -> Seq(BatchEntries)]
  BY <1>1, <1>2, <1>3, WorkerTypes
<1>7. BatchesAreCurrent'
  BY <1>2, <1>4, <1>5, BatchesKept
<1>8. WatchedCommitsBatch'
  BY <1>2, <1>4, WatchedInPlace
<1>9. ReceiptsAreTrue' /\ OneReceiptPerRoot'
  BY <1>2, <1>4, <1>5, ReceiptsKept DEF ReceiptsAreTrue
<1> QED BY <1>6, <1>7, <1>8, <1>9

(* A worker that is not polling watches nothing.                           *)
LEMMA NobodyElseWatches ==
  ASSUME IInv, NEW w \in Workers, pc[w] # "polling", NEW i \in DOMAIN mempool
  PROVE  mempool[i].watcher # w
BY DEF IInv, WatchedCommitsBatch

(* What Unwatched leaves watched.                                          *)
LEMMA UnwatchedWatches ==
  ASSUME IInv, NEW w \in Workers
  PROVE  /\ Unwatched(w) \in Seq(Txs)
         /\ \A i \in DOMAIN Unwatched(w) : Unwatched(w)[i].watcher \in Workers =>
              Unwatched(w)[i].watcher # w /\ i \in DOMAIN mempool /\ Unwatched(w)[i] = mempool[i]
<1>1. mempool \in Seq(Txs)
  BY WorkerTypes DEF IInv
<1>2. /\ Unwatched(w) \in Seq(Txs)
      /\ DOMAIN Unwatched(w) = DOMAIN mempool
      /\ \A i \in DOMAIN mempool :
           Unwatched(w)[i] = [mempool[i] EXCEPT !.watcher = IF @ = w THEN NoWorker ELSE @]
  BY <1>1, UnwatchedType
<1>3. ASSUME NEW i \in DOMAIN mempool, Unwatched(w)[i].watcher \in Workers
      PROVE  Unwatched(w)[i].watcher # w /\ Unwatched(w)[i] = mempool[i]
  <2> DEFINE tx == mempool[i]
  <2>1. tx \in Txs
    BY <1>1
  <2>2. Unwatched(w)[i] = [tx EXCEPT !.watcher = IF @ = w THEN NoWorker ELSE @]
    BY <1>2
  <2> HIDE DEF tx
  <2>3. CASE tx.watcher = w
    <3>1. Unwatched(w)[i].watcher = NoWorker
      BY <2>1, <2>2, <2>3 DEF Txs
    <3> QED BY <3>1, <1>3, WorkerNull
  <2>4. CASE tx.watcher # w
    <3>1. Unwatched(w)[i] = tx
      BY <2>1, <2>2, <2>4 DEF Txs
    <3> QED BY <3>1, <2>4 DEF tx
  <2> QED BY <2>3, <2>4
<1> QED BY <1>2, <1>3

(* A pass that ends without touching the certificates.                     *)
LEMMA EmptyHandedStep ==
  ASSUME IInv, NEW w \in Workers, EndPass(w), UNCHANGED <<certs, registry, paused>>,
         anchors \subseteq anchors',
         anchors' \subseteq [root : Roots, count : 1..BatchSize, status : {"pending", "confirmed"}],
         \A a \in anchors' \ anchors : a.status # "confirmed",
         mempool' \in Seq(Txs),
         \A i \in DOMAIN mempool' : mempool'[i].watcher \in Workers =>
            mempool'[i].watcher # w /\ i \in DOMAIN mempool /\ mempool'[i] = mempool[i]
  PROVE  IInv'
<1>1. /\ receipt' \in [Workers -> {"none", "success", "reverted"}]
      /\ pc' \in [Workers -> {"idle", "batched", "polling", "confirmed", "unconfirmed"}]
      /\ batch' \in [Workers -> Seq(BatchEntries)]
      /\ BatchesAreCurrent' /\ WatchedCommitsBatch' /\ ReceiptsAreTrue' /\ OneReceiptPerRoot'
  BY EndPassStep
<1>2. TypeOK'
  BY <1>1 DEF IInv, TypeOK, Txs
<1>3. LiveHasContent'
  BY DEF IInv, LiveHasContent, Live
<1>4. ConfirmedIsOnChain' /\ AnchoredIsProvable'
  BY AnchorsKept DEF IInv
<1> QED BY <1>1, <1>2, <1>3, <1>4 DEF IInv

LEMMA EndPassQuietly ==
  ASSUME IInv, NEW w \in Workers,
         \/ BroadcastRejected(w)
         \/ RecordUnconfirmedFails(w)
         \/ SaveAnchorFails(w)
  PROVE  IInv'
<1>1. EndPass(w) /\ UNCHANGED <<certs, anchors, registry, paused, mempool>>
  BY DEF BroadcastRejected, RecordUnconfirmedFails, SaveAnchorFails, dbVars
<1>2. pc[w] # "polling"
  BY DEF BroadcastRejected, RecordUnconfirmedFails, SaveAnchorFails
<1>3. \A i \in DOMAIN mempool : mempool[i].watcher # w
  BY <1>2, NobodyElseWatches
<1>4. mempool \in Seq(Txs)
      /\ anchors \subseteq [root : Roots, count : 1..BatchSize, status : {"pending", "confirmed"}]
  BY WorkerTypes DEF IInv, TypeOK
<1> QED BY <1>1, <1>3, <1>4, EmptyHandedStep

LEMMA CrashStep ==
  ASSUME IInv, NEW w \in Workers, Crash(w)
  PROVE  IInv'
<1>1. EndPass(w) /\ UNCHANGED <<certs, anchors, registry, paused>> /\ mempool' = Unwatched(w)
  BY DEF Crash, dbVars
<1>2. anchors \subseteq [root : Roots, count : 1..BatchSize, status : {"pending", "confirmed"}]
  BY DEF IInv, TypeOK
<1> QED BY <1>1, <1>2, UnwatchedWatches, EmptyHandedStep

LEMMA BroadcastLostStep ==
  ASSUME IInv, NEW w \in Workers, BroadcastLost(w)
  PROVE  IInv'
<1> DEFINE tx == Tx(w, NoWorker)
<1>1. EndPass(w) /\ UNCHANGED <<certs, anchors, registry, paused>> /\ mempool' = Append(mempool, tx)
  BY DEF BroadcastLost, dbVars
<1>2. pc[w] = "batched"
  BY DEF BroadcastLost
<1>3. Root(w) \in Roots /\ Count(w) \in 1..BatchSize
  BY <1>2, BatchCommits DEF IInv
<1>4. tx \in Txs /\ tx.watcher = NoWorker
  BY <1>3 DEF Tx, Txs
<1> HIDE DEF tx
<1>5. /\ mempool \in Seq(Txs)
      /\ anchors \subseteq [root : Roots, count : 1..BatchSize, status : {"pending", "confirmed"}]
  BY WorkerTypes DEF IInv, TypeOK
<1>6. /\ mempool' \in Seq(Txs)
      /\ DOMAIN mempool' = DOMAIN mempool \cup {Len(mempool) + 1}
      /\ mempool'[Len(mempool) + 1] = tx
      /\ \A i \in DOMAIN mempool : mempool'[i] = mempool[i]
  BY <1>1, <1>4, <1>5, AppendType
<1>7. \A i \in DOMAIN mempool : mempool[i].watcher # w
  BY <1>2, NobodyElseWatches
<1>8. \A i \in DOMAIN mempool' : mempool'[i].watcher \in Workers =>
         mempool'[i].watcher # w /\ i \in DOMAIN mempool /\ mempool'[i] = mempool[i]
  BY <1>4, <1>6, <1>7, WorkerNull
<1> QED BY <1>1, <1>5, <1>6, <1>8, EmptyHandedStep

LEMMA RecordUnconfirmedStep ==
  ASSUME IInv, NEW w \in Workers, RecordUnconfirmed(w)
  PROVE  IInv'
<1> DEFINE a == AnchorRow(w, "pending")
<1>1. /\ EndPass(w) /\ UNCHANGED <<certs, registry, paused, mempool>>
      /\ anchors' = anchors \cup {a} /\ pc[w] = "unconfirmed"
  BY DEF RecordUnconfirmed
<1>2. Root(w) \in Roots /\ Count(w) \in 1..BatchSize
  BY <1>1, BatchCommits DEF IInv
<1>3. /\ a \in [root : Roots, count : 1..BatchSize, status : {"pending", "confirmed"}]
      /\ a.status # "confirmed"
  BY <1>2 DEF AnchorRow
<1> HIDE DEF a
<1>4. \A i \in DOMAIN mempool : mempool[i].watcher # w
  BY <1>1, NobodyElseWatches
<1>5. mempool \in Seq(Txs)
      /\ anchors \subseteq [root : Roots, count : 1..BatchSize, status : {"pending", "confirmed"}]
  BY WorkerTypes DEF IInv, TypeOK
<1> QED BY <1>1, <1>3, <1>4, <1>5, EmptyHandedStep

LEMMA BroadcastStep ==
  ASSUME IInv, NEW w \in Workers, Broadcast(w)
  PROVE  IInv'
<1> DEFINE tx == Tx(w, w)
           k == Len(mempool) + 1
<1>1. /\ pc[w] = "batched" /\ pc' = [pc EXCEPT ![w] = "polling"]
      /\ mempool' = Append(mempool, tx)
      /\ UNCHANGED <<certs, anchors, registry, paused, receipt, batch>>
  BY DEF Broadcast, dbVars
<1>2. Root(w) \in Roots /\ Count(w) \in 1..BatchSize
  BY <1>1, BatchCommits DEF IInv
<1>3. tx \in Txs /\ tx.watcher = w /\ tx.root = Root(w) /\ tx.count = Count(w)
  BY <1>2 DEF Tx, Txs
<1> HIDE DEF tx
<1>4. /\ mempool \in Seq(Txs)
      /\ pc \in [Workers -> {"idle", "batched", "polling", "confirmed", "unconfirmed"}]
  BY WorkerTypes DEF IInv
<1>5. /\ mempool' \in Seq(Txs)
      /\ DOMAIN mempool' = DOMAIN mempool \cup {k}
      /\ k \notin DOMAIN mempool
      /\ mempool'[k] = tx
      /\ \A i \in DOMAIN mempool : mempool'[i] = mempool[i]
  BY <1>1, <1>3, <1>4, AppendType
<1> HIDE DEF k
<1>6. \A i \in DOMAIN mempool : mempool[i].watcher # w
  BY <1>1, NobodyElseWatches
<1>7. pc'[w] = "polling" /\ \A v \in Workers : v # w => pc'[v] = pc[v]
  BY <1>1, <1>4
<1>8. TypeOK'
  BY <1>1, <1>4, <1>5 DEF IInv, TypeOK, Txs
<1>9. LiveHasContent'
  BY <1>1 DEF IInv, LiveHasContent, Live
<1>10. BatchesAreCurrent'
  BY <1>1, <1>7, BatchesKept DEF IInv
<1>11. \A v : Root(v)' = Root(v) /\ Count(v)' = Count(v)
  BY <1>1, SameBatch
<1>12. receipt[w] = "none"
  BY <1>1 DEF IInv, ReceiptsAreTrue
<1>13. WatchedCommitsBatch'
  <2>1. ASSUME NEW i \in DOMAIN mempool', NEW v \in Workers, mempool'[i].watcher = v
        PROVE  /\ pc'[v] = "polling" /\ receipt'[v] = "none"
               /\ mempool'[i].root = Root(v)' /\ mempool'[i].count = Count(v)'
    <3>1. CASE i = k
      BY <2>1, <3>1, <1>1, <1>3, <1>5, <1>7, <1>11, <1>12
    <3>2. CASE i \in DOMAIN mempool
      <4>1. mempool'[i] = mempool[i] /\ v # w
        BY <2>1, <3>2, <1>5, <1>6
      <4> QED BY <2>1, <3>2, <4>1, <1>1, <1>7, <1>11 DEF IInv, WatchedCommitsBatch
    <3> QED BY <3>1, <3>2, <1>5
  <2>2. ASSUME NEW i \in DOMAIN mempool', NEW j \in DOMAIN mempool',
               mempool'[i].watcher = mempool'[j].watcher, mempool'[i].watcher \in Workers
        PROVE  i = j
    BY <2>2, <1>3, <1>5, <1>6 DEF IInv, WatchedCommitsBatch
  <2> QED BY <2>1, <2>2 DEF WatchedCommitsBatch
<1>14. ReceiptsAreTrue' /\ OneReceiptPerRoot'
  BY <1>1, <1>7, ReceiptsKept DEF IInv, ReceiptsAreTrue
<1>15. ConfirmedIsOnChain' /\ AnchoredIsProvable'
  BY <1>1, AnchorsKept DEF IInv
<1> QED BY <1>8, <1>9, <1>10, <1>13, <1>14, <1>15 DEF IInv

(* The three ways polling ends.                                            *)
LEMMA PollingEndsStep ==
  ASSUME IInv, NEW w \in Workers, ReceiptSuccess(w) \/ ReceiptReverted(w) \/ GiveUp(w)
  PROVE  IInv'
<1>1. /\ pc[w] = "polling"
      /\ \/ pc' = [pc EXCEPT ![w] = "confirmed"] /\ receipt[w] = "success"
         \/ pc' = [pc EXCEPT ![w] = "unconfirmed"]
      /\ \/ mempool' = mempool /\ receipt[w] # "none"
         \/ mempool' = Unwatched(w)
      /\ UNCHANGED <<certs, anchors, registry, paused, receipt, batch>>
  BY DEF ReceiptSuccess, ReceiptReverted, GiveUp, dbVars, chainVars
<1>2. /\ mempool \in Seq(Txs)
      /\ pc \in [Workers -> {"idle", "batched", "polling", "confirmed", "unconfirmed"}]
  BY WorkerTypes DEF IInv
<1>3. /\ pc'[w] \in {"confirmed", "unconfirmed"}
      /\ pc'[w] = "confirmed" => receipt[w] = "success"
      /\ \A v \in Workers : v # w => pc'[v] = pc[v]
  BY <1>1, <1>2
<1>4. /\ mempool' \in Seq(Txs)
      /\ \A i \in DOMAIN mempool' : mempool'[i].watcher \in Workers =>
           mempool'[i].watcher # w /\ i \in DOMAIN mempool /\ mempool'[i] = mempool[i]
  <2>1. CASE mempool' = mempool /\ receipt[w] # "none"
    BY <2>1, <1>2 DEF IInv, WatchedCommitsBatch
  <2>2. CASE mempool' = Unwatched(w)
    BY <2>2, UnwatchedWatches
  <2> QED BY <1>1, <2>1, <2>2
<1>5. TypeOK'
  BY <1>1, <1>2, <1>4 DEF IInv, TypeOK, Txs
<1>6. LiveHasContent'
  BY <1>1 DEF IInv, LiveHasContent, Live
<1>7. BatchesAreCurrent'
  BY <1>1, <1>3, BatchesKept DEF IInv
<1>8. WatchedCommitsBatch'
  BY <1>1, <1>3, <1>4, WatchedInPlace DEF IInv
<1>9. ReceiptsAreTrue' /\ OneReceiptPerRoot'
  BY <1>1, <1>3, ReceiptsKept DEF IInv, ReceiptsAreTrue
<1>10. ConfirmedIsOnChain' /\ AnchoredIsProvable'
  BY <1>1, AnchorsKept DEF IInv
<1> QED BY <1>5, <1>6, <1>7, <1>8, <1>9, <1>10 DEF IInv

(* What SaveAnchor writes into a row of the batch.                         *)
LEMMA AttachedRow ==
  ASSUME IInv, NEW w \in Workers, pc[w] = "confirmed", NEW c \in CertIds
  PROVE  \/ AttachBatch(w)[c] = certs[c]
         \/ /\ certs[c].state = "live"
            /\ \E i \in 1..Count(w) :
                 /\ AttachBatch(w)[c] \in CertRows
                 /\ AttachBatch(w)[c].state = "live"
                 /\ AttachBatch(w)[c].content = certs[c].content
                 /\ AttachBatch(w)[c].anchor = Root(w)
                 /\ AttachBatch(w)[c].leafIndex = i - 1
                 /\ VerifyMerkleProof(certs[c].content, Root(w), AttachBatch(w)[c].proof)
<1> DEFINE b == batch[w]
           l == Leaves(b)
           Here == Live(c) /\ \E i \in DOMAIN b : b[i].id = c
           i == CHOOSE j \in DOMAIN b : b[j].id = c
           old == certs[c]
           new == [old EXCEPT !.anchor = Root(w), !.leafIndex = i - 1, !.proof = MerkleProof(l, i)]
<1>1. AttachBatch(w)[c] = IF Here THEN new ELSE old
  BY DEF AttachBatch
<1>2. CASE ~ Here
  BY <1>1, <1>2
<1>3. CASE Here
  <2>1. i \in DOMAIN b /\ b[i].id = c /\ old.state = "live"
    BY <1>3 DEF Live
  <2>2. /\ Count(w) \in 1..BatchSize /\ DOMAIN b = 1..Count(w)
        /\ l \in Seq(Contents) /\ DOMAIN l = DOMAIN b
        /\ l[i] = b[i].content
        /\ Root(w) \in Roots
        /\ MerkleProof(l, i) \in Proofs
        /\ Root(w) = MerkleRoot(l)
    BY <2>1, BatchCommits DEF IInv, Root
  <2>3. b[i].content = old.content
    BY <2>1 DEF IInv, BatchesAreCurrent, Live
  <2>4. old \in CertRows
    BY WorkerTypes DEF IInv
  <2>5. AttachBatch(w)[c] = new
    BY <1>1, <1>3
  <2> HIDE DEF b, l, i, old
  <2>6. VerifyMerkleProof(l[i], MerkleRoot(l), MerkleProof(l, i))
    BY <2>1, <2>2, MerkleProofsVerify
  <2>7. i \in 1..Count(w) /\ i - 1 \in 0..BatchSize
    BY <2>1, <2>2, BatchSizePositive
  <2> DEFINE r == Root(w)
             p == MerkleProof(l, i)
             x == i - 1
  <2> HIDE DEF r, p, x
  <2>9. r \in Roots /\ p \in Proofs /\ x \in 0..BatchSize
    BY <2>2, <2>7 DEF r, p, x
  <2>8. new = [old EXCEPT !.anchor = r, !.leafIndex = x, !.proof = p]
    BY DEF r, p, x
  <2> HIDE DEF new
  <2>10. /\ new \in CertRows /\ new.state = "live" /\ new.content = old.content
         /\ new.anchor = r /\ new.leafIndex = x /\ new.proof = p
    BY <2>1, <2>4, <2>8, <2>9 DEF CertRows
  <2> QED BY <2>1, <2>2, <2>3, <2>5, <2>6, <2>7, <2>10 DEF old, r, p, x
<1> QED BY <1>2, <1>3

LEMMA SaveAnchorStep ==
  ASSUME IInv, NEW w \in Workers, SaveAnchor(w)
  PROVE  IInv'
<1> DEFINE a == AnchorRow(w, "confirmed")
           n == Count(w)
<1>1. /\ pc[w] = "confirmed"
      /\ EndPass(w) /\ UNCHANGED <<registry, paused, mempool>>
      /\ anchors' = anchors \cup {a}
      /\ certs' = AttachBatch(w)
  BY DEF SaveAnchor
<1>2. Root(w) \in Roots /\ n \in 1..BatchSize
  BY <1>1, BatchCommits DEF IInv
<1>3. a \in [root : Roots, count : 1..BatchSize, status : {"pending", "confirmed"}]
      /\ a = [root |-> Root(w), count |-> n, status |-> "confirmed"]
  BY <1>2 DEF AnchorRow
<1>4. [root |-> Root(w), count |-> n] \in registry
  BY <1>1 DEF IInv, ReceiptsAreTrue
<1> HIDE DEF a, n
<1>5. \A c \in CertIds :
         \/ certs'[c] = certs[c]
         \/ /\ certs[c].state = "live"
            /\ \E i \in 1..n :
                 /\ certs'[c] \in CertRows
                 /\ certs'[c].state = "live"
                 /\ certs'[c].content = certs[c].content
                 /\ certs'[c].anchor = Root(w)
                 /\ certs'[c].leafIndex = i - 1
                 /\ VerifyMerkleProof(certs[c].content, Root(w), certs'[c].proof)
  BY <1>1, AttachedRow DEF n
<1>6. /\ certs \in [CertIds -> CertRows] /\ mempool \in Seq(Txs)
      /\ anchors \subseteq [root : Roots, count : 1..BatchSize, status : {"pending", "confirmed"}]
  BY WorkerTypes DEF IInv, TypeOK
<1>7. certs' \in [CertIds -> CertRows]
  <2>1. certs' = [c \in CertIds |-> certs'[c]]
    BY <1>1 DEF AttachBatch
  <2>2. \A c \in CertIds : certs'[c] \in CertRows
    BY <1>5, <1>6
  <2> QED BY <2>1, <2>2
<1>8. \A i \in DOMAIN mempool : mempool[i].watcher # w
  BY <1>1, NobodyElseWatches
<1>9. /\ receipt' \in [Workers -> {"none", "success", "reverted"}]
      /\ pc' \in [Workers -> {"idle", "batched", "polling", "confirmed", "unconfirmed"}]
      /\ batch' \in [Workers -> Seq(BatchEntries)]
      /\ BatchesAreCurrent' /\ WatchedCommitsBatch' /\ ReceiptsAreTrue' /\ OneReceiptPerRoot'
  BY <1>1, <1>5, <1>8, EndPassStep
<1>10. TypeOK'
  BY <1>1, <1>3, <1>6, <1>7, <1>9 DEF IInv, TypeOK, Txs
<1>11. LiveHasContent'
  BY <1>5 DEF IInv, LiveHasContent, Live
<1>12. ConfirmedIsOnChain'
  BY <1>1, <1>3, <1>4 DEF IInv, ConfirmedIsOnChain
<1>13. AnchoredIsProvable'
  <2> SUFFICES ASSUME NEW c \in CertIds, certs'[c].state = "live", certs'[c].anchor # NoAnchor
               PROVE  \E k \in 1..BatchSize :
                        /\ [root |-> certs'[c].anchor, count |-> k] \in registry
                        /\ [root |-> certs'[c].anchor, count |-> k, status |-> "confirmed"] \in anchors'
                        /\ certs'[c].leafIndex < k
                        /\ VerifyMerkleProof(certs'[c].content, certs'[c].anchor, certs'[c].proof)
    BY <1>1 DEF AnchoredIsProvable, Anchored, Live
  <2>1. CASE certs'[c] = certs[c]
    BY <2>1, <1>1 DEF IInv, AnchoredIsProvable, Anchored, Live
  <2>2. CASE certs'[c] # certs[c]
    <3>1. PICK i \in 1..n :
            /\ certs'[c].content = certs[c].content
            /\ certs'[c].anchor = Root(w)
            /\ certs'[c].leafIndex = i - 1
            /\ VerifyMerkleProof(certs[c].content, Root(w), certs'[c].proof)
      BY <2>2, <1>5
    <3>2. certs'[c].leafIndex < n
      BY <3>1, <1>2
    <3>3. /\ [root |-> certs'[c].anchor, count |-> n] \in registry
          /\ [root |-> certs'[c].anchor, count |-> n, status |-> "confirmed"] \in anchors'
      BY <3>1, <1>1, <1>3, <1>4
    <3> QED BY <3>1, <3>2, <3>3, <1>2
  <2> QED BY <2>1, <2>2
<1> QED BY <1>9, <1>10, <1>11, <1>12, <1>13 DEF IInv

-----------------------------------------------------------------------------
(* The chain.                                                              *)

LEMMA MineStep ==
  ASSUME IInv, MineAnchors \/ MineReverts
  PROVE  IInv'
<1> DEFINE tx == mempool[1]
<1>1. PICK outcome \in {"success", "reverted"} :
         /\ mempool # << >> /\ Mine(outcome)
         /\ \/ /\ outcome = "success"
               /\ Head(mempool).root \notin AnchoredRoots
               /\ registry' = registry \cup {[root |-> Head(mempool).root, count |-> Head(mempool).count]}
            \/ outcome = "reverted" /\ registry' = registry
  BY DEF MineAnchors, MineReverts
<1>2. /\ mempool' = Tail(mempool)
      /\ receipt' = [w \in Workers |-> IF w = Head(mempool).watcher THEN outcome ELSE receipt[w]]
      /\ UNCHANGED <<certs, anchors, paused, pc, batch>>
  BY <1>1 DEF Mine, dbVars, workerVars
<1>3. mempool \in Seq(Txs) /\ receipt \in [Workers -> {"none", "success", "reverted"}]
  BY WorkerTypes DEF IInv
<1>4. /\ tx \in Txs /\ Head(mempool) = tx /\ 1 \in DOMAIN mempool
      /\ mempool' \in Seq(Txs)
      /\ \A i \in DOMAIN mempool' : i + 1 \in DOMAIN mempool /\ mempool'[i] = mempool[i + 1]
  BY <1>1, <1>2, <1>3, TailType
<1>5. \A i \in DOMAIN mempool' : i \in Nat /\ i + 1 # 1
  BY <1>4
<1> HIDE DEF tx
<1>6. tx = mempool[1]
  BY DEF tx
<1>7. \A w \in Workers : receipt'[w] = IF w = tx.watcher THEN outcome ELSE receipt[w]
  BY <1>2, <1>4
<1>8. \A w \in Workers : w = tx.watcher =>
         pc[w] = "polling" /\ receipt[w] = "none" /\ tx.root = Root(w) /\ tx.count = Count(w)
  BY <1>4, <1>6 DEF IInv, WatchedCommitsBatch
<1>9. \A v : Root(v)' = Root(v) /\ Count(v)' = Count(v)
  BY <1>2, SameBatch
<1>10. registry \subseteq registry' /\ registry' \subseteq Commitments
  <2>1. [root |-> tx.root, count |-> tx.count] \in Commitments
    BY <1>4 DEF Txs, Commitments
  <2> QED BY <2>1, <1>1, <1>4 DEF IInv, TypeOK
<1>11. TypeOK'
  BY <1>1, <1>2, <1>3, <1>4, <1>10 DEF IInv, TypeOK, Txs
<1>12. LiveHasContent'
  BY <1>2 DEF IInv, LiveHasContent, Live
<1>13. BatchesAreCurrent'
  BY <1>2, BatchesKept DEF IInv
<1>14. WatchedCommitsBatch'
  <2> DEFINE f == [i \in DOMAIN mempool' |-> i + 1]
  <2>1. \A i \in DOMAIN mempool' : f[i] = i + 1 /\ i \in Nat
    BY <1>5
  <2> HIDE DEF f
  <2>2. \A i, j \in DOMAIN mempool' : f[i] = f[j] => i = j
    BY <2>1
  <2>3. ASSUME NEW i \in DOMAIN mempool', mempool'[i].watcher \in Workers
        PROVE  mempool'[i].watcher # tx.watcher
    BY <2>3, <1>4, <1>5, <1>6 DEF IInv, WatchedCommitsBatch
  <2>4. ASSUME NEW i \in DOMAIN mempool', mempool'[i].watcher \in Workers
        PROVE  /\ f[i] \in DOMAIN mempool
               /\ mempool'[i] = mempool[f[i]]
               /\ pc'[mempool'[i].watcher] = pc[mempool'[i].watcher]
               /\ receipt'[mempool'[i].watcher] = receipt[mempool'[i].watcher]
               /\ batch'[mempool'[i].watcher] = batch[mempool'[i].watcher]
    BY <2>1, <2>3, <2>4, <1>2, <1>4, <1>7
  <2> QED BY <2>2, <2>4, WatchedKept DEF IInv
<1>15. ReceiptsAreTrue'
  <2> SUFFICES ASSUME NEW w \in Workers
               PROVE  /\ pc'[w] \in {"idle", "batched"} => receipt'[w] = "none"
                      /\ pc'[w] = "confirmed" => receipt'[w] = "success"
                      /\ receipt'[w] = "success" =>
                           [root |-> Root(w)', count |-> Count(w)'] \in registry'
    BY DEF ReceiptsAreTrue
  <2>1. CASE w = tx.watcher
    BY <2>1, <1>1, <1>2, <1>4, <1>7, <1>8, <1>9
  <2>2. CASE w # tx.watcher
    BY <2>2, <1>2, <1>7, <1>9, <1>10 DEF IInv, ReceiptsAreTrue
  <2> QED BY <2>1, <2>2
<1>16. OneReceiptPerRoot'
  <2>1. ASSUME NEW v \in Workers, receipt[v] = "success"
        PROVE  Root(v) \in AnchoredRoots
    <3>1. [root |-> Root(v), count |-> Count(v)] \in registry
      BY <2>1 DEF IInv, ReceiptsAreTrue
    <3> QED BY <3>1 DEF AnchoredRoots
  <2>2. ASSUME NEW v \in Workers, NEW w \in Workers, v # w,
               receipt'[v] = "success", receipt'[w] = "success"
        PROVE  Root(v) # Root(w)
    <3>1. CASE v # tx.watcher /\ w # tx.watcher
      BY <2>2, <3>1, <1>7 DEF IInv, OneReceiptPerRoot
    <3>2. CASE v = tx.watcher
      BY <2>1, <2>2, <3>2, <1>1, <1>4, <1>7, <1>8
    <3>3. CASE w = tx.watcher
      BY <2>1, <2>2, <3>3, <1>1, <1>4, <1>7, <1>8
    <3> QED BY <3>1, <3>2, <3>3
  <2> QED BY <2>2, <1>9 DEF OneReceiptPerRoot
<1>17. ConfirmedIsOnChain' /\ AnchoredIsProvable'
  BY <1>2, <1>10, AnchorsKept DEF IInv
<1> QED BY <1>11, <1>12, <1>13, <1>14, <1>15, <1>16, <1>17 DEF IInv

LEMMA DropStep ==
  ASSUME IInv, NEW k \in DOMAIN mempool, Drop(k)
  PROVE  IInv'
<1>1. UNCHANGED <<certs, anchors, registry, paused, receipt, pc, batch>>
  BY DEF Drop, dbVars, workerVars
<1>2. mempool \in Seq(Txs)
  BY WorkerTypes DEF IInv
<1>3. /\ mempool' \in Seq(Txs)
      /\ DOMAIN mempool' = 1..(Len(mempool) - 1)
      /\ \A i \in DOMAIN mempool' :
           mempool'[i] = IF i < k THEN mempool[i] ELSE mempool[i + 1]
  BY <1>2, DropType
<1>4. DOMAIN mempool = 1..Len(mempool) /\ Len(mempool) \in Nat
  BY <1>2
<1>5. TypeOK'
  BY <1>1, <1>3 DEF IInv, TypeOK, Txs
<1>6. WatchedCommitsBatch'
  <2> DEFINE f == [i \in DOMAIN mempool' |-> IF i < k THEN i ELSE i + 1]
  <2>1. \A i \in DOMAIN mempool' : f[i] = IF i < k THEN i ELSE i + 1
    OBVIOUS
  <2> HIDE DEF f
  <2>2. \A i, j \in DOMAIN mempool' : f[i] = f[j] => i = j
    BY <2>1, <1>3, <1>4
  <2>3. \A i \in DOMAIN mempool' : f[i] \in DOMAIN mempool /\ mempool'[i] = mempool[f[i]]
    BY <2>1, <1>3, <1>4
  <2> QED BY <2>2, <2>3, <1>1, WatchedKept DEF IInv
<1>7. LiveHasContent' /\ ConfirmedIsOnChain' /\ AnchoredIsProvable'
  BY <1>1, AnchorsKept DEF IInv, LiveHasContent, Live
<1>8. BatchesAreCurrent' /\ ReceiptsAreTrue' /\ OneReceiptPerRoot'
  BY <1>1, BatchesKept, ReceiptsKept DEF IInv, ReceiptsAreTrue
<1> QED BY <1>5, <1>6, <1>7, <1>8 DEF IInv

(* The pause flag is read only by the contract.                            *)
LEMMA PauseStep ==
  ASSUME IInv, UNCHANGED <<certs, anchors, registry, mempool, receipt, pc, batch>>, paused' \in BOOLEAN
  PROVE  IInv'
<1>1. TypeOK'
  BY DEF IInv, TypeOK
<1>2. LiveHasContent' /\ ConfirmedIsOnChain' /\ AnchoredIsProvable'
  BY AnchorsKept DEF IInv, LiveHasContent, Live
<1>3. BatchesAreCurrent' /\ ReceiptsAreTrue' /\ OneReceiptPerRoot'
  BY BatchesKept, ReceiptsKept DEF IInv, ReceiptsAreTrue
<1>4. WatchedCommitsBatch'
  BY WatchedInPlace DEF IInv
<1> QED BY <1>1, <1>2, <1>3, <1>4 DEF IInv

-----------------------------------------------------------------------------
(* The theorems.                                                           *)

LEMMA InitIInv == Init => IInv
<1> SUFFICES ASSUME Init PROVE IInv
  OBVIOUS
<1>1. Row("unissued", NoContent, 0) \in CertRows /\ Row("unissued", NoContent, 0).state = "unissued"
  BY BatchSizePositive DEF CertRows, Row
<1>2. << >> \in Seq(BatchEntries) /\ << >> \in Seq(Txs)
  OBVIOUS
<1>3. TypeOK
  BY <1>1, <1>2 DEF Init, TypeOK, Txs
<1>4. \A c \in CertIds : ~ Live(c)
  BY <1>1 DEF Init, Live
<1>5. LiveHasContent /\ AnchoredIsProvable /\ ConfirmedIsOnChain
  BY <1>4 DEF Init, LiveHasContent, AnchoredIsProvable, ConfirmedIsOnChain, Anchored
<1>6. BatchesAreCurrent /\ WatchedCommitsBatch /\ ReceiptsAreTrue /\ OneReceiptPerRoot
  BY DEF Init, BatchesAreCurrent, WatchedCommitsBatch, ReceiptsAreTrue, OneReceiptPerRoot
<1> QED BY <1>3, <1>5, <1>6 DEF IInv

(* Every step preserves the invariant.                                     *)
LEMMA NextIInv == IInv /\ [Next]_vars => IInv'
<1> SUFFICES ASSUME IInv, [Next]_vars PROVE IInv'
  OBVIOUS
<1>1. ASSUME UNCHANGED vars PROVE IInv'
  BY <1>1, PauseStep DEF vars, IInv, TypeOK
<1>2. CASE Handlers
  BY <1>2, CertifyStep, DeleteStep DEF Handlers
<1>3. ASSUME NEW w \in Workers, Worker(w) PROVE IInv'
  <2>1. CASE NothingPending(w)
    BY <2>1, <1>1 DEF NothingPending
  <2>2. CASE ReadPending(w)
    BY <2>2, ReadPendingStep
  <2>3. CASE Broadcast(w)
    BY <2>3, BroadcastStep
  <2>4. CASE BroadcastLost(w)
    BY <2>4, BroadcastLostStep
  <2>5. CASE BroadcastRejected(w) \/ RecordUnconfirmedFails(w) \/ SaveAnchorFails(w)
    BY <2>5, EndPassQuietly
  <2>6. CASE ReceiptSuccess(w) \/ ReceiptReverted(w) \/ GiveUp(w)
    BY <2>6, PollingEndsStep
  <2>7. CASE RecordUnconfirmed(w)
    BY <2>7, RecordUnconfirmedStep
  <2>8. CASE SaveAnchor(w)
    BY <2>8, SaveAnchorStep
  <2>9. CASE Crash(w)
    BY <2>9, CrashStep
  <2> QED
    BY <1>3, <2>1, <2>2, <2>3, <2>4, <2>5, <2>6, <2>7, <2>8, <2>9 DEF Worker
<1>4. CASE Chain
  <2>1. CASE MineAnchors \/ MineReverts
    BY <2>1, MineStep
  <2>2. CASE \E k \in DOMAIN mempool : Drop(k)
    BY <2>2, DropStep
  <2>3. CASE Pause \/ Unpause
    BY <2>3, PauseStep DEF Pause, Unpause, dbVars, workerVars
  <2> QED BY <1>4, <2>1, <2>2, <2>3 DEF Chain
<1> QED BY <1>1, <1>2, <1>3, <1>4 DEF Next

(* The inductive invariant holds in every reachable state.                 *)
THEOREM PipelineInvariant == Spec => []IInv
BY InitIInv, NextIInv, PTL DEF Spec

(* Every table row, transaction, receipt and batch has a value the code    *)
(* can produce; in particular no batch exceeds BatchSize.                  *)
THEOREM PipelineTypeCorrect == Spec => []TypeOK
<1>1. IInv => TypeOK
  BY DEF IInv
<1> QED BY <1>1, PipelineInvariant, PTL

(***************************************************************************)
(* A certificate that says it is anchored can prove it, however many API   *)
(* processes run a worker and whatever combination of lost answers,        *)
(* abandoned or dropped transactions, reverts, failed saves, deletions and *)
(* crashes came before: SaveAnchor writes only what the contract accepted. *)
(***************************************************************************)
THEOREM PipelineAnchoredIsProvable == Spec => []AnchoredIsProvable
<1>1. IInv => AnchoredIsProvable
  BY DEF IInv
<1> QED BY <1>1, PipelineInvariant, PTL

(* The anchors table never claims a confirmation the contract did not give.*)
THEOREM PipelineConfirmedIsOnChain == Spec => []ConfirmedIsOnChain
<1>1. IInv => ConfirmedIsOnChain
  BY DEF IInv
<1> QED BY <1>1, PipelineInvariant, PTL

(* Of the workers that commit the same root, at most one gets to save it.  *)
THEOREM PipelineOneWinnerPerRoot == Spec => []OneWinnerPerRoot
<1>1. IInv => OneWinnerPerRoot
  BY DEF IInv, ReceiptsAreTrue, OneReceiptPerRoot, OneWinnerPerRoot
<1> QED BY <1>1, PipelineInvariant, PTL

-----------------------------------------------------------------------------
(* The ledger.                                                             *)

(* A holder sees a row's state, its content and its anchor.                *)
LEMMA HoldingOf ==
  ASSUME NEW c \in CertIds
  PROVE  /\ certs[c].state = "unissued" => LedgerHolding[c] = Ledger!Absent
         /\ certs[c].state = "deleted" => LedgerHolding[c] = Ledger!Gone
         /\ certs[c].state = "live" =>
              LedgerHolding[c] = Ledger!Held(certs[c].content, certs[c].anchor)
BY DEF LedgerHolding, Ledger!Absent, Ledger!Gone, Ledger!Held

(* A step that touches neither certificates nor contract.                  *)
LEMMA HolderSeesNothing ==
  ASSUME UNCHANGED <<certs, registry>>
  PROVE  UNCHANGED <<LedgerHolding, AnchoredRoots>>
BY DEF LedgerHolding, AnchoredRoots

(* A step that writes one row, with the contract as it was.                *)
LEMMA HolderSeesRow ==
  ASSUME NEW c \in CertIds, certs \in [CertIds -> CertRows], NEW row \in CertRows,
         certs' = [certs EXCEPT ![c] = row], registry' = registry
  PROVE  /\ certs'[c] = row
         /\ LedgerHolding' = [LedgerHolding EXCEPT ![c] = LedgerHolding'[c]]
         /\ UNCHANGED AnchoredRoots
<1>1. certs'[c] = row /\ \A d \in CertIds : d # c => certs'[d] = certs[d]
  OBVIOUS
<1>2. \A d \in CertIds : d # c => LedgerHolding'[d] = LedgerHolding[d]
  BY <1>1 DEF LedgerHolding
<1>3. LedgerHolding' = [LedgerHolding EXCEPT ![c] = LedgerHolding'[c]]
  <2>1. DOMAIN LedgerHolding = CertIds /\ LedgerHolding' = [d \in CertIds |-> LedgerHolding'[d]]
    BY DEF LedgerHolding
  <2> HIDE DEF LedgerHolding
  <2> QED
    BY <1>2, <2>1
<1>4. UNCHANGED AnchoredRoots
  BY DEF AnchoredRoots
<1> QED
  BY <1>1, <1>3, <1>4

LEMMA CertifyEnters ==
  ASSUME IInv, NEW c \in CertIds, NEW m \in Contents, NEW t \in Times, Certify(c, m, t)
  PROVE  Ledger!Enter(c, m)
<1>1. Row("live", m, t) \in CertRows
  BY BatchSizePositive DEF Row, CertRows
<1>2. certs \in [CertIds -> CertRows] /\ registry' = registry
  BY WorkerTypes DEF IInv, Certify, chainVars
<1>3. /\ certs'[c] = Row("live", m, t)
      /\ LedgerHolding' = [LedgerHolding EXCEPT ![c] = LedgerHolding'[c]]
      /\ UNCHANGED AnchoredRoots
  BY <1>1, <1>2, HolderSeesRow DEF Certify
<1>4. LedgerHolding[c] = Ledger!Absent
  BY HoldingOf DEF Certify
<1>5. LedgerHolding'[c] = Ledger!Held(m, NoAnchor)
  BY <1>3 DEF LedgerHolding, Row, Ledger!Held
<1> QED
  BY <1>3, <1>4, <1>5 DEF Ledger!Enter

LEMMA DeleteLeaves ==
  ASSUME IInv, NEW c \in CertIds, Delete(c)
  PROVE  Ledger!Leave(c)
<1>1. Row("deleted", NoContent, 0) \in CertRows
  BY BatchSizePositive DEF Row, CertRows
<1>2. certs \in [CertIds -> CertRows] /\ registry' = registry
  BY WorkerTypes DEF IInv, Delete, chainVars
<1>3. /\ certs'[c] = Row("deleted", NoContent, 0)
      /\ LedgerHolding' = [LedgerHolding EXCEPT ![c] = LedgerHolding'[c]]
      /\ UNCHANGED AnchoredRoots
  BY <1>1, <1>2, HolderSeesRow DEF Delete
<1>4. LedgerHolding[c].state = "held"
  <2>1. LedgerHolding[c] = Ledger!Held(certs[c].content, certs[c].anchor)
    BY HoldingOf DEF Delete, Live
  <2> QED
    BY <2>1 DEF Ledger!Held
<1>5. LedgerHolding'[c] = Ledger!Gone
  BY <1>3 DEF LedgerHolding, Row, Ledger!Gone
<1> QED
  BY <1>3, <1>4, <1>5 DEF Ledger!Leave

(* What the contract accepts is a commitment to some batch.                *)
LEMMA MineAnchorsPublishes ==
  ASSUME IInv, MineAnchors
  PROVE  Ledger!Publish
<1> DEFINE r == Head(mempool).root
<1>1. mempool \in Seq(Txs) /\ mempool # << >>
  BY WorkerTypes DEF IInv, MineAnchors
<1>2. r \in Roots
  <2>1. Head(mempool) \in Txs
    BY <1>1, TailType
  <2> QED
    BY <2>1 DEF Txs
<1>3. PICK l \in LeafSeqs : MerkleRoot(l) = r
  BY <1>2 DEF Roots
<1>4. PICK n \in 1..BatchSize : l \in [1..n -> Contents]
  BY <1>3 DEF LeafSeqs
<1>5. 1 \in DOMAIN l /\ l[1] \in Contents
  BY <1>4, BatchSizePositive
<1>6. <<r, l[1]>> \in Commits
  BY <1>2, <1>3, <1>5 DEF Commits
<1>7. registry' = registry \cup {[root |-> r, count |-> Head(mempool).count]}
  BY DEF MineAnchors
<1> HIDE DEF r
<1>8. AnchoredRoots' = AnchoredRoots \cup {r}
  <2> DEFINE entry == [root |-> r, count |-> Head(mempool).count]
  <2>1. registry' = registry \cup {entry} /\ entry.root = r
    BY <1>7
  <2> HIDE DEF entry
  <2> QED
    BY <2>1 DEF AnchoredRoots
<1>9. LedgerHolding' = LedgerHolding
  BY DEF MineAnchors, Mine, dbVars, LedgerHolding
<1> QED
  BY <1>6, <1>8, <1>9 DEF Ledger!Publish

(* The rows SaveAnchor writes are the live ones of the batch; each of them *)
(* is a leaf of the root the worker was told is on chain.                  *)
LEMMA SaveAnchorPlaces ==
  ASSUME IInv, NEW w \in Workers, SaveAnchor(w)
  PROVE  \E placed \in SUBSET CertIds : Ledger!Place(placed, Root(w)) /\ Root(w) \in AnchoredRoots
<1> DEFINE placed == {c \in CertIds : Live(c) /\ \E i \in DOMAIN batch[w] : batch[w][i].id = c}
           r == Root(w)
<1>1. pc[w] = "confirmed" /\ certs' = AttachBatch(w) /\ registry' = registry
  BY DEF SaveAnchor
<1>2. [root |-> r, count |-> Count(w)] \in registry
  BY <1>1 DEF IInv, ReceiptsAreTrue
<1>3. r \in AnchoredRoots
  BY <1>2 DEF AnchoredRoots
<1>4. /\ r \in Roots /\ Leaves(batch[w]) \in LeafSeqs
      /\ DOMAIN Leaves(batch[w]) = DOMAIN batch[w]
      /\ \A i \in DOMAIN batch[w] : Leaves(batch[w])[i] = batch[w][i].content
  BY <1>1, BatchCommits DEF IInv
<1>5. MerkleRoot(Leaves(batch[w])) = r
  BY DEF Root
<1>6. ASSUME NEW c \in placed
      PROVE  /\ LedgerHolding[c] = Ledger!Held(certs[c].content, certs[c].anchor)
             /\ LedgerHolding[c].state = "held" /\ LedgerHolding[c].content = certs[c].content
             /\ <<r, LedgerHolding[c].content>> \in Commits
             /\ LedgerHolding'[c] = Ledger!Held(LedgerHolding[c].content, r)
  <2>1. PICK i \in DOMAIN batch[w] : batch[w][i].id = c
    OBVIOUS
  <2>2. c \in CertIds /\ certs[c].state = "live"
    BY DEF Live
  <2>3. certs[c].content = batch[w][i].content
    BY <2>1, <2>2 DEF IInv, BatchesAreCurrent, Live
  <2>4. certs[c].content \in Contents
    BY <2>2 DEF IInv, LiveHasContent, Live
  <2>5. <<r, certs[c].content>> \in Commits
    BY <1>4, <1>5, <2>3, <2>4 DEF Commits
  <2>6. /\ LedgerHolding[c] = Ledger!Held(certs[c].content, certs[c].anchor)
        /\ LedgerHolding[c].state = "held" /\ LedgerHolding[c].content = certs[c].content
    BY <2>2, HoldingOf DEF Ledger!Held
  <2>7. /\ certs'[c].state = "live" /\ certs'[c].content = certs[c].content
        /\ certs'[c].anchor = r
    <3> DEFINE old == certs[c]
               j == CHOOSE k \in DOMAIN batch[w] : batch[w][k].id = c
               x == j - 1
               p == MerkleProof(Leaves(batch[w]), j)
    <3>1. certs'[c] = [old EXCEPT !.anchor = r, !.leafIndex = x, !.proof = p]
      BY <1>1, <2>1, <2>2 DEF AttachBatch, Live
    <3>2. old \in CertRows
      BY <2>2, WorkerTypes DEF IInv
    <3> HIDE DEF old, x, p, r
    <3>3. /\ certs'[c].state = old.state /\ certs'[c].content = old.content
          /\ certs'[c].anchor = r
      BY <3>1, <3>2 DEF CertRows
    <3> QED
      BY <2>2, <3>3 DEF old
  <2>8. LedgerHolding'[c] = Ledger!Held(certs[c].content, r)
    BY <2>2, <2>7 DEF LedgerHolding, Ledger!Held
  <2> QED
    BY <2>5, <2>6, <2>8
<1>7. ASSUME NEW c \in CertIds \ placed
      PROVE  LedgerHolding'[c] = LedgerHolding[c]
  <2>1. certs'[c] = certs[c]
    BY <1>1 DEF AttachBatch
  <2> QED
    BY <2>1 DEF LedgerHolding
<1>8. UNCHANGED AnchoredRoots
  BY <1>1 DEF AnchoredRoots
<1>9. LedgerHolding' = [c \in CertIds |-> LedgerHolding'[c]]
  BY DEF LedgerHolding
<1>10. placed \in SUBSET CertIds
  OBVIOUS
<1> HIDE DEF placed, r
<1>11. LedgerHolding' = [c \in CertIds |-> IF c \in placed THEN Ledger!Held(LedgerHolding[c].content, r)
                                          ELSE LedgerHolding[c]]
  <2> DEFINE h == LedgerHolding
             f == LedgerHolding'
  <2>1. f = [c \in CertIds |-> f[c]]
    BY <1>9
  <2>2. \A c \in CertIds : f[c] = IF c \in placed THEN Ledger!Held(h[c].content, r) ELSE h[c]
    BY <1>6, <1>7
  <2> HIDE DEF h, f
  <2> QED
    BY <2>1, <2>2 DEF h, f
<1>12. Ledger!Place(placed, r)
  BY <1>3, <1>6, <1>8, <1>11 DEF Ledger!Place
<1> QED
  BY <1>3, <1>10, <1>12 DEF r

(***************************************************************************)
(* The pipeline implements the ledger: whatever fails, retries or races,   *)
(* a holder sees certificates enter, be placed a batch at a time under a   *)
(* root that is on chain and commits them, and leave.                      *)
(***************************************************************************)
THEOREM PipelineImplementsLedger == Spec => ImplementsLedger
<1>1. Init => Ledger!Init
  BY DEF Init, Row, Ledger!Init, Ledger!Absent, LedgerHolding, AnchoredRoots
<1>2. IInv /\ [Next]_vars => [Ledger!Next]_<<LedgerHolding, AnchoredRoots>>
  <2> SUFFICES ASSUME IInv, [Next]_vars
               PROVE  Ledger!Next \/ UNCHANGED <<LedgerHolding, AnchoredRoots>>
    OBVIOUS
  <2>1. CASE UNCHANGED vars
    BY <2>1, HolderSeesNothing DEF vars
  <2>2. CASE Handlers
    BY <2>2, CertifyEnters, DeleteLeaves DEF Handlers, Ledger!Next
  <2>3. ASSUME NEW w \in Workers, Worker(w)
        PROVE  Ledger!Next \/ UNCHANGED <<LedgerHolding, AnchoredRoots>>
    <3>1. CASE SaveAnchor(w)
      BY <3>1, SaveAnchorPlaces DEF Ledger!Next
    <3>2. CASE ~ SaveAnchor(w)
      <4>1. UNCHANGED <<certs, registry>>
        BY <2>3, <3>2
           DEF Worker, NothingPending, ReadPending, Broadcast, BroadcastLost, BroadcastRejected,
               ReceiptSuccess, ReceiptReverted, GiveUp, RecordUnconfirmed, RecordUnconfirmedFails,
               SaveAnchorFails, Crash, vars, dbVars, chainVars
      <4> QED
        BY <4>1, HolderSeesNothing
    <3> QED
      BY <3>1, <3>2
  <2>4. CASE Chain
    <3>1. CASE MineAnchors
      BY <3>1, MineAnchorsPublishes DEF Ledger!Next
    <3>2. CASE ~ MineAnchors
      <4>1. UNCHANGED <<certs, registry>>
        BY <2>4, <3>2 DEF Chain, MineReverts, Mine, Drop, Pause, Unpause, dbVars
      <4> QED
        BY <4>1, HolderSeesNothing
    <3> QED
      BY <3>1, <3>2
  <2> QED
    BY <2>1, <2>2, <2>3, <2>4 DEF Next
<1> QED
  BY <1>1, <1>2, PipelineInvariant, PTL DEF Spec, ImplementsLedger, Ledger!Spec

-----------------------------------------------------------------------------
(* One worker.                                                             *)

OneWorker == \A v, w \in Workers : v = w

(* What the only worker there is has read and not yet written is still     *)
(* without an anchor: nobody else attaches one.                            *)
BatchIsUnanchored ==
  \A w \in Workers : \A i \in DOMAIN batch[w] : ~ Anchored(batch[w][i].id)

(* Steps that write no anchor and read no batch.                           *)
LEMMA UnanchoredKept ==
  ASSUME BatchIsUnanchored,
         \A w \in Workers : batch'[w] = batch[w] \/ batch'[w] = << >>,
         \A w \in Workers : \A i \in DOMAIN batch[w] :
           LET c == batch[w][i].id IN certs'[c] = certs[c] \/ certs'[c].state # "live"
  PROVE  BatchIsUnanchored'
BY DEF BatchIsUnanchored, Anchored, Live

LEMMA EmptiedBatch ==
  ASSUME TypeOK, NEW w \in Workers, EndPass(w)
  PROVE  \A v \in Workers : batch'[v] = batch[v] \/ batch'[v] = << >>
BY WorkerTypes DEF EndPass

LEMMA SaveAnchorOnce ==
  ASSUME OneWorker, IInv, BatchIsUnanchored, NEW w \in Workers, SaveAnchor(w)
  PROVE  /\ BatchIsUnanchored'
         /\ \A c \in CertIds : Anchored(c) => certs'[c] = certs[c]
<1>1. certs' = AttachBatch(w) /\ EndPass(w)
  BY DEF SaveAnchor
<1>2. \A v \in Workers : batch'[v] = << >>
  BY <1>1, WorkerTypes DEF IInv, OneWorker, EndPass
<1>3. BatchIsUnanchored'
  BY <1>2 DEF BatchIsUnanchored
<1>4. \A c \in CertIds : Anchored(c) => certs'[c] = certs[c]
  BY <1>1 DEF AttachBatch, BatchIsUnanchored
<1> QED
  BY <1>3, <1>4

LEMMA ReadPendingUnanchored ==
  ASSUME OneWorker, IInv, BatchIsUnanchored, NEW w \in Workers, ReadPending(w)
  PROVE  BatchIsUnanchored'
<1>1. PICK ids \in PendingLeaves :
         batch' = [batch EXCEPT ![w] =
                     [i \in DOMAIN ids |-> [id |-> ids[i], content |-> certs[ids[i]].content]]]
  BY DEF ReadPending
<1> DEFINE b == [i \in DOMAIN ids |-> [id |-> ids[i], content |-> certs[ids[i]].content]]
<1>2. \A i \in DOMAIN b : b[i].id \in Waiting
  BY DEF PendingLeaves
<1>3. \A v \in Workers : batch'[v] = b
  BY <1>1, WorkerTypes DEF IInv, OneWorker
<1>4. certs' = certs
  BY DEF ReadPending, dbVars
<1> HIDE DEF b
<1>5. \A i \in DOMAIN b : ~ Anchored(b[i].id)
  BY <1>2 DEF Waiting, Pending, Anchored
<1> QED
  BY <1>3, <1>4, <1>5 DEF BatchIsUnanchored, Anchored, Live

(* A worker's step that neither reads a batch nor saves one.               *)
LEMMA QuietWorker ==
  ASSUME IInv, NEW w \in Workers, Worker(w), ~ SaveAnchor(w), ~ ReadPending(w)
  PROVE  certs' = certs /\ \A v \in Workers : batch'[v] = batch[v] \/ batch'[v] = << >>
<1>1. certs' = certs /\ (UNCHANGED batch \/ EndPass(w))
  BY DEF Worker, NothingPending, Broadcast, BroadcastLost, BroadcastRejected,
         ReceiptSuccess, ReceiptReverted, GiveUp, RecordUnconfirmed, RecordUnconfirmedFails,
         SaveAnchorFails, Crash, vars, dbVars, chainVars
<1> QED
  BY <1>1, EmptiedBatch DEF IInv

LEMMA HandlersKeepAnchors ==
  ASSUME IInv, BatchIsUnanchored, Handlers
  PROVE  /\ BatchIsUnanchored'
         /\ \A c \in CertIds : Anchored(c) /\ certs'[c].state = "live" => certs'[c] = certs[c]
<1>1. PICK c \in CertIds :
         /\ \E row : certs' = [certs EXCEPT ![c] = row] /\ (certs[c].state = "unissued" \/ row.state # "live")
         /\ UNCHANGED batch
  BY DEF Handlers, Certify, Delete, Row, workerVars
<1>2. PICK row : certs' = [certs EXCEPT ![c] = row] /\ (certs[c].state = "unissued" \/ row.state # "live")
  BY <1>1
<1>3. /\ certs'[c] = row
      /\ \A d \in CertIds : d # c => certs'[d] = certs[d]
  BY <1>2, WorkerTypes DEF IInv
<1>4. \A w \in Workers : \A i \in DOMAIN batch[w] :
         batch[w][i].id \in CertIds /\ certs[batch[w][i].id].state # "unissued"
  <2>1. \A w \in Workers : \A i \in DOMAIN batch[w] : batch[w][i] \in BatchEntries
    BY WorkerTypes DEF IInv
  <2> QED
    BY <2>1 DEF IInv, BatchesAreCurrent, BatchEntries
<1>5. BatchIsUnanchored'
  BY <1>1, <1>2, <1>3, <1>4, UnanchoredKept
<1> QED
  BY <1>2, <1>3, <1>5 DEF Anchored, Live

(* With one worker, every step keeps what has been handed out.             *)
LEMMA OneWorkerStep ==
  ASSUME OneWorker, IInv, BatchIsUnanchored, [Next]_vars
  PROVE  /\ BatchIsUnanchored'
         /\ \A c \in CertIds : Anchored(c) /\ certs'[c].state = "live" => certs'[c] = certs[c]
<1>1. CASE Handlers
  BY <1>1, HandlersKeepAnchors
<1>2. ASSUME NEW w \in Workers, Worker(w)
      PROVE  /\ BatchIsUnanchored'
             /\ \A c \in CertIds : Anchored(c) /\ certs'[c].state = "live" => certs'[c] = certs[c]
  <2>1. CASE SaveAnchor(w)
    BY <2>1, SaveAnchorOnce
  <2>2. CASE ReadPending(w)
    BY <2>2, ReadPendingUnanchored DEF ReadPending, dbVars
  <2>3. CASE ~ SaveAnchor(w) /\ ~ ReadPending(w)
    BY <1>2, <2>3, QuietWorker, UnanchoredKept
  <2> QED
    BY <2>1, <2>2, <2>3
<1>3. CASE Chain
  BY <1>3, UnanchoredKept
     DEF Chain, MineAnchors, MineReverts, Mine, Drop, Pause, Unpause, dbVars, workerVars
<1>4. CASE UNCHANGED vars
  BY <1>4, UnanchoredKept DEF vars
<1> QED
  BY <1>1, <1>2, <1>3, <1>4 DEF Next

(***************************************************************************)
(* With one worker an anchor is final: whatever is retried, lost or        *)
(* crashes, no proof that was handed out is replaced.                      *)
(***************************************************************************)
THEOREM PipelineAnchorIsFinal ==
  ASSUME OneWorker
  PROVE  Spec => AnchorIsFinal
<1>1. Init => BatchIsUnanchored
  BY DEF Init, BatchIsUnanchored
<1>2. IInv /\ BatchIsUnanchored /\ [Next]_vars => BatchIsUnanchored'
  BY OneWorkerStep
<1>3. IInv /\ BatchIsUnanchored /\ [Next]_vars =>
        [\A c \in CertIds : Anchored(c) /\ certs'[c].state = "live" => certs'[c] = certs[c]]_certs
  BY OneWorkerStep
<1> QED
  BY <1>1, <1>2, <1>3, PipelineInvariant, PTL DEF Spec, AnchorIsFinal

-----------------------------------------------------------------------------
(* What is on chain is accounted for.                                      *)

(* No answer of the node is lost, and no write of the worker.              *)
NothingIsLost == {"lost", "recordFails", "saveFails", "crash"} \cap Admits = {}

Accounted(r) == (\E a \in anchors : a.root = r) \/ (\E w \in Workers : Holds(w, r))

(* A root is accounted for from the moment it is broadcast.                *)
InMempool == {mempool[i].root : i \in DOMAIN mempool}

BroadcastsAreAccounted == \A r \in AnchoredRoots \cup InMempool : Accounted(r)

(* A pass files a row before it lets go of a root.                         *)
LEMMA AccountedKept ==
  ASSUME NothingIsLost, IInv, [Next]_vars, NEW r, Accounted(r)
  PROVE  Accounted(r)'
<1>1. anchors \subseteq anchors'
  BY DEF Next, Handlers, Certify, Delete, Worker, NothingPending, ReadPending, Broadcast,
         BroadcastLost, BroadcastRejected, ReceiptSuccess, ReceiptReverted, GiveUp,
         RecordUnconfirmed, RecordUnconfirmedFails, SaveAnchor, SaveAnchorFails, Crash,
         Chain, MineAnchors, MineReverts, Mine, Drop, Pause, Unpause, vars, dbVars, chainVars,
         workerVars
<1>2. CASE \E a \in anchors : a.root = r
  BY <1>1, <1>2 DEF Accounted
<1>3. ASSUME NEW w \in Workers, Holds(w, r)
      PROVE  Accounted(r)'
  <2>1. CASE pc'[w] = pc[w] /\ batch'[w] = batch[w]
    BY <2>1, <1>3, SameBatch DEF Accounted, Holds
  <2>2. ASSUME NEW v \in Workers, Worker(v), ~ (pc'[w] = pc[w] /\ batch'[w] = batch[w])
        PROVE  Accounted(r)'
    <3>1. v = w
      <4>1. \E s, b : pc' = [pc EXCEPT ![v] = s] /\ batch' = [batch EXCEPT ![v] = b]
        <5>1. \/ pc' = pc /\ batch' = batch
              \/ \E s : pc' = [pc EXCEPT ![v] = s] /\ batch' = batch
              \/ \E s, b : pc' = [pc EXCEPT ![v] = s] /\ batch' = [batch EXCEPT ![v] = b]
          BY <2>2
             DEF Worker, NothingPending, ReadPending, Broadcast, BroadcastLost,
                 BroadcastRejected, ReceiptSuccess, ReceiptReverted, GiveUp, RecordUnconfirmed,
                 RecordUnconfirmedFails, SaveAnchor, SaveAnchorFails, Crash, EndPass, vars
        <5>2. pc = [pc EXCEPT ![v] = pc[v]] /\ batch = [batch EXCEPT ![v] = batch[v]]
          BY WorkerTypes DEF IInv
        <5> QED
          BY <5>1, <5>2
      <4> QED
        BY <2>2, <4>1, WorkerTypes DEF IInv
    <3>2. CASE RecordUnconfirmed(w) \/ SaveAnchor(w)
      <4>1. PICK status : anchors' = anchors \cup {AnchorRow(w, status)}
        BY <3>2 DEF RecordUnconfirmed, SaveAnchor
      <4>2. AnchorRow(w, status).root = Root(w)
        BY DEF AnchorRow
      <4> QED
        BY <1>3, <4>1, <4>2 DEF Accounted, Holds
    <3>3. CASE Broadcast(w) \/ ReceiptSuccess(w) \/ ReceiptReverted(w) \/ GiveUp(w)
      <4>1. batch' = batch /\ pc'[w] \in {"polling", "confirmed", "unconfirmed"}
        BY <3>3, WorkerTypes DEF IInv, Broadcast, ReceiptSuccess, ReceiptReverted, GiveUp
      <4> QED
        BY <1>3, <4>1, SameBatch DEF Accounted, Holds
    <3>4. pc[w] \in {"polling", "confirmed", "unconfirmed"}
      BY <1>3 DEF Holds
    <3>5. ~ (NothingPending(w) \/ ReadPending(w) \/ BroadcastLost(w) \/ BroadcastRejected(w)
             \/ RecordUnconfirmedFails(w) \/ SaveAnchorFails(w) \/ Crash(w))
      BY <3>4 DEF NothingIsLost, NothingPending, ReadPending, BroadcastLost, BroadcastRejected,
                  RecordUnconfirmedFails, SaveAnchorFails, Crash
    <3> QED
      BY <2>2, <3>1, <3>2, <3>3, <3>5 DEF Worker
  <2>3. CASE UNCHANGED <<pc, batch>>
    BY <2>1, <2>3
  <2> QED
    BY <2>1, <2>2, <2>3
       DEF Next, Handlers, Certify, Delete, Chain, MineAnchors, MineReverts, Mine, Drop, Pause,
           Unpause, vars, workerVars
<1> QED
  BY <1>2, <1>3 DEF Accounted

(* Every transaction in the mempool was there before, or is the one that a *)
(* worker now polls for.                                                   *)
LEMMA MempoolComesFrom ==
  ASSUME NothingIsLost, IInv, [Next]_vars,
         NEW r, NEW i \in DOMAIN mempool', mempool'[i].root = r
  PROVE  r \in InMempool \/ \E w \in Workers : Holds(w, r)'
<1>1. mempool \in Seq(Txs)
  BY WorkerTypes DEF IInv
<1>2. ASSUME mempool' = mempool
      PROVE  r \in InMempool
  BY <1>2 DEF InMempool
<1>3. ASSUME NEW w \in Workers, Broadcast(w)
      PROVE  \/ \E j \in DOMAIN mempool : mempool'[i].root = mempool[j].root
             \/ \E v \in Workers : Holds(v, r)'
  <2>1. pc[w] = "batched" /\ mempool' = Append(mempool, Tx(w, w)) /\ pc'[w] = "polling" /\ batch' = batch
    BY <1>3, WorkerTypes DEF Broadcast, IInv
  <2>2. Root(w) \in Roots /\ Count(w) \in 1..BatchSize
    BY <2>1, BatchCommits DEF IInv
  <2>3. Tx(w, w) \in Txs /\ Tx(w, w).root = Root(w)
    BY <2>2 DEF Tx, Txs
  <2>4. CASE i \in DOMAIN mempool
    BY <2>1, <2>3, <2>4, <1>1, AppendType
  <2>5. CASE i = Len(mempool) + 1
    <3>1. mempool'[i].root = Root(w)
      BY <2>1, <2>3, <2>5, <1>1, AppendType
    <3>2. Root(w)' = Root(w)
      BY <2>1, SameBatch
    <3> QED
      BY <2>1, <3>1, <3>2 DEF Holds
  <2> QED
    BY <2>1, <2>3, <2>4, <2>5, <1>1, AppendType
<1>4. ASSUME NEW w \in Workers, GiveUp(w)
      PROVE  \E j \in DOMAIN mempool : mempool'[i].root = mempool[j].root
  <2>1. mempool' = Unwatched(w)
    BY <1>4 DEF GiveUp
  <2>2. i \in DOMAIN mempool /\ mempool'[i] = [mempool[i] EXCEPT !.watcher = IF @ = w THEN NoWorker ELSE @]
    BY <2>1, <1>1, UnwatchedType
  <2>3. mempool[i] \in Txs
    BY <2>2, <1>1
  <2> QED
    BY <2>2, <2>3 DEF Txs
<1>5. CASE MineAnchors \/ MineReverts
  <2>1. mempool' = Tail(mempool) /\ mempool # << >>
    BY <1>5 DEF MineAnchors, MineReverts, Mine
  <2>2. i + 1 \in DOMAIN mempool /\ mempool'[i] = mempool[i + 1]
    BY <1>1, <2>1, TailType
  <2> QED
    BY <2>2 DEF InMempool
<1>6. ASSUME NEW k \in DOMAIN mempool, Drop(k)
      PROVE  \E j \in DOMAIN mempool : mempool'[i].root = mempool[j].root
  <2>1. /\ DOMAIN mempool' = 1..(Len(mempool) - 1)
        /\ \A j \in DOMAIN mempool' :
             mempool'[j] = IF j < k THEN mempool[j] ELSE mempool[j + 1]
    BY <1>1, <1>6, DropType
  <2>2. DOMAIN mempool = 1..Len(mempool) /\ Len(mempool) \in Nat
    BY <1>1
  <2>3. i \in DOMAIN mempool /\ i + 1 \in DOMAIN mempool
    BY <2>1, <2>2
  <2> QED
    BY <2>1, <2>3
<1>7. CASE UNCHANGED vars
  BY <1>2, <1>7 DEF vars
<1>8. CASE Handlers
  BY <1>2, <1>8 DEF Handlers, Certify, Delete, chainVars
<1>9. ASSUME NEW w \in Workers, Worker(w), ~ Broadcast(w), ~ GiveUp(w)
      PROVE  r \in InMempool
  <2>1. mempool' = mempool
    BY <1>9
       DEF NothingIsLost, Worker, NothingPending, ReadPending, BroadcastLost, BroadcastRejected,
           ReceiptSuccess, ReceiptReverted, RecordUnconfirmed, RecordUnconfirmedFails,
           SaveAnchor, SaveAnchorFails, Crash, vars, chainVars
  <2> QED
    BY <1>2, <2>1
<1>10. CASE Pause \/ Unpause
  BY <1>2, <1>10 DEF Pause, Unpause
<1> QED
  BY <1>3, <1>4, <1>5, <1>6, <1>7, <1>8, <1>9, <1>10 DEF Next, Chain, InMempool

(* A root that appears on chain was in the mempool.                        *)
LEMMA RootsComeFrom ==
  ASSUME IInv, [Next]_vars, NEW r \in AnchoredRoots'
  PROVE  r \in AnchoredRoots \cup InMempool
<1>1. CASE MineAnchors
  <2> DEFINE tx == Head(mempool)
             entry == [root |-> tx.root, count |-> tx.count]
  <2>1. registry' = registry \cup {entry} /\ entry.root = tx.root /\ mempool # << >>
    BY <1>1 DEF MineAnchors
  <2>2. 1 \in DOMAIN mempool /\ tx = mempool[1]
    BY <2>1, TailType, WorkerTypes DEF IInv
  <2> HIDE DEF tx, entry
  <2> QED
    BY <2>1, <2>2 DEF AnchoredRoots, InMempool
<1>2. CASE ~ MineAnchors
  <2>1. registry' = registry
    BY <1>2 DEF Next, Handlers, Certify, Delete, Worker, NothingPending, ReadPending, Broadcast,
         BroadcastLost, BroadcastRejected, ReceiptSuccess, ReceiptReverted, GiveUp,
         RecordUnconfirmed, RecordUnconfirmedFails, SaveAnchor, SaveAnchorFails, Crash,
         Chain, MineReverts, Mine, Drop, Pause, Unpause, vars, dbVars, chainVars
  <2> QED
    BY <2>1 DEF AnchoredRoots
<1> QED
  BY <1>1, <1>2

(***************************************************************************)
(* What ports.go asks for holds as long as no answer of the node and no    *)
(* write of the worker is lost and no process dies: a transaction that is  *)
(* abandoned or dropped, mined late or reverted leaves no root on chain    *)
(* that neither a row nor a worker knows of, with any number of workers.   *)
(***************************************************************************)
THEOREM PipelineRootsAccounted ==
  ASSUME NothingIsLost
  PROVE  Spec => []EveryRootAccounted
<1>1. Init => BroadcastsAreAccounted
  BY DEF Init, BroadcastsAreAccounted, AnchoredRoots, InMempool
<1>2. IInv /\ BroadcastsAreAccounted /\ [Next]_vars => BroadcastsAreAccounted'
  <2> SUFFICES ASSUME IInv, BroadcastsAreAccounted, [Next]_vars
               PROVE  BroadcastsAreAccounted'
    OBVIOUS
  <2>1. ASSUME NEW r \in AnchoredRoots' PROVE Accounted(r)'
    BY <2>1, RootsComeFrom, AccountedKept DEF BroadcastsAreAccounted
  <2>2. ASSUME NEW r \in InMempool' PROVE Accounted(r)'
    <3>1. PICK i \in DOMAIN mempool' : mempool'[i].root = r
      BY <2>2 DEF InMempool
    <3>2. CASE r \in InMempool
      BY <3>2, AccountedKept DEF BroadcastsAreAccounted
    <3>3. CASE \E w \in Workers : Holds(w, r)'
      BY <3>3 DEF Accounted
    <3> QED
      BY <3>1, <3>2, <3>3, MempoolComesFrom
  <2> QED
    BY <2>1, <2>2 DEF BroadcastsAreAccounted
<1>3. BroadcastsAreAccounted => EveryRootAccounted
  BY DEF BroadcastsAreAccounted, EveryRootAccounted, Accounted
<1> QED
  BY <1>1, <1>2, <1>3, PipelineInvariant, PTL DEF Spec
=============================================================================
