---------------------------- MODULE AnchorLedger ----------------------------
(***************************************************************************)
(* What anchoring promises the holder of a certificate, with no worker, no *)
(* transaction and no batch in sight: a certificate enters unanchored, may *)
(* at some point be placed under a published commitment that contains it,  *)
(* and can leave at any time.  Commitments are only ever added, and every  *)
(* certificate placed by one step is placed under the same commitment.     *)
(***************************************************************************)
CONSTANTS
  CertIds,   \* certificates
  Contents,  \* what they certify
  Commits,   \* pairs <<commitment, content>>: the commitment contains it
  Nothing    \* the commitment of a certificate that has none

VARIABLES
  holding,   \* each certificate's state, content and commitment
  published  \* the commitments anyone can look up

Absent == [state |-> "absent"]
Gone   == [state |-> "gone"]
Held(m, r) == [state |-> "held", content |-> m, under |-> r]

Init ==
  /\ holding = [c \in CertIds |-> Absent]
  /\ published = {}

Enter(c, m) ==
  /\ holding[c] = Absent
  /\ holding' = [holding EXCEPT ![c] = Held(m, Nothing)]
  /\ UNCHANGED published

Leave(c) ==
  /\ holding[c].state = "held"
  /\ holding' = [holding EXCEPT ![c] = Gone]
  /\ UNCHANGED published

Publish ==
  /\ \E r \in {p[1] : p \in Commits} : published' = published \cup {r}
  /\ UNCHANGED holding

(* One commitment, every certificate of the batch, in a single step.       *)
Place(batch, r) ==
  /\ r \in published
  /\ \A c \in batch : holding[c].state = "held" /\ <<r, holding[c].content>> \in Commits
  /\ holding' = [c \in CertIds |->
                   IF c \in batch THEN Held(holding[c].content, r) ELSE holding[c]]
  /\ UNCHANGED published

Next ==
  \/ \E c \in CertIds, m \in Contents : Enter(c, m)
  \/ \E c \in CertIds : Leave(c)
  \/ Publish
  \/ \E r \in published : \E batch \in SUBSET CertIds : Place(batch, r)

Spec == Init /\ [][Next]_<<holding, published>>
=============================================================================
