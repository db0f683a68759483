-------------------------------- MODULE Rlp ---------------------------------
(***************************************************************************)
(* The encoding of the anchoring transaction (internal/repository/rlp.go   *)
(* and signAnchorTx of evm_anchor.go), over sequences of bytes, and the    *)
(* decoder a node applies to it.                                           *)
(***************************************************************************)
EXTENDS Integers, Sequences, SequencesExt

Byte == 0..255

-----------------------------------------------------------------------------
(* Encoding *)

(* bigEndianBytes: no leading zero byte, and nothing at all for zero.      *)
BigEndianBytes(v) ==
  LET digits[n \in 0..v] == IF n = 0 THEN <<>> ELSE Append(digits[n \div 256], n % 256)
  IN  digits[v]

(* Mutated: a length of 56 still takes the short form.                     *)
RlpLengthPrefix_Long(length, offset) ==
  IF length <= 56 THEN <<offset + length>>
  ELSE LET size == BigEndianBytes(length) IN <<offset + 55 + Len(size)>> \o size

RlpLengthPrefix(length, offset) ==
  IF length <= 55 THEN <<offset + length>>
  ELSE LET size == BigEndianBytes(length) IN <<offset + 55 + Len(size)>> \o size

(* Mutated: every byte string of length one stands for itself.             *)
RlpString_AnyByte(b) == IF Len(b) = 1 THEN b ELSE RlpLengthPrefix(Len(b), 128) \o b

RlpString(b) ==
  IF Len(b) = 1 /\ b[1] < 128 THEN b ELSE RlpLengthPrefix(Len(b), 128) \o b

RlpList(items) ==
  LET payload == FlattenSeq(items) IN RlpLengthPrefix(Len(payload), 192) \o payload

(* rlpUint, and rlpBig of what is not negative: nil is zero.               *)
RlpUint(v) == RlpString(BigEndianBytes(v))

-----------------------------------------------------------------------------
(* The transaction.  tx: nonce, gasPrice, gasLimit and chainID, integers;  *)
(* to and data, bytes.                                                     *)

SigningPayload(tx) ==
  RlpList(<<RlpUint(tx.nonce), RlpUint(tx.gasPrice), RlpUint(tx.gasLimit), RlpString(tx.to),
            RlpString(<<>>), RlpString(tx.data),
            RlpUint(tx.chainID), RlpString(<<>>), RlpString(<<>>)>>)

(* Mutated: the recovery id as SignCompact returns it.                     *)
V_Compact(chainID, recovery) == chainID * 2 + 27 + recovery

(* EIP-155.                                                                *)
V(chainID, recovery) == chainID * 2 + 35 + recovery

SignedTx(tx, recovery, r, s) ==
  RlpList(<<RlpUint(tx.nonce), RlpUint(tx.gasPrice), RlpUint(tx.gasLimit), RlpString(tx.to),
            RlpString(<<>>), RlpString(tx.data),
            RlpUint(V(tx.chainID, recovery)), RlpUint(r), RlpUint(s)>>)

-----------------------------------------------------------------------------
(* What a node does: the reference.  A canonical decoder, which refuses    *)
(* what has a shorter encoding.                                            *)

Value(bytes) ==
  LET upTo[n \in 0..Len(bytes)] == IF n = 0 THEN 0 ELSE 256 * upTo[n - 1] + bytes[n]
  IN  upTo[Len(bytes)]

(* The item that starts at i: where its payload starts and ends.           *)
Header(bytes, i, offset) ==
  LET tag == bytes[i] IN
  IF offset = 128 /\ tag < 128 THEN [from |-> i, to |-> i]
  ELSE IF tag <= offset + 55 THEN [from |-> i + 1, to |-> i + tag - offset]
  ELSE LET k == tag - offset - 55
           length == Value(SubSeq(bytes, i + 1, i + k))
       IN  [from |-> i + 1 + k, to |-> i + k + length]

(* The byte strings of a list.                                             *)
DecodeList(bytes) ==
  LET body == Header(bytes, 1, 192)
      items[i \in body.from..(body.to + 1)] ==
        IF i = body.to + 1 THEN <<>>
        ELSE LET h == Header(bytes, i, 128)
             IN  <<SubSeq(bytes, h.from, h.to)>>
                   \o (IF h.to + 1 \in (i + 1)..(body.to + 1) THEN items[h.to + 1] ELSE <<>>)
  IN  IF body.to = Len(bytes) THEN items[body.from] ELSE <<>>

-----------------------------------------------------------------------------
(* Properties *)

(* A node reads the byte strings that were encoded, whichever they are: no *)
(* two lists share an encoding, and none is cut short.                     *)
ReadsBack(strings) == DecodeList(RlpList([i \in DOMAIN strings |-> RlpString(strings[i])])) = strings

(***************************************************************************)
(* What is signed is the transaction that is sent, on this chain alone:    *)
(* all the fields come back from what is sent, the chain among them, and   *)
(* a v that older transactions use never occurs.                           *)
(***************************************************************************)
TxReadsBack(tx, recovery) ==
  LET sent == DecodeList(SignedTx(tx, recovery, 1, 1))
      signed == DecodeList(SigningPayload(tx))
      v == Value(sent[7])
  IN  /\ SubSeq(sent, 1, 6) = SubSeq(signed, 1, 6)
      /\ Value(sent[1]) = tx.nonce /\ Value(sent[2]) = tx.gasPrice
      /\ Value(sent[3]) = tx.gasLimit /\ sent[4] = tx.to /\ sent[6] = tx.data
      /\ v \notin {27, 28} /\ (v - 35) \div 2 = tx.chainID /\ Value(signed[7]) = tx.chainID
=============================================================================
