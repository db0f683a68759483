--------------------------- MODULE GatewayProofs ---------------------------
(***************************************************************************)
(* What a request passes before it reaches a pipeline.                     *)
(*                                                                         *)
(* For any number of clients and proxies, any rate, burst and idle time    *)
(* that satisfy the module's assumptions: the limiter of ratelimit.go is a *)
(* token bucket for each client, and its map forgets the clients that left.*)
(*                                                                         *)
(* For any number of requests, tenants and keys, and any cap: a request    *)
(* acts only for a tenant it was entitled to act for, a revoked key opens  *)
(* at most one handler for each other slot of the cap, verifications are   *)
(* counted, and no slot of the cap is lost or invented.                    *)
(***************************************************************************)
EXTENDS MCGateway, SequenceTheorems, FiniteSetTheorems, TLAPS

-----------------------------------------------------------------------------
(* The rate limiter.                                                       *)

(* A bucket was used within a TTL of the last sweep, before or after it:   *)
(* the sweep keeps no older one, and the next request past a TTL sweeps.   *)
SweptInTime ==
  \A a \in Addresses : Tracked(a) =>
    /\ buckets[a].seen <= now
    /\ buckets[a].seen - lastSweep < TTL
    /\ lastSweep - buckets[a].seen <= TTL

LimiterInv == TypeOK /\ SweptInTime

-----------------------------------------------------------------------------
(* Whose bucket.                                                           *)

(***************************************************************************)
(* Whatever a client writes into X-Forwarded-For, it is charged to its own *)
(* address, provided as many proxies append to the header as are           *)
(* configured.                                                             *)
(***************************************************************************)
THEOREM ForgeriesAreIgnored ==
  ASSUME NEW client \in Clients, NEW forged \in Forged
  PROVE  ClientIP(Peer(client), forged \o Appended(client)) = client
<1> DEFINE chain == forged \o Appended(client)
<1>1. Hops \in Nat /\ client # NotAnIP
  BY Deployment, AddressesApart
<1>2. forged \in Seq(Addresses \cup {NotAnIP})
  BY Deployment DEF Forged
<1>3. CASE Hops > 0
  <2>1. Appended(client) \in Seq(Addresses)
    BY <1>1 DEF Appended, Addresses
  <2>2. Len(Appended(client)) = Hops /\ Appended(client)[1] = client
    BY <1>1, <1>3 DEF Appended
  <2> DEFINE own == Appended(client)
  <2> HIDE DEF own
  <2>3. /\ own \in Seq(Addresses \cup {NotAnIP}) /\ Len(own) = Hops /\ own[1] = client
        /\ chain = forged \o own
    BY <2>1, <2>2 DEF own
  <2>4. /\ Len(chain) = Len(forged) + Hops /\ Len(forged) \in Nat
        /\ chain[Len(forged) + 1] = client
    <3>1. /\ Len(forged \o own) = Len(forged) + Len(own)
          /\ \A i \in 1..(Len(forged) + Len(own)) :
               (forged \o own)[i] = IF i <= Len(forged) THEN forged[i] ELSE own[i - Len(forged)]
      BY <1>2, <2>3, ConcatProperties
    <3>2. Len(forged) \in Nat
      BY <1>2
    <3>3. /\ Len(forged) + 1 \in 1..(Len(forged) + Len(own)) /\ ~ Len(forged) + 1 <= Len(forged)
          /\ Len(forged) + 1 - Len(forged) = 1
      BY <1>1, <1>3, <2>3, <3>2
    <3>4. (forged \o own)[Len(forged) + 1] = own[1]
      BY <3>1, <3>3
    <3> HIDE DEF chain
    <3> QED
      BY <2>3, <3>1, <3>2, <3>4
  <2>5. ForwardedFor(chain) = client
    <3>1. Len(chain) - Hops + 1 = Len(forged) + 1
      BY <1>1, <2>4
    <3> HIDE DEF chain
    <3> QED
      BY <2>4, <3>1 DEF ForwardedFor
  <2> QED
    BY <1>1, <1>3, <2>4, <2>5 DEF ClientIP
<1>4. CASE Hops = 0
  BY <1>4 DEF ClientIP, Peer
<1> QED
  BY <1>1, <1>3, <1>4

-----------------------------------------------------------------------------
(* Arithmetic of the refill.                                               *)

LEMMA RefillTyped ==
  ASSUME NEW b \in Bucket \cup {NoBucket}, now \in Nat,
         b # NoBucket => b.seen <= now
  PROVE  Refill(b) \in 0..Burst
<1>1. Burst \in Nat /\ Rate \in Nat
  BY PositiveUnits
<1>2. CASE b = NoBucket
  BY <1>1, <1>2 DEF Refill
<1>3. CASE b # NoBucket
  <2>1. b.tokens \in Nat /\ b.seen \in Nat /\ now - b.seen \in Nat
    BY <1>1, <1>3, Deployment DEF Bucket
  <2>2. (now - b.seen) * Rate \in Nat
    BY <1>1, <2>1
  <2> QED
    BY <1>1, <1>3, <2>1, <2>2 DEF Refill, Lesser
<1> QED
  BY <1>2, <1>3

(* A bucket that the sweep drops was full.                                 *)
LEMMA DroppedIsFull ==
  ASSUME NEW b \in Bucket, now \in Nat, now - b.seen > TTL
  PROVE  Refill(b) = Burst
<1>1. /\ Burst \in Nat /\ Rate \in Nat /\ TTL \in Nat
      /\ b.tokens \in Nat /\ b.seen \in Nat /\ b # NoBucket
  BY PositiveUnits, PositiveTTL, Deployment, NullIsApart DEF Bucket
<1> DEFINE idle == now - b.seen
<1>2. idle \in Nat /\ idle >= TTL
  BY <1>1
<1>3. idle * Rate >= TTL * Rate /\ idle * Rate \in Nat /\ TTL * Rate \in Nat
  BY <1>1, <1>2
<1>4. Burst <= TTL * Rate
  BY <1>1, RefillsWithinTTL
<1>5. b.tokens + idle * Rate >= Burst
  BY <1>1, <1>3, <1>4
<1> QED
  BY <1>1, <1>3, <1>5 DEF Refill, Lesser

(* Dropping a bucket, then, is invisible to the client it belongs to.      *)
LEMMA SweepIsInvisible ==
  ASSUME LimiterInv, NEW a \in Addresses
  PROVE  Refill(Swept[a]) = Refill(buckets[a])
<1>1. now \in Nat /\ buckets[a] \in Bucket \cup {NoBucket}
  BY Deployment DEF LimiterInv, TypeOK
<1>2. CASE SweepDue /\ Tracked(a) /\ now - buckets[a].seen > TTL
  <2>1. buckets[a] \in Bucket
    BY <1>1, <1>2 DEF Tracked
  <2>2. Refill(buckets[a]) = Burst
    BY <1>1, <1>2, <2>1, DroppedIsFull
  <2> QED
    BY <1>2, <2>2 DEF Swept, Refill
<1>3. CASE ~ (SweepDue /\ Tracked(a) /\ now - buckets[a].seen > TTL)
  BY <1>3 DEF Swept
<1> QED
  BY <1>2, <1>3

(* Time fills every bucket by Rate, up to Burst.                           *)
FilledAt(b, t) ==
  IF b = NoBucket THEN Burst ELSE Lesser(Burst, b.tokens + (t - b.seen) * Rate)

LEMMA TickRefills ==
  ASSUME NEW b \in Bucket \cup {NoBucket}, NEW t \in Nat, b # NoBucket => b.seen <= t
  PROVE  FilledAt(b, t + 1) = Ideal!Refilled(FilledAt(b, t))
<1>1. Burst \in Nat /\ Rate \in Nat
  BY PositiveUnits
<1>2. CASE b = NoBucket
  BY <1>1, <1>2, PositiveUnits DEF FilledAt, Ideal!Refilled
<1>3. CASE b # NoBucket
  <2>1. b.tokens \in Nat /\ b.seen \in Nat
    BY <1>1, <1>3, Deployment DEF Bucket
  <2> DEFINE before == (t - b.seen) * Rate
  <2>2. before \in Int
    BY <1>1, <2>1
  <2> DEFINE after == ((t + 1) - b.seen) * Rate
  <2>3. after = before + Rate
    BY <1>1, <2>1
  <2>4. FilledAt(b, t) = Lesser(Burst, b.tokens + before)
    BY <1>3 DEF FilledAt
  <2>5. FilledAt(b, t + 1) = Lesser(Burst, b.tokens + after)
    BY <1>3 DEF FilledAt
  <2> HIDE DEF before, after
  <2> QED
    BY <1>1, <2>1, <2>2, <2>3, <2>4, <2>5 DEF Lesser, Ideal!Refilled
<1> QED
  BY <1>2, <1>3

-----------------------------------------------------------------------------
(* The steps, as a client sees them.                                       *)

(* What a decision is made from, and leaves behind.                        *)
Decided(c, grants) ==
  /\ grants <=> Level(c) >= Cost
  /\ Level(c)' = IF grants THEN Level(c) - Cost ELSE Level(c)
  /\ \A d \in Clients \ {c} : Level(d)' = Level(d)
  /\ granted' = IF grants THEN [granted EXCEPT ![c] = @ + 1] ELSE granted
  /\ last' = <<c, IF grants THEN "granted" ELSE "refused">>

LEMMA LevelTyped ==
  ASSUME LimiterInv, NEW a \in Addresses
  PROVE  Refill(buckets[a]) \in 0..Burst
<1>1. /\ buckets[a] \in Bucket \cup {NoBucket} /\ now \in Nat
      /\ buckets[a] # NoBucket => buckets[a].seen <= now
  BY Deployment DEF LimiterInv, TypeOK, SweptInTime, Tracked
<1> QED
  BY <1>1, RefillTyped

LEMMA RequestDecides ==
  ASSUME LimiterInv, NEW c \in Clients, NEW forged \in Forged, Request(c, forged)
  PROVE  \E grants \in BOOLEAN : Decided(c, grants)
<1> DEFINE tokens == Refill(Swept[c])
           grants == tokens >= Cost
           rest   == IF grants THEN tokens - Cost ELSE tokens
<1>1. c \in Addresses
  BY DEF Addresses
<1>2. /\ buckets' = [Swept EXCEPT ![c] = [tokens |-> rest, seen |-> now]]
      /\ granted' = [granted EXCEPT ![c] = IF grants THEN @ + 1 ELSE @]
      /\ last' = <<c, IF grants THEN "granted" ELSE "refused">>
      /\ now' = now
  BY ForgeriesAreIgnored DEF Request, Allow
<1>3. tokens = Level(c) /\ tokens \in 0..Burst
  BY <1>1, SweepIsInvisible, LevelTyped DEF Level
<1>4. rest \in 0..Burst
  BY <1>3, PositiveUnits
<1>5. Level(c)' = rest
  <2>1. buckets'[c] = [tokens |-> rest, seen |-> now]
    BY <1>1, <1>2 DEF Swept
  <2>2. now \in 0..MaxTime
    BY DEF LimiterInv, TypeOK
  <2>3. buckets'[c] # NoBucket
    BY <1>4, <2>1, <2>2, NullIsApart
  <2>4. (now - now) * Rate = 0
    BY <2>2, PositiveUnits, Deployment
  <2> HIDE DEF rest
  <2> QED
    BY <1>2, <1>4, <2>1, <2>3, <2>4, PositiveUnits DEF Level, Refill, Lesser
<1>6. ASSUME NEW d \in Clients \ {c} PROVE Level(d)' = Level(d)
  <2>1. d \in Addresses
    BY DEF Addresses
  <2>2. buckets'[d] = Swept[d]
    BY <1>2, <2>1 DEF Swept
  <2> QED
    BY <1>2, <2>1, <2>2, SweepIsInvisible DEF Level, Refill
<1>7. granted' = IF grants THEN [granted EXCEPT ![c] = @ + 1] ELSE granted
  BY <1>2 DEF LimiterInv, TypeOK
<1> QED
  BY <1>2, <1>3, <1>5, <1>6, <1>7 DEF Decided

(* The tick, for everybody.                                                *)
LEMMA TickFills ==
  ASSUME LimiterInv, Tick
  PROVE  /\ \A c \in Clients : Level(c)' = Ideal!Refilled(Level(c))
         /\ UNCHANGED <<granted, last>>
<1>1. ASSUME NEW c \in Clients PROVE Level(c)' = Ideal!Refilled(Level(c))
  <2>1. /\ buckets[c] \in Bucket \cup {NoBucket} /\ now \in Nat
        /\ buckets[c] # NoBucket => buckets[c].seen <= now
    BY Deployment DEF LimiterInv, TypeOK, SweptInTime, Tracked, Addresses
  <2>2. FilledAt(buckets[c], now + 1) = Ideal!Refilled(FilledAt(buckets[c], now))
    BY <2>1, TickRefills
  <2>3. Level(c) = FilledAt(buckets[c], now)
    BY DEF Level, Refill, FilledAt
  <2>4. Level(c)' = FilledAt(buckets[c], now + 1)
    BY DEF Tick, Level, Refill, FilledAt
  <2> QED
    BY <2>2, <2>3, <2>4
<1> QED
  BY <1>1 DEF Tick

-----------------------------------------------------------------------------
(* The invariant.                                                          *)

LEMMA InitLimiterInv == Init => LimiterInv
BY Deployment DEF Init, LimiterInv, TypeOK, SweptInTime, Tracked

LEMMA RequestLimiterInv ==
  ASSUME LimiterInv, NEW c \in Clients, NEW forged \in Forged, Request(c, forged)
  PROVE  LimiterInv'
<1> DEFINE tokens == Refill(Swept[c])
           rest   == IF tokens >= Cost THEN tokens - Cost ELSE tokens
<1>1. c \in Addresses
  BY DEF Addresses
<1>2. /\ buckets' = [Swept EXCEPT ![c] = [tokens |-> rest, seen |-> now]]
      /\ lastSweep' = IF SweepDue THEN now ELSE lastSweep
      /\ granted' = [granted EXCEPT ![c] = IF tokens >= Cost THEN @ + 1 ELSE @]
      /\ last' = <<c, IF tokens >= Cost THEN "granted" ELSE "refused">>
      /\ now' = now
  BY ForgeriesAreIgnored DEF Request, Allow
<1>3. tokens \in 0..Burst
  BY <1>1, SweepIsInvisible, LevelTyped
<1>4. rest \in 0..Burst
  BY <1>3, PositiveUnits
<1>5. now \in 0..MaxTime /\ now \in Nat /\ lastSweep \in {-TTL} \cup 0..now /\ TTL \in Nat /\ TTL > 0
  BY Deployment, PositiveTTL DEF LimiterInv, TypeOK
<1>6. [tokens |-> rest, seen |-> now] \in Bucket
  BY <1>4, <1>5 DEF Bucket
<1>7. Swept \in [Addresses -> Bucket \cup {NoBucket}]
  BY DEF Swept, LimiterInv, TypeOK
<1>8. /\ buckets'[c] = [tokens |-> rest, seen |-> now]
      /\ \A a \in Addresses \ {c} : buckets'[a] \in {buckets[a], NoBucket}
      /\ \A a \in Addresses \ {c} : buckets'[a] # NoBucket =>
           buckets'[a] = buckets[a] /\ ~ (SweepDue /\ now - buckets[a].seen > TTL)
  BY <1>1, <1>2 DEF Swept, Tracked
<1>9. TypeOK'
  <2>1. buckets' \in [Addresses -> Bucket \cup {NoBucket}]
    BY <1>2, <1>6, <1>7
  <2>2. granted' \in [Clients -> Nat]
    BY <1>2 DEF LimiterInv, TypeOK
  <2>3. last' \in Clients \X {"granted", "refused"}
    BY <1>2
  <2>4. lastSweep' \in {-TTL} \cup 0..now'
    BY <1>2, <1>5
  <2> QED
    BY <1>2, <1>5, <2>1, <2>2, <2>3, <2>4 DEF TypeOK
<1>10. SweptInTime'
  <2>1. ASSUME NEW a \in Addresses, Tracked(a)'
        PROVE  /\ buckets'[a].seen <= now'
               /\ buckets'[a].seen - lastSweep' < TTL
               /\ lastSweep' - buckets'[a].seen <= TTL
    <3>1. CASE a = c
      <4>1. buckets'[a].seen = now
        BY <1>8, <3>1
      <4> QED
        BY <1>2, <1>5, <4>1 DEF SweepDue
    <3>2. CASE a # c
      <4>1. buckets'[a] = buckets[a] /\ buckets[a] # NoBucket
            /\ ~ (SweepDue /\ now - buckets[a].seen > TTL)
        BY <1>8, <2>1, <3>2 DEF Tracked
      <4>2. buckets[a].seen \in Nat
        BY <4>1, Deployment DEF LimiterInv, TypeOK, Bucket
      <4>3. /\ buckets[a].seen <= now
            /\ buckets[a].seen - lastSweep < TTL
            /\ lastSweep - buckets[a].seen <= TTL
        BY <4>1 DEF LimiterInv, SweptInTime, Tracked
      <4> QED
        BY <1>2, <1>5, <4>1, <4>2, <4>3
    <3> QED
      BY <3>1, <3>2
  <2> QED
    BY <2>1 DEF SweptInTime
<1> QED
  BY <1>9, <1>10 DEF LimiterInv

LEMMA NextLimiterInv == LimiterInv /\ [Next]_vars => LimiterInv'
<1> SUFFICES ASSUME LimiterInv, [Next]_vars PROVE LimiterInv'
  OBVIOUS
<1>1. CASE Tick
  <2>1. TypeOK'
    BY <1>1, Deployment, PositiveTTL DEF Tick, LimiterInv, TypeOK
  <2>2. ASSUME NEW a \in Addresses, Tracked(a) PROVE buckets[a].seen <= now + 1
    BY <2>2, Deployment DEF LimiterInv, TypeOK, SweptInTime, Tracked, Bucket
  <2>3. SweptInTime'
    BY <1>1, <2>2 DEF Tick, LimiterInv, SweptInTime, Tracked
  <2> QED
    BY <2>1, <2>3 DEF LimiterInv
<1>2. ASSUME NEW c \in Clients, NEW forged \in Forged, Request(c, forged) PROVE LimiterInv'
  BY <1>2, RequestLimiterInv
<1>3. CASE UNCHANGED vars
  BY <1>3 DEF vars, LimiterInv, TypeOK, SweptInTime, Tracked
<1> QED
  BY <1>1, <1>2, <1>3 DEF Next

LEMMA LimiterInvariant == Spec => []LimiterInv
BY InitLimiterInv, NextLimiterInv, PTL DEF Spec

-----------------------------------------------------------------------------
(***************************************************************************)
(* Two tracked clients were last seen less than two TTLs apart.            *)
(***************************************************************************)
THEOREM LeaversAreForgotten == Spec => []IdleBucketsGo
<1>1. ASSUME LimiterInv, NEW a \in Addresses, NEW b \in Addresses, Tracked(a), Tracked(b)
      PROVE  buckets[a].seen - buckets[b].seen < 2 * TTL
  <2>1. buckets[a].seen \in Nat /\ buckets[b].seen \in Nat
    BY <1>1, Deployment DEF LimiterInv, TypeOK, Tracked, Bucket
  <2>2. lastSweep \in Int /\ TTL \in Nat
    BY <1>1, Deployment, PositiveTTL DEF LimiterInv, TypeOK
  <2>3. buckets[a].seen - lastSweep < TTL /\ lastSweep - buckets[b].seen <= TTL
    BY <1>1 DEF LimiterInv, SweptInTime
  <2> QED
    BY <2>1, <2>2, <2>3
<1>2. LimiterInv => IdleBucketsGo
  BY <1>1 DEF IdleBucketsGo
<1> QED
  BY <1>2, LimiterInvariant, PTL

(***************************************************************************)
(* No step hands out units that time did not bring in.                     *)
(***************************************************************************)
THEOREM NothingIsFree == Spec => NothingForFree
<1> DEFINE Fair(d) ==
      Cost * (granted'[d] - granted[d]) + (Level(d)' - Level(d)) <= Rate * (now' - now)
<1>1. ASSUME LimiterInv, [Next]_vars, NEW d \in Clients PROVE Fair(d)
  <2>1. /\ Level(d) \in 0..Burst /\ Burst \in Nat /\ Cost \in Nat /\ Rate \in Nat
        /\ granted \in [Clients -> Nat] /\ now \in Nat
    BY <1>1, LevelTyped, PositiveUnits, Deployment DEF Level, Addresses, LimiterInv, TypeOK
  <2>2. CASE Tick
    <3>1. Level(d)' = Ideal!Refilled(Level(d)) /\ granted' = granted /\ now' = now + 1
      BY <1>1, <2>2, TickFills DEF Tick
    <3>2. Level(d)' - Level(d) <= Rate /\ Level(d)' - Level(d) \in Int
      BY <2>1, <3>1 DEF Ideal!Refilled
    <3>3. Cost * (granted'[d] - granted[d]) = 0 /\ Rate * (now' - now) = Rate
      BY <2>1, <3>1
    <3> QED
      BY <2>1, <3>2, <3>3
  <2>3. ASSUME NEW c \in Clients, NEW forged \in Forged, Request(c, forged) PROVE Fair(d)
    <3>1. PICK grants \in BOOLEAN : Decided(c, grants)
      BY <1>1, <2>3, RequestDecides
    <3>2. now' = now /\ Rate * (now' - now) = 0
      BY <2>1, <2>3 DEF Request, Allow
    <3>3. CASE d = c /\ grants
      <4>1. granted'[d] - granted[d] = 1 /\ Level(d)' - Level(d) = -Cost
        BY <2>1, <3>1, <3>3 DEF Decided
      <4>2. Cost * 1 + (-Cost) <= 0
        BY <2>1
      <4> QED
        BY <3>2, <4>1, <4>2
    <3>4. CASE ~ (d = c /\ grants)
      <4>1. granted'[d] - granted[d] = 0 /\ Level(d)' - Level(d) = 0
        BY <2>1, <3>1, <3>4 DEF Decided
      <4>2. Cost * 0 + 0 <= 0
        BY <2>1
      <4> QED
        BY <3>2, <4>1, <4>2
    <3> QED
      BY <3>3, <3>4
  <2>4. CASE UNCHANGED vars
    <3>1. Level(d)' = Level(d) /\ granted' = granted /\ now' = now
      BY <2>4 DEF vars, Level, Refill
    <3>2. Cost * (granted'[d] - granted[d]) = 0 /\ Rate * (now' - now) = 0
      BY <2>1, <3>1
    <3> QED
      BY <2>1, <3>1, <3>2
  <2> QED
    BY <1>1, <2>2, <2>3, <2>4 DEF Next
<1>2. LimiterInv /\ [Next]_vars => 
        [\A c \in Clients : Cost * (granted'[c] - granted[c]) + (Level(c)' - Level(c))
                             <= Rate * (now' - now)]_vars
  BY <1>1
<1> QED
  BY <1>2, LimiterInvariant, PTL DEF Spec, NothingForFree

(***************************************************************************)
(* The limiter implements the token bucket: map, sweep and proxies do not  *)
(* show.                                                                   *)
(***************************************************************************)
THEOREM LimiterIsTokenBucket == Spec => ImplementsTokenBucket
<1> DEFINE level == [c \in Clients |-> Level(c)]
<1>1. Init => Ideal!Init
  BY DEF Init, Ideal!Init, Level, Refill, Addresses
<1>2. LimiterInv /\ [Next]_vars => [Ideal!Next]_<<level, granted, last>>
  <2> SUFFICES ASSUME LimiterInv, [Next]_vars PROVE [Ideal!Next]_<<level, granted, last>>
    OBVIOUS
  <2>1. CASE Tick
    <3>1. /\ \A c \in Clients : Level(c)' = Ideal!Refilled(Level(c))
          /\ UNCHANGED <<granted, last>>
      BY <2>1, TickFills
    <3>2. level' = [c \in Clients |-> Ideal!Refilled(level[c])]
      BY <3>1
    <3>3. Ideal!Tick
      BY <3>1, <3>2 DEF Ideal!Tick
    <3> QED
      BY <3>3 DEF Ideal!Next
  <2>2. ASSUME NEW c \in Clients, NEW forged \in Forged, Request(c, forged)
        PROVE  [Ideal!Next]_<<level, granted, last>>
    <3>1. PICK grants \in BOOLEAN : Decided(c, grants)
      BY <2>2, RequestDecides
    <3>2. /\ \A d \in Clients : level[d] = Level(d)
          /\ level' = [d \in Clients |-> Level(d)']
      OBVIOUS
    <3>3. CASE grants
      <4>1. level' = [level EXCEPT ![c] = @ - Cost]
        BY <3>1, <3>3 DEF Decided
      <4>2. Ideal!Grant(c)
        BY <3>1, <3>2, <3>3, <4>1 DEF Decided, Ideal!Grant
      <4> QED
        BY <4>2 DEF Ideal!Next
    <3>4. CASE ~ grants
      <4>1. level' = level
        BY <3>1, <3>4 DEF Decided
      <4>2. level[c] < Cost
        <5>1. Level(c) \in Int /\ Cost \in Int
          BY LevelTyped, PositiveUnits DEF Level, Addresses
        <5> QED
          BY <3>1, <3>2, <3>4, <5>1 DEF Decided
      <4>3. Ideal!Refuse(c)
        BY <3>1, <3>4, <4>1, <4>2 DEF Decided, Ideal!Refuse
      <4> QED
        BY <4>3 DEF Ideal!Next
    <3> QED
      BY <3>3, <3>4
  <2>3. CASE UNCHANGED vars
    BY <2>3 DEF vars, Level, Refill
  <2> QED
    BY <2>1, <2>2, <2>3 DEF Next
<1> QED
  BY <1>1, <1>2, LimiterInvariant, PTL DEF Spec, ImplementsTokenBucket, Ideal!Spec

-----------------------------------------------------------------------------
(* The middleware.                                                         *)

(* Only minted keys are handed out, and only those are presented, so that  *)
(* no key comes to life under a request that was refused it.               *)
TokensAreMinted ==
  /\ \A k \in issued : owner[k] # Nobody
  /\ \A r \in InFlight : req[r].token \in ApiKeys => owner[req[r].token] # Nobody

(* A key belongs to a tenant that exists, also while it is being saved:    *)
(* creating a tenant gives nobody's old key a new meaning.                 *)
OwnersExist ==
  /\ \A k \in ApiKeys : owner[k] # Nobody => orgStatus[owner[k]] # "none"
  /\ \A r \in InFlight : req[r].stage = "issuing" =>
       req[r].names \in Orgs /\ orgStatus[req[r].names] # "none"

(* The path of a route names what the route is about.                      *)
NamesFitRoutes ==
  \A r \in InFlight :
    /\ req[r].route = "issue" => req[r].names \in Orgs
    /\ req[r].route = "revoke" => req[r].names \in ApiKeys

(* The history misses nothing.                                             *)
EntitledIsNoted ==
  \A r \in InFlight : Entitled(req[r].token, orgStatus) \subseteq req[r].entitled

(* Only a tenant's verification is metered.                                *)
MeteringHasTenant ==
  \A r \in Requests : req[r].stage = "metering" => req[r].tenant # Nobody

Metering(o) == {r \in Requests : req[r].stage = "metering" /\ req[r].tenant = o}

(* What a look-up finds was noted.  Only what the first one found is of no *)
(* account any more once a tenant's route is reached.                      *)
FoundWasEntitled ==
  \A r \in Requests :
    req[r].tenant # Nobody /\ ~ (req[r].stage = "routed" /\ req[r].route = "tenant") =>
      req[r].tenant \in req[r].entitled

(* What one request's steps leave alone in the others.                     *)
Requested == NamesFitRoutes /\ MeteringHasTenant /\ FoundWasEntitled

(* Those who have read a key as good and will enter a handler by it.       *)
Holds(q, k) ==
  /\ q.token = k /\ q.tenant # Nobody
  /\ q.stage \in {"first", "second"} \/ (q.stage = "routed" /\ q.route # "tenant")

Holding(k) == {r \in Requests : Holds(req[r], k)}

(* Nobody joins those who held a key when it was revoked.                  *)
FewAreLate ==
  \A k \in ApiKeys :
    /\ k \notin revoked => late[k] = 0
    /\ k \in revoked => late[k] + Cardinality(Holding(k)) < MaxInFlight

TenancyInv ==
  /\ TenancyTypeOK /\ TokensAreMinted /\ OwnersExist /\ EntitledIsNoted /\ Requested
  /\ OneIsToldOfRevocation /\ VerificationsAreCounted /\ SlotsAreReturned /\ FewAreLate

-----------------------------------------------------------------------------
(* Lemmas                                                                  *)

(* A key that authenticates entitles its tenant.                           *)
LEMMA AuthenticatedIsEntitled ==
  ASSUME NEW token, Authenticated(token) # Nobody, TenancyTypeOK
  PROVE  Authenticated(token) \in Entitled(token, orgStatus)
BY DEF Authenticated, Entitled, TenancyTypeOK

(* The slots of a request that answers are those of the others.            *)
LEMMA RespondSlots ==
  ASSUME TenancyTypeOK, SlotsAreReturned, NEW r \in InFlight, NEW code, Respond(r, code)
  PROVE  SlotsAreReturned' /\ slots' \in 0..MaxInFlight
<1>1. IsFiniteSet(InFlight)
  BY TenantsAssumption, FS_Subset DEF InFlight
<1>2. InFlight' = InFlight \ {r}
  BY DEF InFlight, Respond, Gone, TenancyTypeOK
<1>3. Cardinality(InFlight \ {r}) = Cardinality(InFlight) - 1
  BY <1>1, FS_RemoveElement
<1>4. Cardinality(InFlight \ {r}) \in Nat
  BY <1>1, FS_RemoveElement, FS_CardinalityType
<1> QED
  BY <1>2, <1>3, <1>4, MaxInFlightAssumption DEF SlotsAreReturned, Respond, TenancyTypeOK

(* A request that goes on keeps its slot.                                  *)
LEMMA AdvanceSlots ==
  ASSUME TenancyTypeOK, SlotsAreReturned, NEW r \in InFlight, NEW to, NEW tenant,
         to # "none", Advance(r, to, tenant)
  PROVE  SlotsAreReturned' /\ slots' \in 0..MaxInFlight
<1>1. InFlight' = InFlight
  BY DEF InFlight, Advance, TenancyTypeOK
<1> QED
  BY <1>1 DEF SlotsAreReturned, Advance, TenancyTypeOK

(* What a request is on its way.                                           *)
Stages == {"optional", "first", "routed", "second", "serving", "issuing", "metering"}
RequestType ==
  [stage : {"none"} \cup Stages, route : Routes, token : ApiKeys \cup {AdminToken, Nobody},
   names : Orgs \cup ApiKeys \cup {Nobody}, tenant : Orgs \cup {Nobody},
   entitled : SUBSET Orgs]

LEMMA RequestsTyped == TenancyTypeOK => req \in [Requests -> RequestType]
BY DEF TenancyTypeOK, RequestType, Stages

(* A request that answers is gone, and the others are as they were.        *)
LEMMA RespondRequests ==
  ASSUME TenancyTypeOK, Requested, NEW r \in InFlight, NEW code, Respond(r, code)
  PROVE  /\ req' \in [Requests -> RequestType]
         /\ InFlight' = InFlight \ {r} /\ req'[r] = Gone
         /\ \A q \in Requests \ {r} : req'[q] = req[q]
         /\ Requested'
<1>1. Gone \in RequestType
  BY DEF Gone, RequestType, Routes
<1>2. req' \in [Requests -> RequestType]
  BY <1>1, RequestsTyped DEF Respond, InFlight
<1>3. /\ InFlight' = InFlight \ {r} /\ req'[r] = Gone
      /\ \A q \in Requests \ {r} : req'[q] = req[q]
  BY DEF InFlight, Respond, Gone, TenancyTypeOK
<1> QED
  BY <1>2, <1>3 DEF Requested, NamesFitRoutes, MeteringHasTenant, FoundWasEntitled, Gone, InFlight

(* A request that goes on differs in its stage and its tenant.             *)
LEMMA AdvanceRequests ==
  ASSUME TenancyTypeOK, Requested, NEW r \in InFlight, NEW to \in Stages,
         NEW tenant \in Orgs \cup {Nobody}, Advance(r, to, tenant),
         tenant # Nobody => tenant \in req[r].entitled,
         to = "metering" => tenant # Nobody
  PROVE  /\ req' \in [Requests -> RequestType]
         /\ InFlight' = InFlight
         /\ req'[r] = [req[r] EXCEPT !.stage = to, !.tenant = tenant]
         /\ \A q \in Requests \ {r} : req'[q] = req[q]
         /\ Requested'
<1>1. req[r] \in RequestType /\ to # "none"
  BY RequestsTyped DEF InFlight, Stages
<1>2. /\ req' = [req EXCEPT ![r] = [req[r] EXCEPT !.stage = to, !.tenant = tenant]]
      /\ r \in Requests
  BY RequestsTyped, <1>1 DEF Advance, InFlight, RequestType
<1>3. [req[r] EXCEPT !.stage = to, !.tenant = tenant] \in RequestType
  BY <1>1 DEF RequestType
<1>4. req' \in [Requests -> RequestType]
  BY <1>2, <1>3, RequestsTyped
<1>5. req'[r] = [req[r] EXCEPT !.stage = to, !.tenant = tenant]
  BY <1>2, RequestsTyped
<1>6. \A q \in Requests \ {r} : req'[q] = req[q]
  BY <1>2, RequestsTyped
<1>7. /\ req'[r].stage = to /\ req'[r].tenant = tenant /\ req'[r].route = req[r].route
      /\ req'[r].names = req[r].names /\ req'[r].entitled = req[r].entitled
      /\ req'[r].token = req[r].token
  BY <1>5, <1>1 DEF RequestType
<1>8. InFlight' = InFlight
  BY <1>1, <1>2, <1>6, <1>7 DEF InFlight
<1>9. NamesFitRoutes' /\ MeteringHasTenant'
  BY <1>2, <1>6, <1>7, <1>8 DEF Requested, NamesFitRoutes, MeteringHasTenant, InFlight
<1>10. FoundWasEntitled'
  BY <1>2, <1>6, <1>7 DEF Requested, FoundWasEntitled
<1> QED
  BY <1>4, <1>5, <1>6, <1>8, <1>9, <1>10 DEF Requested

(* One that reaches its route keeps its slot, and its history starts anew  *)
(* where the look-up is repeated.                                          *)
LEMMA RouteRequests ==
  ASSUME TenancyTypeOK, Requested, SlotsAreReturned, NEW r \in InFlight,
         NEW tenant \in Orgs \cup {Nobody}, Route(r, tenant),
         tenant # Nobody => tenant \in req[r].entitled
  PROVE  /\ req' \in [Requests -> RequestType]
         /\ InFlight' = InFlight
         /\ req'[r].stage = "routed" /\ req'[r].tenant = tenant
         /\ req'[r].route = req[r].route
         /\ req'[r].token = req[r].token /\ req'[r].names = req[r].names
         /\ req'[r].entitled \in {req[r].entitled, Entitled(req[r].token, orgStatus)}
         /\ \A q \in Requests \ {r} : req'[q] = req[q]
         /\ Requested' /\ SlotsAreReturned' /\ slots' \in 0..MaxInFlight
<1> DEFINE kept == IF req[r].route = "tenant" THEN Entitled(req[r].token, orgStatus)
                   ELSE req[r].entitled
           moved == [req[r] EXCEPT !.stage = "routed", !.tenant = tenant, !.entitled = kept]
<1>1. req[r] \in RequestType /\ r \in Requests
  BY RequestsTyped DEF InFlight
<1>2. kept \in SUBSET Orgs
  BY <1>1 DEF RequestType, Entitled
<1>3. req' = [req EXCEPT ![r] = moved]
  BY <1>1, RequestsTyped DEF Route, RequestType
<1>4. moved \in RequestType
  BY <1>1, <1>2 DEF RequestType, Stages
<1>5. /\ moved.stage = "routed" /\ moved.tenant = tenant /\ moved.route = req[r].route
      /\ moved.token = req[r].token /\ moved.names = req[r].names /\ moved.entitled = kept
  BY <1>1 DEF RequestType
<1> HIDE DEF moved
<1>6. /\ req' \in [Requests -> RequestType] /\ req'[r] = moved
      /\ \A q \in Requests \ {r} : req'[q] = req[q]
  BY <1>1, <1>3, <1>4, RequestsTyped
<1>7. InFlight' = InFlight
  BY <1>1, <1>5, <1>6 DEF InFlight
<1>8. NamesFitRoutes' /\ MeteringHasTenant'
  BY <1>1, <1>5, <1>6, <1>7 DEF Requested, NamesFitRoutes, MeteringHasTenant, InFlight
<1>9. FoundWasEntitled'
  BY <1>1, <1>5, <1>6 DEF Requested, FoundWasEntitled
<1>10. SlotsAreReturned' /\ slots' \in 0..MaxInFlight
  BY <1>7 DEF SlotsAreReturned, Route, TenancyTypeOK
<1> QED
  BY <1>5, <1>6, <1>7, <1>8, <1>9, <1>10 DEF Requested

-----------------------------------------------------------------------------
(* Steps that leave the tables alone                                       *)

(* Where nothing but one request changes, and it is not metered before or  *)
(* after, all counts stand.                                                *)
LEMMA ElsewhereStands ==
  ASSUME TenancyInv, NEW r \in InFlight,
         UNCHANGED <<tables, withdrawn, alarmed, verified, unmetered>>,
         late' \in [ApiKeys -> Nat],
         req' \in [Requests -> RequestType], slots' \in 0..MaxInFlight,
         req[r].stage # "metering", req'[r].stage # "metering",
         InFlight' \subseteq InFlight,
         \A q \in Requests \ {r} : req'[q] = req[q],
         r \in InFlight' => /\ req'[r].token = req[r].token
                            /\ Entitled(req[r].token, orgStatus) \subseteq req'[r].entitled
                            /\ req'[r].stage = "issuing" =>
                                 req'[r].names \in Orgs /\ orgStatus[req'[r].names] # "none"
  PROVE  /\ TenancyTypeOK' /\ TokensAreMinted' /\ OwnersExist' /\ EntitledIsNoted'
         /\ OneIsToldOfRevocation' /\ VerificationsAreCounted'
<1> USE DEF TenancyInv, tables
<1>1. TenancyTypeOK'
  BY DEF TenancyTypeOK, RequestType, Stages
<1>2. TokensAreMinted'
  BY DEF TokensAreMinted, InFlight
<1>3. OwnersExist'
  BY DEF OwnersExist, InFlight
<1>4. EntitledIsNoted'
  BY DEF EntitledIsNoted, InFlight, Entitled
<1>5. OneIsToldOfRevocation'
  BY DEF OneIsToldOfRevocation
<1>6. \A o \in Orgs : {q \in Requests : req'[q].stage = "metering" /\ req'[q].tenant = o}
                       = {q \in Requests : req[q].stage = "metering" /\ req[q].tenant = o}
  BY DEF InFlight
<1>7. VerificationsAreCounted'
  BY <1>6 DEF VerificationsAreCounted
<1> QED
  BY <1>1, <1>2, <1>3, <1>4, <1>5, <1>7

(* Where nobody joins those who hold a revoked key, no more can be late.   *)
LEMMA KeyStands ==
  ASSUME TenancyInv, NEW k \in revoked, late' = late,
         \A q \in Requests : Holds(req'[q], k) => Holds(req[q], k)
  PROVE  late'[k] + Cardinality(Holding(k)') < MaxInFlight
<1>1. Holding(k)' \subseteq Holding(k)
  BY DEF Holding
<1>2. IsFiniteSet(Holding(k))
  BY TenantsAssumption, FS_Subset DEF Holding
<1>3. /\ Cardinality(Holding(k)') <= Cardinality(Holding(k))
      /\ Cardinality(Holding(k)') \in Nat /\ Cardinality(Holding(k)) \in Nat
  BY <1>1, <1>2, FS_Subset, FS_CardinalityType
<1>4. late[k] \in Nat /\ late'[k] = late[k] /\ k \in ApiKeys
  BY DEF TenancyInv, TenancyTypeOK
<1>5. late[k] + Cardinality(Holding(k)) < MaxInFlight
  BY <1>4 DEF TenancyInv, FewAreLate
<1> QED
  BY <1>3, <1>4, <1>5, MaxInFlightAssumption

LEMMA LateStands ==
  ASSUME TenancyInv, UNCHANGED <<revoked, late>>,
         \A k \in revoked : \A q \in Requests : Holds(req'[q], k) => Holds(req[q], k)
  PROVE  FewAreLate'
<1>1. \A k \in revoked' : late'[k] + Cardinality(Holding(k)') < MaxInFlight
  BY KeyStands
<1>2. \A k \in ApiKeys : k \notin revoked' => late'[k] = 0
  BY DEF TenancyInv, FewAreLate
<1> QED
  BY <1>1, <1>2 DEF FewAreLate

(* Who enters a handler with a revoked key was one of those who held it.   *)
LEMMA OneMoreIsLate ==
  ASSUME TenancyInv, NEW r \in InFlight, revoked' = revoked,
         late' = [k \in ApiKeys |->
                   IF k = req[r].token /\ k \in revoked /\ req[r].tenant # Nobody
                   THEN late[k] + 1 ELSE late[k]],
         Holds(req[r], req[r].token) \/ req[r].tenant = Nobody,
         \A k : ~ Holds(req'[r], k),
         \A q \in Requests \ {r} : req'[q] = req[q]
  PROVE  FewAreLate'
<1>1. ASSUME NEW k \in ApiKeys, k \in revoked
      PROVE  late'[k] + Cardinality(Holding(k)') < MaxInFlight
  <2>1. Holding(k)' = Holding(k) \ {r}
    BY DEF Holding
  <2>2. IsFiniteSet(Holding(k)) /\ Cardinality(Holding(k)) \in Nat
    BY TenantsAssumption, FS_Subset, FS_CardinalityType DEF Holding
  <2>3. /\ late[k] \in Nat
        /\ late[k] + Cardinality(Holding(k)) < MaxInFlight
    BY <1>1 DEF TenancyInv, FewAreLate, TenancyTypeOK
  <2>4. CASE k = req[r].token /\ req[r].tenant # Nobody
    <3>1. r \in Holding(k)
      BY <2>4 DEF Holding, InFlight
    <3>2. Cardinality(Holding(k)') = Cardinality(Holding(k)) - 1
      BY <2>1, <2>2, <3>1, FS_RemoveElement
    <3>3. late'[k] = late[k] + 1
      BY <1>1, <2>4
    <3> QED
      BY <2>2, <2>3, <3>2, <3>3, MaxInFlightAssumption
  <2>5. CASE ~ (k = req[r].token /\ req[r].tenant # Nobody)
    <3>1. r \notin Holding(k)
      BY <2>5 DEF Holding, Holds
    <3>2. Holding(k)' = Holding(k) /\ late'[k] = late[k]
      BY <1>1, <2>1, <2>5, <3>1
    <3> QED
      BY <2>3, <3>2
  <2> QED
    BY <2>4, <2>5
<1>2. \A k \in ApiKeys : k \notin revoked' => late'[k] = 0
  BY DEF TenancyInv, FewAreLate
<1> QED
  BY <1>1, <1>2 DEF FewAreLate

LEMMA RespondTenancyInv ==
  ASSUME TenancyInv, NEW r \in InFlight, NEW code, Respond(r, code), UNCHANGED <<tables, tally>>,
         req[r].stage # "metering"
  PROVE  TenancyInv'
<1>1. SlotsAreReturned' /\ slots' \in 0..MaxInFlight
  BY RespondSlots DEF TenancyInv
<1>2. /\ req' \in [Requests -> RequestType]
      /\ InFlight' = InFlight \ {r} /\ req'[r] = Gone
      /\ \A q \in Requests \ {r} : req'[q] = req[q]
      /\ Requested'
  BY RespondRequests DEF TenancyInv
<1>3. req'[r].stage # "metering" /\ r \notin InFlight' /\ InFlight' \subseteq InFlight
  BY <1>2 DEF Gone
<1>4. UNCHANGED <<revoked, late, withdrawn, alarmed, verified, unmetered>>
      /\ late' \in [ApiKeys -> Nat]
  BY DEF tables, tally, TenancyInv, TenancyTypeOK
<1>5. FewAreLate'
  BY <1>2, <1>4, LateStands DEF Gone, Holds
<1> QED
  BY <1>1, <1>2, <1>3, <1>4, <1>5, ElsewhereStands DEF TenancyInv

(* Going on, without entering a handler by way of a look-up: what is found *)
(* meanwhile is not a revoked key's.                                       *)
LEMMA AdvanceTenancyInv ==
  ASSUME TenancyInv, NEW r \in InFlight, NEW to \in Stages \ {"routed", "metering"},
         NEW tenant \in Orgs \cup {Nobody}, Advance(r, to, tenant), UNCHANGED <<tables, tally>>,
         tenant # Nobody => tenant \in req[r].entitled /\ req[r].token \notin revoked,
         to = "issuing" => req[r].names \in Orgs /\ orgStatus[req[r].names] # "none",
         req[r].stage # "metering"
  PROVE  TenancyInv'
<1>1. SlotsAreReturned' /\ slots' \in 0..MaxInFlight
  BY AdvanceSlots DEF TenancyInv, Stages
<1>2. /\ req' \in [Requests -> RequestType]
      /\ InFlight' = InFlight
      /\ req'[r] = [req[r] EXCEPT !.stage = to, !.tenant = tenant]
      /\ \A q \in Requests \ {r} : req'[q] = req[q]
      /\ Requested'
  BY AdvanceRequests DEF TenancyInv
<1>3. req[r] \in RequestType
  BY RequestsTyped DEF TenancyInv, InFlight
<1>4. /\ req'[r].stage = to /\ req'[r].token = req[r].token /\ req'[r].tenant = tenant
      /\ req'[r].entitled = req[r].entitled /\ req'[r].names = req[r].names
  BY <1>2, <1>3 DEF RequestType
<1>5. UNCHANGED <<revoked, late, withdrawn, alarmed, verified, unmetered>>
      /\ late' \in [ApiKeys -> Nat]
  BY DEF tables, tally, TenancyInv, TenancyTypeOK
<1>6. FewAreLate'
  <2>1. ASSUME NEW k \in revoked, NEW q \in Requests, Holds(req'[q], k) PROVE Holds(req[q], k)
    <3>1. CASE q = r
      BY <1>4, <2>1, <3>1 DEF Holds
    <3>2. CASE q # r
      BY <1>2, <2>1, <3>2
    <3> QED
      BY <3>1, <3>2
  <2> QED
    BY <1>5, <2>1, LateStands
<1>7. Entitled(req[r].token, orgStatus) \subseteq req'[r].entitled
  BY <1>4 DEF TenancyInv, EntitledIsNoted
<1> QED
  BY <1>1, <1>2, <1>4, <1>5, <1>6, <1>7, ElsewhereStands DEF TenancyInv

LEMMA RouteTenancyInv ==
  ASSUME TenancyInv, NEW r \in InFlight, NEW tenant \in Orgs \cup {Nobody}, Route(r, tenant),
         UNCHANGED <<tables, tally>>, req[r].stage # "metering",
         tenant # Nobody => req[r].stage = "first" /\ tenant = req[r].tenant
  PROVE  TenancyInv'
<1>1. tenant # Nobody => tenant \in req[r].entitled
  BY DEF TenancyInv, Requested, FoundWasEntitled, InFlight
<1>2. /\ req' \in [Requests -> RequestType]
      /\ InFlight' = InFlight
      /\ req'[r].stage = "routed" /\ req'[r].tenant = tenant
      /\ req'[r].route = req[r].route
      /\ req'[r].token = req[r].token /\ req'[r].names = req[r].names
      /\ req'[r].entitled \in {req[r].entitled, Entitled(req[r].token, orgStatus)}
      /\ \A q \in Requests \ {r} : req'[q] = req[q]
      /\ Requested' /\ SlotsAreReturned' /\ slots' \in 0..MaxInFlight
  BY <1>1, RouteRequests DEF TenancyInv
<1>3. Entitled(req[r].token, orgStatus) \subseteq req'[r].entitled
  BY <1>2 DEF TenancyInv, EntitledIsNoted
<1>4. UNCHANGED <<revoked, late, withdrawn, alarmed, verified, unmetered>>
      /\ late' \in [ApiKeys -> Nat]
  BY DEF tables, tally, TenancyInv, TenancyTypeOK
<1>5. FewAreLate'
  BY <1>2, <1>4, LateStands DEF Holds
<1> QED
  BY <1>2, <1>3, <1>4, <1>5, ElsewhereStands DEF TenancyInv

LEMMA EnterTenancyInv ==
  ASSUME TenancyInv, NEW r \in InFlight, Enter(r),
         \/ req[r].stage = "second"
         \/ req[r].stage = "routed" /\ req[r].route # "tenant"
  PROVE  TenancyInv'
<1> DEFINE tenant == req[r].tenant
<1>1. /\ tenant \in Orgs \cup {Nobody}
      /\ tenant # Nobody => tenant \in req[r].entitled
  BY DEF TenancyInv, Requested, FoundWasEntitled, TenancyTypeOK, InFlight
<1>2. /\ Advance(r, "serving", tenant)
      /\ UNCHANGED <<tables, withdrawn, alarmed, verified, unmetered>> /\ revoked' = revoked
  BY DEF Enter, tables
<1>3. SlotsAreReturned' /\ slots' \in 0..MaxInFlight
  BY <1>2, AdvanceSlots DEF TenancyInv
<1>4. /\ req' \in [Requests -> RequestType]
      /\ InFlight' = InFlight
      /\ req'[r] = [req[r] EXCEPT !.stage = "serving", !.tenant = tenant]
      /\ \A q \in Requests \ {r} : req'[q] = req[q]
      /\ Requested'
  BY <1>1, <1>2, AdvanceRequests DEF TenancyInv, Stages
<1>5. req[r] \in RequestType
  BY RequestsTyped DEF TenancyInv, InFlight
<1>6. /\ req'[r].stage = "serving" /\ req'[r].token = req[r].token
      /\ req'[r].entitled = req[r].entitled /\ req'[r].names = req[r].names
  BY <1>4, <1>5 DEF RequestType
<1>7. late' \in [ApiKeys -> Nat]
  BY DEF Enter, TenancyInv, TenancyTypeOK
<1>8. FewAreLate'
  BY <1>2, <1>4, <1>6, OneMoreIsLate DEF Enter, Holds
<1>9. Entitled(req[r].token, orgStatus) \subseteq req'[r].entitled
  BY <1>6 DEF TenancyInv, EntitledIsNoted
<1> QED
  BY <1>2, <1>3, <1>4, <1>6, <1>7, <1>8, <1>9, ElsewhereStands DEF TenancyInv

(* What authentication finds was noted, and is a tenant or nobody; the key *)
(* of a tenant that is found has not been revoked.                         *)
LEMMA LookUp ==
  ASSUME TenancyInv, NEW r \in InFlight
  PROVE  /\ Authenticated(req[r].token) \in Orgs \cup {Nobody}
         /\ Authenticated(req[r].token) # Nobody =>
              /\ Authenticated(req[r].token) \in req[r].entitled
              /\ req[r].token \notin revoked
<1>1. Authenticated(req[r].token) \in Orgs \cup {Nobody}
  BY DEF Authenticated, TenancyInv, TenancyTypeOK
<1>2. ASSUME Authenticated(req[r].token) # Nobody
      PROVE  Authenticated(req[r].token) \in req[r].entitled /\ req[r].token \notin revoked
  <2>1. Authenticated(req[r].token) \in Entitled(req[r].token, orgStatus)
    BY <1>2, AuthenticatedIsEntitled DEF TenancyInv
  <2> QED
    BY <1>2, <2>1 DEF TenancyInv, EntitledIsNoted, Authenticated
<1> QED
  BY <1>1, <1>2

LEMMA FirstLookUpTenancyInv == ASSUME TenancyInv, NEW r \in Requests, FirstLookUp(r) PROVE TenancyInv'
<1>1. r \in InFlight /\ req[r].stage # "metering" /\ UNCHANGED <<tables, tally>>
  BY DEF FirstLookUp, InFlight
<1>2. CASE Advance(r, "first", Authenticated(req[r].token))
  BY <1>1, <1>2, LookUp, AdvanceTenancyInv DEF Stages
<1>3. CASE Route(r, Nobody)
  BY <1>1, <1>3, RouteTenancyInv
<1> QED
  BY <1>2, <1>3 DEF FirstLookUp

LEMMA OptionalAuthTenancyInv == ASSUME TenancyInv, NEW r \in Requests, OptionalAuth(r) PROVE TenancyInv'
<1>1. r \in InFlight /\ req[r].stage = "first" /\ UNCHANGED <<tables, tally>>
  BY DEF OptionalAuth, InFlight
<1>2. req[r].tenant \in Orgs \cup {Nobody}
  BY <1>1 DEF TenancyInv, TenancyTypeOK, InFlight
<1> QED
  BY <1>1, <1>2, RouteTenancyInv DEF OptionalAuth

LEMMA SecondLookUpTenancyInv == ASSUME TenancyInv, NEW r \in Requests, SecondLookUp(r) PROVE TenancyInv'
<1>1. r \in InFlight /\ req[r].stage # "metering" /\ UNCHANGED <<tables, tally>>
  BY DEF SecondLookUp, InFlight
<1>2. CASE Advance(r, "second", SecondLook(r))
  BY <1>1, <1>2, LookUp, AdvanceTenancyInv DEF Stages, SecondLook
<1>3. CASE Respond(r, 401)
  BY <1>1, <1>3, RespondTenancyInv
<1>4. CASE Respond(r, 500)
  BY <1>1, <1>4, RespondTenancyInv
<1> QED
  BY <1>2, <1>3, <1>4 DEF SecondLookUp

LEMMA TenantAuthTenancyInv == ASSUME TenancyInv, NEW r \in Requests, TenantAuth(r) PROVE TenancyInv'
<1>1. r \in InFlight /\ req[r].stage = "second"
  BY DEF TenantAuth, InFlight
<1>2. CASE Enter(r)
  BY <1>1, <1>2, EnterTenancyInv
<1>3. CASE Respond(r, 401) /\ UNCHANGED <<tables, tally>>
  BY <1>1, <1>3, RespondTenancyInv
<1> QED
  BY <1>2, <1>3 DEF TenantAuth

LEMMA OtherAuthTenancyInv == ASSUME TenancyInv, NEW r \in Requests, OtherAuth(r) PROVE TenancyInv'
<1>1. r \in InFlight /\ req[r].stage = "routed" /\ req[r].route # "tenant"
  BY DEF OtherAuth, InFlight
<1>2. CASE Enter(r)
  BY <1>1, <1>2, EnterTenancyInv
<1>3. CASE Respond(r, 401) /\ UNCHANGED <<tables, tally>>
  BY <1>1, <1>3, RespondTenancyInv
<1> QED
  BY <1>2, <1>3 DEF OtherAuth

LEMMA FindOrgTenancyInv == ASSUME TenancyInv, NEW r \in Requests, FindOrg(r) PROVE TenancyInv'
<1>1. r \in InFlight /\ req[r].stage # "metering" /\ UNCHANGED <<tables, tally>>
  BY DEF FindOrg, Serving, InFlight
<1>2. req[r].names \in Orgs
  BY <1>1 DEF FindOrg, Serving, TenancyInv, Requested, NamesFitRoutes
<1>3. CASE orgStatus[req[r].names] # "none" /\ Advance(r, "issuing", Nobody)
  BY <1>1, <1>2, <1>3, AdvanceTenancyInv DEF Stages
<1>4. CASE Respond(r, 404)
  BY <1>1, <1>4, RespondTenancyInv
<1>5. CASE Respond(r, 500)
  BY <1>1, <1>5, RespondTenancyInv
<1> QED
  BY <1>3, <1>4, <1>5 DEF FindOrg

LEMMA ServeTenancyInv == ASSUME TenancyInv, NEW r \in Requests, Serve(r) PROVE TenancyInv'
<1>1. r \in InFlight /\ req[r].stage # "metering" /\ UNCHANGED <<tables, tally>>
  BY DEF Serve, Serving, InFlight
<1> QED
  BY <1>1, RespondTenancyInv DEF Serve

-----------------------------------------------------------------------------
(* Steps that change a table                                               *)

LEMMA CreateOrgTenancyInv == ASSUME TenancyInv, NEW r \in Requests, CreateOrg(r) PROVE TenancyInv'
<1>1. r \in InFlight /\ req[r].stage = "serving"
  BY DEF CreateOrg, Serving, InFlight
<1>2. CASE UNCHANGED orgStatus /\ Respond(r, 500)
  BY <1>1, <1>2, RespondTenancyInv DEF CreateOrg, tables
<1>3. ASSUME NEW o \in Orgs, NEW code, orgStatus[o] = "none",
             orgStatus' = [orgStatus EXCEPT ![o] = "active"], Respond(r, code)
      PROVE  TenancyInv'
  <2> USE DEF TenancyInv
  <2>1. SlotsAreReturned' /\ slots' \in 0..MaxInFlight
    BY <1>1, <1>3, RespondSlots
  <2>2. /\ req' \in [Requests -> RequestType]
        /\ InFlight' = InFlight \ {r} /\ req'[r] = Gone
        /\ \A q \in Requests \ {r} : req'[q] = req[q]
        /\ Requested'
    BY <1>1, <1>3, RespondRequests
  <2>3. UNCHANGED <<owner, revoked, issued, usage, withdrawn, alarmed, late, verified, unmetered>>
    BY DEF CreateOrg, tally
  <2>4. TenancyTypeOK'
    BY <1>3, <2>1, <2>2, <2>3 DEF TenancyTypeOK, RequestType, Stages
  <2>5. TokensAreMinted'
    BY <2>2, <2>3 DEF TokensAreMinted, InFlight
  <2>6. OwnersExist'
    BY <1>3, <2>2, <2>3 DEF OwnersExist, InFlight, TenancyTypeOK
  <2>7. \A k \in ApiKeys : owner[k] # o
    BY <1>3, TenantsAssumption DEF OwnersExist
  <2>8. \A t : Entitled(t, orgStatus)' = Entitled(t, orgStatus)
    BY <1>3, <2>3, <2>7 DEF Entitled, TenancyTypeOK
  <2>9. EntitledIsNoted'
    BY <2>2, <2>8 DEF EntitledIsNoted, InFlight
  <2>10. OneIsToldOfRevocation'
    BY <2>3 DEF OneIsToldOfRevocation
  <2>11. \A p \in Orgs : {q \in Requests : req'[q].stage = "metering" /\ req'[q].tenant = p}
                         = {q \in Requests : req[q].stage = "metering" /\ req[q].tenant = p}
    BY <1>1, <2>2 DEF Gone
  <2>12. VerificationsAreCounted'
    BY <2>3, <2>11 DEF VerificationsAreCounted
  <2>13. FewAreLate'
    BY <2>2, <2>3, LateStands DEF Gone, Holds
  <2> QED
    BY <2>1, <2>2, <2>4, <2>5, <2>6, <2>9, <2>10, <2>12, <2>13
<1> QED
  BY <1>2, <1>3 DEF CreateOrg

LEMMA SaveAPIKeyTenancyInv == ASSUME TenancyInv, NEW r \in Requests, SaveAPIKey(r) PROVE TenancyInv'
<1>1. r \in InFlight /\ req[r].stage = "issuing"
  BY DEF SaveAPIKey, InFlight
<1>2. CASE UNCHANGED <<owner, issued>> /\ Respond(r, 500)
  BY <1>1, <1>2, RespondTenancyInv DEF SaveAPIKey, tables
<1>3. ASSUME NEW k \in ApiKeys, NEW code, owner[k] = Nobody,
             owner' = [owner EXCEPT ![k] = req[r].names],
             issued' = IF code = 201 THEN issued \cup {k} ELSE issued, Respond(r, code)
      PROVE  TenancyInv'
  <2> USE DEF TenancyInv
  <2>1. SlotsAreReturned' /\ slots' \in 0..MaxInFlight
    BY <1>1, <1>3, RespondSlots
  <2>2. /\ req' \in [Requests -> RequestType]
        /\ InFlight' = InFlight \ {r} /\ req'[r] = Gone
        /\ \A q \in Requests \ {r} : req'[q] = req[q]
        /\ Requested'
    BY <1>1, <1>3, RespondRequests
  <2>3. UNCHANGED <<orgStatus, revoked, usage, withdrawn, alarmed, late, verified, unmetered>>
    BY DEF SaveAPIKey, tally
  <2>4. req[r].names \in Orgs /\ orgStatus[req[r].names] # "none"
    BY <1>1 DEF OwnersExist
  <2>5. TenancyTypeOK'
    BY <1>3, <2>1, <2>2, <2>3, <2>4 DEF TenancyTypeOK, RequestType, Stages
  <2>6. TokensAreMinted'
    <3>1. \A j \in ApiKeys : owner[j] # Nobody => owner'[j] # Nobody
      BY <1>3, <2>4, TenantsAssumption DEF TenancyTypeOK
    <3>2. owner'[k] # Nobody /\ issued' \subseteq issued \cup {k} /\ issued \subseteq ApiKeys
      BY <1>3, <2>4, TenantsAssumption DEF TenancyTypeOK
    <3> QED
      BY <2>2, <3>1, <3>2 DEF TokensAreMinted, InFlight
  <2>7. OwnersExist'
    BY <1>3, <2>2, <2>3, <2>4 DEF OwnersExist, InFlight, TenancyTypeOK
  <2>8. \A q \in InFlight : req[q].token # k
    BY <1>3 DEF TokensAreMinted
  <2>10. EntitledIsNoted'
    BY <1>3, <2>2, <2>3, <2>8 DEF EntitledIsNoted, Entitled, TenancyTypeOK, InFlight
  <2>11. OneIsToldOfRevocation'
    BY <2>3 DEF OneIsToldOfRevocation
  <2>12. \A p \in Orgs : {q \in Requests : req'[q].stage = "metering" /\ req'[q].tenant = p}
                         = {q \in Requests : req[q].stage = "metering" /\ req[q].tenant = p}
    BY <1>1, <2>2 DEF Gone
  <2>13. VerificationsAreCounted'
    BY <2>3, <2>12 DEF VerificationsAreCounted
  <2>14. FewAreLate'
    BY <2>2, <2>3, LateStands DEF Gone, Holds
  <2> QED
    BY <2>1, <2>2, <2>5, <2>6, <2>7, <2>10, <2>11, <2>13, <2>14
<1> QED
  BY <1>2, <1>3 DEF SaveAPIKey

LEMMA RevokeAPIKeyTenancyInv == ASSUME TenancyInv, NEW r \in Requests, RevokeAPIKey(r) PROVE TenancyInv'
<1> DEFINE k == req[r].names
<1>1. r \in InFlight /\ req[r].stage = "serving" /\ k \in ApiKeys
  BY DEF RevokeAPIKey, Serving, InFlight, TenancyInv, Requested, NamesFitRoutes
<1>2. UNCHANGED <<orgStatus, owner, issued, usage, late, verified, unmetered>>
  BY DEF RevokeAPIKey
<1>3. CASE UNCHANGED revoked /\ Report(r, k, 404)
  BY <1>1, <1>2, <1>3, RespondTenancyInv DEF Report, tables, tally
<1>4. ASSUME NEW code \in {204, 500}, Report(r, k, code),
             \/ Revocable(k) /\ revoked' = revoked \cup {k}
             \/ code = 500 /\ UNCHANGED revoked
      PROVE  TenancyInv'
  <2> USE DEF TenancyInv
  <2>1. Respond(r, code)
    BY <1>4 DEF Report
  <2>2. SlotsAreReturned' /\ slots' \in 0..MaxInFlight
    BY <1>1, <2>1, RespondSlots
  <2>3. /\ req' \in [Requests -> RequestType]
        /\ InFlight' = InFlight \ {r} /\ req'[r] = Gone
        /\ \A q \in Requests \ {r} : req'[q] = req[q]
        /\ Requested'
    BY <1>1, <2>1, RespondRequests
  <2>4. /\ withdrawn' \in [ApiKeys -> Nat] /\ alarmed' \in SUBSET ApiKeys
        /\ revoked' \in SUBSET ApiKeys /\ revoked \subseteq revoked'
        /\ revoked' \subseteq revoked \cup {k}
    BY <1>1, <1>4 DEF Report, TenancyTypeOK
  <2>5. TenancyTypeOK'
    BY <1>2, <2>2, <2>3, <2>4 DEF TenancyTypeOK, RequestType, Stages
  <2>6. TokensAreMinted' /\ OwnersExist'
    BY <1>2, <2>3 DEF TokensAreMinted, OwnersExist, InFlight
  <2>7. \A t : Entitled(t, orgStatus)' \subseteq Entitled(t, orgStatus)
    BY <1>2, <2>4 DEF Entitled
  <2>8. EntitledIsNoted'
    BY <2>3, <2>7 DEF EntitledIsNoted, InFlight
  <2>9. OneIsToldOfRevocation'
    <3>1. CASE code = 204
      <4>1. /\ k \notin revoked /\ revoked' = revoked \cup {k} /\ alarmed' = alarmed
            /\ withdrawn' = [withdrawn EXCEPT ![k] = withdrawn[k] + 1]
        BY <1>4, <3>1 DEF Report, Revocable
      <4>2. /\ withdrawn[k] = 0 /\ withdrawn'[k] = 1
            /\ \A j \in ApiKeys \ {k} : withdrawn'[j] = withdrawn[j]
        <5>1. withdrawn \in [ApiKeys -> Nat] /\ withdrawn[k] \in Nat
          BY <1>1 DEF TenancyTypeOK
        <5>2. withdrawn[k] <= 1 /\ (withdrawn[k] = 1 => k \in revoked)
          BY <1>1 DEF OneIsToldOfRevocation
        <5>3. withdrawn[k] = 0
          BY <4>1, <5>1, <5>2
        <5> QED
          BY <1>1, <4>1, <5>1, <5>3
      <4>3. ASSUME NEW j \in ApiKeys
            PROVE  /\ withdrawn'[j] <= 1 /\ (withdrawn'[j] = 1 => j \in revoked')
                   /\ j \in revoked' => withdrawn'[j] = 1 \/ j \in alarmed'
        BY <4>1, <4>2 DEF OneIsToldOfRevocation
      <4> QED
        BY <4>3 DEF OneIsToldOfRevocation
    <3>2. CASE code = 500
      <4>1. withdrawn' = withdrawn /\ alarmed' = alarmed \cup {k}
        BY <1>4, <3>2 DEF Report
      <4> QED
        BY <2>4, <4>1 DEF OneIsToldOfRevocation
    <3> QED
      BY <3>1, <3>2
  <2>10. \A p \in Orgs : {q \in Requests : req'[q].stage = "metering" /\ req'[q].tenant = p}
                         = {q \in Requests : req[q].stage = "metering" /\ req[q].tenant = p}
    BY <1>1, <2>3 DEF Gone
  <2>11. VerificationsAreCounted'
    BY <1>2, <2>10 DEF VerificationsAreCounted
  <2>12. FewAreLate'
    <3>1. ASSUME NEW j \in revoked PROVE late'[j] + Cardinality(Holding(j)') < MaxInFlight
      BY <1>2, <2>3, KeyStands DEF Gone, Holds
    <3>2. ASSUME NEW j \in ApiKeys, j \notin revoked
          PROVE  late'[j] + Cardinality(Holding(j)') < MaxInFlight
      <4>1. IsFiniteSet(InFlight) /\ Cardinality(InFlight) \in Nat
        BY TenantsAssumption, FS_Subset, FS_CardinalityType DEF InFlight
      <4>2. IsFiniteSet(InFlight \ {r}) /\ Cardinality(InFlight \ {r}) = Cardinality(InFlight) - 1
        BY <1>1, <4>1, FS_RemoveElement
      <4>3. Holding(j)' \subseteq InFlight \ {r}
        BY <2>3 DEF Holding, Holds, InFlight, Gone
      <4>4. /\ Cardinality(Holding(j)') <= Cardinality(InFlight) - 1
            /\ Cardinality(Holding(j)') \in Nat
        BY <4>2, <4>3, FS_Subset, FS_CardinalityType
      <4>5. Cardinality(InFlight) <= MaxInFlight
        BY MaxInFlightAssumption DEF SlotsAreReturned, TenancyTypeOK
      <4>6. late'[j] = 0
        BY <1>1, <1>2, <3>2 DEF FewAreLate
      <4> QED
        BY <4>1, <4>4, <4>5, <4>6, MaxInFlightAssumption
    <3>3. \A j \in ApiKeys : j \in revoked' => late'[j] + Cardinality(Holding(j)') < MaxInFlight
      BY <2>4, <3>1, <3>2
    <3>4. \A j \in ApiKeys : j \notin revoked' => late'[j] = 0
      BY <1>2, <2>4 DEF FewAreLate
    <3> QED
      BY <3>3, <3>4 DEF FewAreLate
  <2> QED
    BY <2>2, <2>3, <2>5, <2>6, <2>8, <2>9, <2>11, <2>12
<1> QED
  BY <1>3, <1>4 DEF RevokeAPIKey, Committed

(* A verification that is metered next is one more verified and one more   *)
(* about to be counted.                                                    *)
LEMMA VerifyTenancyInv == ASSUME TenancyInv, NEW r \in Requests, Verify(r) PROVE TenancyInv'
<1> USE DEF TenancyInv
<1>1. r \in InFlight /\ req[r].stage = "serving"
  BY DEF Verify, Serving, InFlight
<1>2. PICK ok \in BOOLEAN :
        /\ \/ Meters(r, ok) /\ Advance(r, "metering", req[r].tenant)
           \/ ~ Meters(r, ok) /\ Respond(r, IF ok THEN 200 ELSE 500)
        /\ verified' = [o \in Orgs |-> IF ok /\ req[r].tenant = o THEN verified[o] + 1
                                       ELSE verified[o]]
  BY DEF Verify
<1>3. UNCHANGED <<orgStatus, owner, revoked, issued, usage, withdrawn, alarmed, late, unmetered>>
  BY DEF Verify, tables
<1>4. verified' \in [Orgs -> Nat]
  BY <1>2 DEF TenancyTypeOK
<1>5. OneIsToldOfRevocation'
  BY <1>3 DEF OneIsToldOfRevocation
<1>6. CASE ~ Meters(r, ok) /\ Respond(r, IF ok THEN 200 ELSE 500)
  <2>1. verified' = verified
    BY <1>2, <1>6, TenantsAssumption DEF Meters, TenancyTypeOK
  <2> QED
    BY <1>1, <1>3, <1>6, <2>1, RespondTenancyInv DEF tables, tally
<1>7. CASE Meters(r, ok) /\ Advance(r, "metering", req[r].tenant)
  <2> DEFINE o == req[r].tenant
  <2>1. o \in Orgs /\ o \in req[r].entitled /\ ok
    BY <1>1, <1>7 DEF Meters, Requested, FoundWasEntitled, TenancyTypeOK, InFlight
  <2>2. SlotsAreReturned' /\ slots' \in 0..MaxInFlight
    BY <1>1, <1>7, AdvanceSlots
  <2>3. /\ req' \in [Requests -> RequestType]
        /\ InFlight' = InFlight
        /\ req'[r] = [req[r] EXCEPT !.stage = "metering", !.tenant = o]
        /\ \A q \in Requests \ {r} : req'[q] = req[q]
        /\ Requested'
    BY <1>1, <1>7, <2>1, TenantsAssumption, AdvanceRequests DEF Stages, Meters
  <2>4. req[r] \in RequestType
    BY <1>1, RequestsTyped DEF InFlight
  <2>5. /\ req'[r].stage = "metering" /\ req'[r].tenant = o /\ req'[r].names = req[r].names
        /\ req'[r].token = req[r].token /\ req'[r].entitled = req[r].entitled
    BY <2>3, <2>4 DEF RequestType
  <2>6. TenancyTypeOK'
    BY <1>3, <1>4, <2>2, <2>3 DEF TenancyTypeOK, RequestType, Stages
  <2>7. \A q \in Requests :
          /\ req'[q].token = req[q].token /\ req'[q].entitled = req[q].entitled
          /\ req'[q].stage = "issuing" => req[q].stage = "issuing" /\ req'[q].names = req[q].names
    BY <2>3, <2>5
  <2>8. /\ TokensAreMinted' /\ OwnersExist'
        /\ EntitledIsNoted'
    <3>1. TokensAreMinted'
      BY <1>3, <2>3, <2>7 DEF TokensAreMinted, InFlight
    <3>2. OwnersExist'
      BY <1>3, <2>3, <2>7 DEF OwnersExist, InFlight
    <3>3. EntitledIsNoted'
      BY <1>3, <2>3, <2>7 DEF EntitledIsNoted, Entitled, InFlight
    <3> QED
      BY <3>1, <3>2, <3>3
  <2>9. \A p \in Orgs \ {o} :
          {q \in Requests : req'[q].stage = "metering" /\ req'[q].tenant = p} = Metering(p)
    BY <1>1, <2>3, <2>5 DEF Metering
  <2>10. {q \in Requests : req'[q].stage = "metering" /\ req'[q].tenant = o} = Metering(o) \cup {r}
    BY <1>1, <2>3, <2>5 DEF Metering, InFlight
  <2>11. IsFiniteSet(Metering(o)) /\ r \notin Metering(o)
    BY <1>1, TenantsAssumption, FS_Subset DEF Metering
  <2>12. Cardinality(Metering(o) \cup {r}) = Cardinality(Metering(o)) + 1
    BY <2>11, FS_AddElement
  <2>13. Cardinality(Metering(o)) \in Nat
    BY <2>11, FS_CardinalityType
  <2>14. verified'[o] = verified[o] + 1 /\ \A p \in Orgs \ {o} : verified'[p] = verified[p]
    BY <1>2, <2>1
  <2>15. /\ usage[o] \in Nat /\ unmetered[o] \in Nat /\ verified[o] \in Nat
         /\ usage[o] + Cardinality(Metering(o)) <= verified[o]
         /\ verified[o] <= usage[o] + Cardinality(Metering(o)) + unmetered[o]
    BY <2>1 DEF TenancyTypeOK, VerificationsAreCounted, Metering
  <2>16. ASSUME NEW p \in Orgs
         PROVE  LET counted == usage'[p] + Cardinality(
                      {q \in Requests : req'[q].stage = "metering" /\ req'[q].tenant = p})
                IN  counted <= verified'[p] /\ verified'[p] <= counted + unmetered'[p]
    <3>1. CASE p = o
      <4>1. usage'[p] = usage[o] /\ unmetered'[p] = unmetered[o] /\ verified'[p] = verified[o] + 1
        BY <1>3, <2>14, <3>1
      <4>2. {q \in Requests : req'[q].stage = "metering" /\ req'[q].tenant = p}
              = Metering(o) \cup {r}
        BY <2>10, <3>1
      <4> QED
        <5> DEFINE pending == {q \in Requests : req'[q].stage = "metering" /\ req'[q].tenant = p}
        <5>1. Cardinality(pending) = Cardinality(Metering(o)) + 1
          BY <2>12, <4>2
        <5> HIDE DEF pending
        <5>2. /\ usage'[p] + Cardinality(pending) <= verified'[p]
              /\ verified'[p] <= usage'[p] + Cardinality(pending) + unmetered'[p]
          BY <2>13, <2>15, <4>1, <5>1
        <5> QED
          BY <5>2 DEF pending
    <3>2. CASE p # o
      BY <1>3, <2>9, <2>14, <3>2 DEF VerificationsAreCounted, Metering
    <3> QED
      BY <3>1, <3>2
  <2>17. VerificationsAreCounted'
    BY <2>16 DEF VerificationsAreCounted
  <2>18. FewAreLate'
    BY <1>3, <2>3, <2>5, LateStands DEF Holds
  <2> QED
    BY <1>5, <2>2, <2>3, <2>6, <2>8, <2>17, <2>18
<1> QED
  BY <1>2, <1>6, <1>7

(* Counted or not: the request is no longer about to be.                   *)
LEMMA RecordVerifyTenancyInv == ASSUME TenancyInv, NEW r \in Requests, RecordVerify(r) PROVE TenancyInv'
<1> USE DEF TenancyInv
<1> DEFINE o == req[r].tenant
<1>1. r \in InFlight /\ req[r].stage = "metering" /\ Respond(r, 200)
  BY DEF RecordVerify, InFlight
<1>2. o \in Orgs
  BY <1>1 DEF Requested, MeteringHasTenant, TenancyTypeOK, InFlight
<1>3. UNCHANGED <<orgStatus, owner, revoked, issued, withdrawn, alarmed, late, verified>>
  BY DEF RecordVerify
<1>4. /\ usage' \in [Orgs -> Nat] /\ unmetered' \in [Orgs -> Nat]
      /\ usage'[o] <= usage[o] + 1
      /\ usage'[o] + unmetered'[o] >= usage[o] + unmetered[o] + 1
      /\ \A p \in Orgs \ {o} : usage'[p] = usage[p] /\ unmetered'[p] = unmetered[p]
  BY <1>2 DEF RecordVerify, TenancyTypeOK
<1>5. SlotsAreReturned' /\ slots' \in 0..MaxInFlight
  BY <1>1, RespondSlots
<1>6. /\ req' \in [Requests -> RequestType]
      /\ InFlight' = InFlight \ {r} /\ req'[r] = Gone
      /\ \A q \in Requests \ {r} : req'[q] = req[q]
      /\ Requested'
  BY <1>1, RespondRequests
<1>7. TenancyTypeOK'
  BY <1>3, <1>4, <1>5, <1>6 DEF TenancyTypeOK, RequestType, Stages
<1>8. TokensAreMinted' /\ OwnersExist'
  BY <1>3, <1>6 DEF TokensAreMinted, OwnersExist, InFlight
<1>9. EntitledIsNoted'
  BY <1>3, <1>6 DEF EntitledIsNoted, Entitled, InFlight
<1>10. OneIsToldOfRevocation'
  BY <1>3 DEF OneIsToldOfRevocation
<1>11. \A p \in Orgs \ {o} :
         {q \in Requests : req'[q].stage = "metering" /\ req'[q].tenant = p} = Metering(p)
  BY <1>1, <1>6 DEF Metering, Gone
<1>12. {q \in Requests : req'[q].stage = "metering" /\ req'[q].tenant = o} = Metering(o) \ {r}
  BY <1>1, <1>6 DEF Metering, Gone
<1>13. IsFiniteSet(Metering(o)) /\ r \in Metering(o)
  BY <1>1, TenantsAssumption, FS_Subset DEF Metering
<1>14. Cardinality(Metering(o) \ {r}) = Cardinality(Metering(o)) - 1
  BY <1>13, FS_RemoveElement
<1>15. Cardinality(Metering(o)) \in Nat
  BY <1>13, FS_CardinalityType
<1>16. /\ usage[o] \in Nat /\ unmetered[o] \in Nat /\ verified[o] \in Nat
       /\ usage'[o] \in Nat /\ unmetered'[o] \in Nat
       /\ usage[o] + Cardinality(Metering(o)) <= verified[o]
       /\ verified[o] <= usage[o] + Cardinality(Metering(o)) + unmetered[o]
  BY <1>2, <1>4 DEF TenancyTypeOK, VerificationsAreCounted, Metering
<1>17. ASSUME NEW p \in Orgs
       PROVE  LET counted == usage'[p] + Cardinality(
                    {q \in Requests : req'[q].stage = "metering" /\ req'[q].tenant = p})
              IN  counted <= verified'[p] /\ verified'[p] <= counted + unmetered'[p]
  <2>1. LET counted == usage'[o] + (Cardinality(Metering(o)) - 1)
        IN  counted <= verified'[o] /\ verified'[o] <= counted + unmetered'[o]
    BY <1>3, <1>4, <1>15, <1>16
  <2>2. CASE p = o
    BY <1>12, <1>14, <2>1, <2>2
  <2>3. CASE p # o
    BY <1>3, <1>4, <1>11, <2>3 DEF VerificationsAreCounted, Metering
  <2> QED
    BY <2>2, <2>3
<1>18. VerificationsAreCounted'
  BY <1>17 DEF VerificationsAreCounted
<1>19. FewAreLate'
  BY <1>3, <1>6, LateStands DEF Gone, Holds
<1> QED
  BY <1>5, <1>6, <1>7, <1>8, <1>9, <1>10, <1>18, <1>19

(* A request arrives with a slot of its own and what it is entitled to.    *)
LEMMA ArriveTenancyInv ==
  ASSUME TenancyInv, NEW r \in Requests, NEW route \in Routes, NEW token \in Credentials,
         NEW n \in Named(route), Arrive(r, route, token, n)
  PROVE  TenancyInv'
<1> USE DEF TenancyInv
<1> DEFINE new == [stage |-> "optional", route |-> route, token |-> token, names |-> n,
                   tenant |-> Nobody, entitled |-> Entitled(token, orgStatus)]
<1>1. UNCHANGED <<orgStatus, owner, revoked, issued, usage, withdrawn, alarmed, late, verified,
                unmetered>>
  BY DEF Arrive, tables, tally
<1>2. new \in RequestType
  BY DEF RequestType, Stages, Named, Credentials, Entitled, TenancyTypeOK
<1>3. /\ req' = [req EXCEPT ![r] = new] /\ req[r].stage = "none"
      /\ slots' = slots + 1 /\ slots < MaxInFlight
  BY DEF Arrive, HasSlot
<1> HIDE DEF new
<1>4. /\ req' \in [Requests -> RequestType] /\ req'[r] = new
      /\ \A q \in Requests \ {r} : req'[q] = req[q]
  BY <1>2, <1>3, RequestsTyped
<1>5. /\ new.stage = "optional" /\ new.route = route /\ new.token = token /\ new.names = n
      /\ new.tenant = Nobody /\ new.entitled = Entitled(token, orgStatus)
  BY DEF new
<1>6. InFlight' = InFlight \cup {r} /\ r \notin InFlight /\ InFlight \subseteq Requests
  BY <1>3, <1>4, <1>5 DEF InFlight
<1>7. IsFiniteSet(InFlight)
  BY TenantsAssumption, FS_Subset DEF InFlight
<1>8. SlotsAreReturned' /\ slots' \in 0..MaxInFlight
  <2>1. Cardinality(InFlight \cup {r}) = Cardinality(InFlight) + 1
    BY <1>6, <1>7, FS_AddElement
  <2> QED
    BY <1>3, <1>6, <2>1, MaxInFlightAssumption DEF SlotsAreReturned, TenancyTypeOK
<1>9. TenancyTypeOK'
  BY <1>1, <1>4, <1>8 DEF TenancyTypeOK, RequestType, Stages
<1>10. TokensAreMinted'
  BY <1>1, <1>4, <1>5, <1>6, TenantsAssumption DEF TokensAreMinted, Credentials
<1>11. OwnersExist'
  BY <1>1, <1>4, <1>5, <1>6 DEF OwnersExist
<1>12. EntitledIsNoted'
  BY <1>1, <1>4, <1>5, <1>6 DEF EntitledIsNoted, Entitled
<1>13. Requested'
  <2>1. NamesFitRoutes'
    BY <1>4, <1>5, <1>6 DEF Requested, NamesFitRoutes, Named
  <2>2. MeteringHasTenant' /\ FoundWasEntitled'
    BY <1>4, <1>5 DEF Requested, MeteringHasTenant, FoundWasEntitled
  <2> QED
    BY <2>1, <2>2 DEF Requested
<1>14. OneIsToldOfRevocation'
  BY <1>1 DEF OneIsToldOfRevocation
<1>15. \A p \in Orgs : {q \in Requests : req'[q].stage = "metering" /\ req'[q].tenant = p}
                       = {q \in Requests : req[q].stage = "metering" /\ req[q].tenant = p}
  BY <1>3, <1>4, <1>5
<1>16. VerificationsAreCounted'
  BY <1>1, <1>15 DEF VerificationsAreCounted
<1>17. FewAreLate'
  BY <1>1, <1>4, <1>5, LateStands DEF Holds
<1> QED
  BY <1>8, <1>9, <1>10, <1>11, <1>12, <1>13, <1>14, <1>16, <1>17

(* An operator's change is noted for every request under way.              *)
LEMMA SetStatusTenancyInv == ASSUME TenancyInv, NEW o \in Orgs, SetStatus(o) PROVE TenancyInv'
<1> USE DEF TenancyInv
<1>1. UNCHANGED <<owner, revoked, issued, usage, slots, withdrawn, alarmed, late, verified,
                unmetered>>
  BY DEF SetStatus, tally
<1>2. /\ orgStatus' \in [Orgs -> {"none", "active", "suspended"}]
      /\ \A p \in Orgs : orgStatus[p] # "none" => orgStatus'[p] # "none"
  BY DEF SetStatus, TenancyTypeOK
<1>3. req' = [q \in Requests |->
                [req[q] EXCEPT !.entitled = @ \cup Entitled(req[q].token, orgStatus')]]
  BY DEF SetStatus
<1>4. ASSUME NEW q \in Requests
      PROVE  /\ req'[q] \in RequestType
             /\ req'[q].stage = req[q].stage /\ req'[q].route = req[q].route
             /\ req'[q].token = req[q].token /\ req'[q].names = req[q].names
             /\ req'[q].tenant = req[q].tenant
             /\ req'[q].entitled = req[q].entitled \cup Entitled(req[q].token, orgStatus')
  <2>1. req[q] \in RequestType
    BY RequestsTyped
  <2>2. Entitled(req[q].token, orgStatus') \subseteq Orgs
    BY DEF Entitled
  <2>3. req'[q] = [req[q] EXCEPT !.entitled =
                     req[q].entitled \cup Entitled(req[q].token, orgStatus')]
    BY <1>3
  <2> QED
    BY <2>1, <2>2, <2>3 DEF RequestType
<1>5. req' \in [Requests -> RequestType]
  BY <1>3, <1>4
<1>6. InFlight' = InFlight
  BY <1>4 DEF InFlight
<1>7. SlotsAreReturned'
  BY <1>1, <1>6 DEF SlotsAreReturned
<1>8. TenancyTypeOK'
  BY <1>1, <1>2, <1>5 DEF TenancyTypeOK, RequestType, Stages
<1>9. TokensAreMinted'
  BY <1>1, <1>4, <1>6 DEF TokensAreMinted, InFlight
<1>10. OwnersExist'
  BY <1>1, <1>2, <1>4, <1>6 DEF OwnersExist, InFlight, TenancyTypeOK
<1>11. EntitledIsNoted'
  BY <1>1, <1>4, <1>6 DEF EntitledIsNoted, Entitled, InFlight
<1>12. NamesFitRoutes'
  BY <1>4, <1>6 DEF Requested, NamesFitRoutes, InFlight
<1>13. MeteringHasTenant' /\ FoundWasEntitled'
  BY <1>4 DEF Requested, MeteringHasTenant, FoundWasEntitled
<1>14. OneIsToldOfRevocation'
  BY <1>1 DEF OneIsToldOfRevocation
<1>15. \A p \in Orgs : {q \in Requests : req'[q].stage = "metering" /\ req'[q].tenant = p}
                       = {q \in Requests : req[q].stage = "metering" /\ req[q].tenant = p}
  BY <1>4
<1>16. VerificationsAreCounted'
  BY <1>1, <1>15 DEF VerificationsAreCounted
<1>17. FewAreLate'
  BY <1>1, <1>4, LateStands DEF Holds
<1> QED
  BY <1>7, <1>8, <1>9, <1>10, <1>11, <1>12, <1>13, <1>14, <1>16, <1>17 DEF Requested

-----------------------------------------------------------------------------
(* The invariant                                                           *)

LEMMA InitTenancyInv == TenancyInit => TenancyInv
<1> SUFFICES ASSUME TenancyInit PROVE TenancyInv
  OBVIOUS
<1> USE DEF TenancyInit
<1>1. req \in [Requests -> RequestType] /\ \A r \in Requests : req[r] = Gone
  BY DEF RequestType, Gone, Routes
<1>2. TenancyTypeOK
  BY <1>1, MaxInFlightAssumption DEF TenancyTypeOK, RequestType, Stages
<1>3. InFlight = {}
  BY <1>1 DEF InFlight, Gone
<1>4. TokensAreMinted /\ OwnersExist /\ EntitledIsNoted /\ NamesFitRoutes
  BY <1>3 DEF TokensAreMinted, OwnersExist, EntitledIsNoted, NamesFitRoutes
<1>5. MeteringHasTenant /\ FoundWasEntitled
  BY <1>1 DEF MeteringHasTenant, FoundWasEntitled, Gone
<1>6. OneIsToldOfRevocation
  BY DEF OneIsToldOfRevocation
<1>7. \A o \in Orgs : {q \in Requests : req[q].stage = "metering" /\ req[q].tenant = o} = {}
  BY <1>1 DEF Gone
<1>8. VerificationsAreCounted /\ SlotsAreReturned
  BY <1>3, <1>7, FS_EmptySet DEF VerificationsAreCounted, SlotsAreReturned
<1>9. FewAreLate
  BY DEF FewAreLate
<1> QED
  BY <1>2, <1>4, <1>5, <1>6, <1>8, <1>9 DEF TenancyInv, Requested

LEMMA NextTenancyInv == TenancyInv /\ [TenancyNext]_tenancyVars => TenancyInv'
<1> SUFFICES ASSUME TenancyInv, [TenancyNext]_tenancyVars PROVE TenancyInv'
  OBVIOUS
<1>1. ASSUME NEW r \in Requests, Handle(r) PROVE TenancyInv'
  BY <1>1, FirstLookUpTenancyInv, OptionalAuthTenancyInv, SecondLookUpTenancyInv,
     TenantAuthTenancyInv, OtherAuthTenancyInv, CreateOrgTenancyInv, FindOrgTenancyInv,
     SaveAPIKeyTenancyInv, RevokeAPIKeyTenancyInv, ServeTenancyInv, VerifyTenancyInv, RecordVerifyTenancyInv DEF Handle
<1>2. ASSUME NEW r \in Requests, NEW route \in Routes, NEW token \in Credentials,
             NEW n \in Named(route), Arrive(r, route, token, n)
      PROVE  TenancyInv'
  BY <1>2, ArriveTenancyInv
<1>3. ASSUME NEW o \in Orgs, SetStatus(o) PROVE TenancyInv'
  BY <1>3, SetStatusTenancyInv
<1>4. CASE UNCHANGED tenancyVars
  BY <1>4 DEF tenancyVars, tables, tally, TenancyInv, Requested, TenancyTypeOK, TokensAreMinted,
     OwnersExist, EntitledIsNoted, Entitled, NamesFitRoutes, MeteringHasTenant,
     FoundWasEntitled, FewAreLate, Holding, Holds, OneIsToldOfRevocation, VerificationsAreCounted, SlotsAreReturned, InFlight
<1> QED
  BY <1>1, <1>2, <1>3, <1>4 DEF TenancyNext

(***************************************************************************)
(* No more requests are under way than the cap allows, and every variable  *)
(* has its type.                                                           *)
(***************************************************************************)
THEOREM TenancyTypeCorrect == TenancySpec => []TenancyTypeOK
<1>1. TenancyInv => TenancyTypeOK
  BY DEF TenancyInv
<1> QED
  BY <1>1, InitTenancyInv, NextTenancyInv, PTL DEF TenancySpec

(***************************************************************************)
(* Requests act for tenants that were entitled to it, also when the key is *)
(* revoked inside a look-up; no two are told that they revoked a key, and  *)
(* whoever is left in doubt was told of a failure; verifications are       *)
(* counted once; and every slot that is taken belongs to a request under   *)
(* way, whatever fails before or after it is committed.                    *)
(***************************************************************************)
THEOREM TenancyIsSafe == TenancySpec => []TenancySafety
<1>1. FoundWasEntitled => TenantWasEntitled
  BY DEF FoundWasEntitled, TenantWasEntitled
<1>2. TenancyInv => TenancySafety
  BY <1>1 DEF TenancyInv, Requested, TenancySafety
<1> QED
  BY <1>2, InitTenancyInv, NextTenancyInv, PTL DEF TenancySpec

(***************************************************************************)
(* After a key has been revoked, fewer handlers are entered with it than   *)
(* the cap has slots, ever: those that had read it are the only ones.      *)
(***************************************************************************)
THEOREM RevocationIsEffective == TenancySpec => []RevocationTakesEffect
<1>1. ASSUME TenancyInv, NEW k \in ApiKeys PROVE late[k] < MaxInFlight
  <2>1. CASE k \notin revoked
    BY <1>1, <2>1, MaxInFlightAssumption DEF TenancyInv, FewAreLate
  <2>2. CASE k \in revoked
    <3>1. Cardinality(Holding(k)) \in Nat
      BY TenantsAssumption, FS_Subset, FS_CardinalityType DEF Holding
    <3>2. late[k] \in Nat /\ late[k] + Cardinality(Holding(k)) < MaxInFlight
      BY <1>1, <2>2 DEF TenancyInv, FewAreLate, TenancyTypeOK
    <3> QED
      BY <3>1, <3>2, MaxInFlightAssumption
  <2> QED
    BY <2>1, <2>2
<1>2. TenancyInv => RevocationTakesEffect
  BY <1>1 DEF RevocationTakesEffect
<1> QED
  BY <1>2, InitTenancyInv, NextTenancyInv, PTL DEF TenancySpec

-----------------------------------------------------------------------------
(* Both of them.                                                           *)

(***************************************************************************)
(* The instance that is model-checked runs one of the two at a time: each  *)
(* behaviour of it is one of the limiter, and one of the middleware.       *)
(***************************************************************************)
LEMMA GatewayParts == GatewaySpec => Spec /\ TenancySpec
<1>1. GatewayInit => Init /\ TenancyInit
  BY DEF GatewayInit
<1>2. [GatewayNext]_<<vars, tenancyVars, part>> => [Next]_vars
  BY DEF GatewayNext
<1>3. [GatewayNext]_<<vars, tenancyVars, part>> => [TenancyNext]_tenancyVars
  BY DEF GatewayNext
<1> QED
  BY <1>1, <1>2, <1>3, PTL DEF GatewaySpec, Spec, TenancySpec

(***************************************************************************)
(* A bucket never holds more than a burst nor is seen in the future, and   *)
(* the slots of the cap are never below zero nor above MaxInFlight.        *)
(***************************************************************************)
THEOREM GatewayTypeCorrect == GatewaySpec => []GatewayTypeOK
<1>1. LimiterInv => TypeOK
  BY DEF LimiterInv
<1>2. TypeOK /\ TenancyTypeOK => GatewayTypeOK
  BY DEF GatewayTypeOK
<1> QED
  BY <1>1, <1>2, GatewayParts, LimiterInvariant, TenancyTypeCorrect, PTL
=============================================================================
