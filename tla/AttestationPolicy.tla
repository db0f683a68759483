------------------------- MODULE AttestationPolicy --------------------------
(***************************************************************************)
(* What an attestation has to say for a device to be enrolled              *)
(* (internal/attestation/android.go and asn1.go), and which policy a       *)
(* process is started with (internal/attestation/factory.go).              *)
(*                                                                         *)
(* X.509 and DER are abstracted to what the decision tells apart: a chain  *)
(* verifies against the pinned roots or does not; an element of the        *)
(* extension is its tag and its contents, or Malformed.  An INTEGER keeps  *)
(* its bytes, because how they are read decides a level or an origin.      *)
(***************************************************************************)
EXTENDS Integers, Sequences, FiniteSets

CONSTANTS
  ByteBase,   \* values of a byte: 256, or fewer in an instance
  MaxWidth,   \* bytes asInt accepts: 4
  Malformed,  \* contents that do not parse
  Absent      \* no such element

ASSUME EvenBytes == ByteBase \in {2 * b : b \in 1..128} /\ MaxWidth \in Nat \ {0}

-----------------------------------------------------------------------------
(* asn1.go                                                                 *)

(* Mutated: the sign of the first byte is ignored.                         *)
AsInt_Unsigned(bytes) ==
  LET v[i \in 0..Len(bytes)] == IF i = 0 THEN 0 ELSE v[i - 1] * ByteBase + bytes[i]
  IN  IF Len(bytes) \in 1..MaxWidth THEN v[Len(bytes)] ELSE Malformed

(* asInt: shift in byte after byte, from -1 when the first has its top bit *)
(* set.                                                                    *)
AsInt(bytes) ==
  LET v[i \in 0..Len(bytes)] ==
        IF i = 0 THEN IF bytes[1] >= ByteBase \div 2 THEN -1 ELSE 0
        ELSE v[i - 1] * ByteBase + bytes[i]
  IN  IF Len(bytes) \in 1..MaxWidth THEN v[Len(bytes)] ELSE Malformed

AsBool(bytes) == IF Len(bytes) = 1 THEN bytes[1] # 0 ELSE Malformed

(* contextTag: the contents of the first element with the tag.             *)
ContextTag(list, tag) ==
  LET at == {i \in DOMAIN list : list[i].tag = tag}
  IN  IF at = {} THEN Absent
      ELSE list[CHOOSE i \in at : \A j \in at : i <= j].contents

-----------------------------------------------------------------------------
(* Levels                                                                  *)

Rank == [software |-> 0, tee |-> 1, strongbox |-> 2]

(* Mutated: the level has to be the one asked for.                         *)
AtLeast_Equal(level, min) == level \in DOMAIN Rank /\ Rank[level] = Rank[min]

(* An unknown level never suffices.                                        *)
AtLeast(level, min) == level \in DOMAIN Rank /\ Rank[level] >= Rank[min]

MapSecurityLevel(v) == IF v = 2 THEN "strongbox" ELSE IF v = 1 THEN "tee" ELSE "software"

BootVerified == 0
OriginGenerated == 0

BootStateName(v) ==
  IF v \in 0..3 THEN <<"verified", "self-signed", "unverified", "failed">>[v + 1]
  ELSE "unknown"

(* Mutated: the level of the attestation alone.                            *)
Level_OfAttestation(a) == MapSecurityLevel(AsInt(a.attestLevel))

(* checkSecurityLevel: the weaker of the attestation's and the key's.      *)
Level(a) ==
  LET attest == MapSecurityLevel(AsInt(a.attestLevel))
      key    == MapSecurityLevel(AsInt(a.keyLevel))
  IN  IF AtLeast(attest, key) THEN key ELSE attest

-----------------------------------------------------------------------------
(* android.go.  An attestation has a chain, the fields of the extension    *)
(* (ext says whether it is there and parses), and the key it attests.      *)

Wellformed(a) ==
  /\ AsInt(a.attestLevel) # Malformed /\ AsInt(a.keyLevel) # Malformed

Origin(a) ==
  LET o == ContextTag(a.tee, "origin")
  IN  o \notin {Absent, Malformed} /\ AsInt(o) = OriginGenerated

(* Mutated: an unlocked bootloader will do.                                *)
TrustedBoot_AnyLock(r) == AsInt(r.state) = BootVerified

(* deviceLocked and verifiedBootState                                      *)
TrustedBoot(r) == AsBool(r.locked) /\ AsInt(r.state) = BootVerified

(* checkRootOfTrust: the boot state it reports, or "rejected".  Even a     *)
(* policy that allows any boot state rejects one that does not parse.      *)
RootOfTrust(p, a) ==
  LET r == ContextTag(a.tee, "rootOfTrust") IN
  IF r = Absent THEN IF p.allowUnverifiedBoot THEN "unknown" ELSE "rejected"
  ELSE IF r = Malformed THEN "rejected"
  ELSE IF Malformed \in {AsBool(r.locked), AsInt(r.state)} THEN "rejected"
  ELSE IF p.allowUnverifiedBoot \/ TrustedBoot(r)
    THEN BootStateName(AsInt(r.state)) ELSE "rejected"

(* The framework fills softwareEnforced; some devices fill teeEnforced.    *)
(* One that is there but does not parse ends the matter.                   *)
ApplicationId(a) ==
  LET s == ContextTag(a.software, "application")
  IN  IF s = Absent THEN ContextTag(a.tee, "application") ELSE s

(* Mutated: any digest will do.                                            *)
KnownDigest_Any(p, id) == id.digests # {}

(* matchSignatureDigest                                                    *)
KnownDigest(p, id) == id.digests \cap p.digests # {}

(* checkApplication, matchPackage: one declared package, and one signing   *)
(* digest, must be known.                                                  *)
Application(p, a) ==
  LET id == ApplicationId(a)
      known == {i \in DOMAIN id.packages : id.packages[i] \in p.packages}
  IN  IF id \in {Absent, Malformed} THEN "rejected"
      ELSE IF known = {} \/ ~ KnownDigest(p, id) THEN "rejected"
      ELSE id.packages[CHOOSE i \in known : \A j \in known : i <= j]

(* encodeCaptureKey *)
EncodesCaptureKey(a) == a.key = "P-256"

Rejected(why) == [accepted |-> FALSE, why |-> why]

(* Verify: the first check that fails decides.                             *)
Verify(p, a, challenge) ==
  IF a.chain # "pinned" THEN Rejected("chain")
  ELSE IF a.ext # "present" THEN Rejected("extension")
  ELSE IF ~ Wellformed(a) THEN Rejected("extension")
  ELSE IF a.challenge # challenge THEN Rejected("challenge")
  ELSE IF ~ AtLeast(Level(a), p.minLevel) THEN Rejected("level")
  ELSE IF ~ Origin(a) THEN Rejected("origin")
  ELSE IF RootOfTrust(p, a) = "rejected" THEN Rejected("boot")
  ELSE IF Application(p, a) = "rejected" THEN Rejected("application")
  ELSE IF ~ EncodesCaptureKey(a) THEN Rejected("key")
  ELSE [accepted |-> TRUE, level |-> Level(a), boot |-> RootOfTrust(p, a),
        package |-> Application(p, a), key |-> a.key]

(* VerifyCaptureSignature can check signatures by these keys.              *)
CanSign(key) == key \in {"P-256", "P-384"}

-----------------------------------------------------------------------------
(* factory.go.  NewRegistryFromEnv refuses to start, starts without any    *)
(* verifier, or starts with a policy for Android.                          *)

Unset(env) == env.roots = "" /\ env.packages = {} /\ env.digests = {}
Partial(env) == env.roots = "" \/ env.packages = {} \/ env.digests = {}

(* Mutated: anything but "true" turns the check off.                       *)
AllowUnverifiedBoot_UnlessTrue(env) == env.verifiedBoot # "true"

(* strings.EqualFold with "false", or "0"; anything else enforces.         *)
AllowUnverifiedBoot(env) == env.verifiedBoot \in {"false", "FALSE", "0"}

MinLevel(env) == IF env.minLevel = "" THEN "tee" ELSE env.minLevel

NewRegistryFromEnv(env) ==
  IF Unset(env) THEN [starts |-> TRUE, platforms |-> {}]
  ELSE IF Partial(env) \/ env.roots = "unreadable" \/ "nothex" \in env.digests
          \/ MinLevel(env) \notin {"tee", "strongbox"}
    THEN [starts |-> FALSE]
  ELSE [starts |-> TRUE, platforms |-> {"android"},
        policy |-> [packages |-> env.packages, digests |-> env.digests,
                    minLevel |-> MinLevel(env),
                    allowUnverifiedBoot |-> AllowUnverifiedBoot(env)]]

(* Registry.Verify: a platform without a verifier is refused.              *)
RegistryVerify(env, platform, a, challenge) ==
  LET r == NewRegistryFromEnv(env) IN
  IF r.starts /\ platform \in r.platforms THEN Verify(r.policy, a, challenge)
  ELSE Rejected("platform")

-----------------------------------------------------------------------------
(* Properties                                                              *)

(* How many integers fit the bytes, and the one they are without a sign.   *)
Width(bytes) ==
  LET w[i \in 0..Len(bytes)] == IF i = 0 THEN 1 ELSE w[i - 1] * ByteBase
  IN  w[Len(bytes)]
Unsigned(bytes) ==
  LET v[i \in 0..Len(bytes)] == IF i = 0 THEN 0 ELSE v[i - 1] * ByteBase + bytes[i]
  IN  v[Len(bytes)]

(* An INTEGER means the same at every width it is encoded in: two's        *)
(* complement of its bytes.  A level or an origin read otherwise would     *)
(* turn a software key into a TEE one.                                     *)
IntegersAreTwosComplement(bytes) ==
  Len(bytes) \in 1..MaxWidth =>
    AsInt(bytes) = IF 2 * Unsigned(bytes) >= Width(bytes)
                   THEN Unsigned(bytes) - Width(bytes) ELSE Unsigned(bytes)

Stricter(p, q) ==
  /\ p.packages \subseteq q.packages /\ p.digests \subseteq q.digests
  /\ Rank[p.minLevel] >= Rank[q.minLevel]
  /\ p.allowUnverifiedBoot => q.allowUnverifiedBoot

(* Tightening a policy only ever refuses more, and what both accept they   *)
(* report alike (up to which of several known packages is named).          *)
StricterAcceptsLess(p, q, a, challenge) ==
  Stricter(p, q) /\ Verify(p, a, challenge).accepted =>
    LET strict == Verify(p, a, challenge)
        loose  == Verify(q, a, challenge)
    IN  loose.accepted /\ loose.level = strict.level /\ loose.boot = strict.boot

(* The level a device is enrolled at is borne out both by where the key    *)
(* lives and by who says so, whichever bytes say it.                       *)
LevelIsBorneOut(p, a, challenge) ==
  LET e == Verify(p, a, challenge) IN
  e.accepted =>
    LET attest == MapSecurityLevel(AsInt(a.attestLevel))
        key    == MapSecurityLevel(AsInt(a.keyLevel))
    IN  Rank[p.minLevel] <= Rank[e.level]
        /\ Rank[e.level] <= Rank[attest] /\ Rank[e.level] <= Rank[key]

(* However a process is configured, who is enrolled runs an app that was   *)
(* configured, signed by a certificate that was, and holds a key that      *)
(* captures can be signed with, was made in hardware, and speaks for this  *)
(* challenge.  Its bootloader is locked and its system verified, according *)
(* to the first root of trust it presents, unless the operator waived it:  *)
(* by "false", which factory.go documents, or by "0", which it does not.   *)
NeverPermissive(env, platform, a, challenge) ==
  LET e    == RegistryVerify(env, platform, a, challenge)
      root == ContextTag(a.tee, "rootOfTrust")
      id   == ApplicationId(a)
  IN e.accepted =>
    /\ env.verifiedBoot \notin {"false", "FALSE", "0"} =>
         /\ e.boot = "verified" /\ root \notin {Absent, Malformed}
         /\ AsBool(root.locked) = TRUE /\ AsInt(root.state) = 0
    /\ id \notin {Absent, Malformed} /\ id.digests \cap env.digests # {}
    /\ e.package \in env.packages /\ \E i \in DOMAIN id.packages : id.packages[i] = e.package
    /\ CanSign(e.key) /\ e.level \in {"tee", "strongbox"}
    /\ a.challenge = challenge /\ a.chain = "pinned"
    /\ \E i \in DOMAIN a.tee : a.tee[i].tag = "origin"
                             /\ a.tee[i].contents # Malformed
                             /\ AsInt(a.tee[i].contents) = 0
=============================================================================
