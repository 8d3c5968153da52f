-------------------------- MODULE Admission_proofs --------------------------
(***************************************************************************)
(* Proofs about Admission, for every set of deliveries and requests, every *)
(* manifest and every setting that Settings.validate accepts.              *)
(***************************************************************************)
EXTENDS Admission, SequenceTheorems, TLAPS

\* The wait between the check of a timestamp and the purge is short enough:
\* within what the time to live exceeds twice the skew, or within the second
\* that Expiry adds.
WaitCovered == MaxWait <= Ttl - 2 * Skew \/ MaxWait <= 1

-----------------------------------------------------------------------------
(* The inductive invariant *)

\* Time does not run backwards, and no delivery waits longer than MaxWait.
WaitsBounded ==
  \A d \in Delivery : pc[d] \in {"checked", "claiming"} =>
    /\ carried[d] \in Requests
    /\ checkedAt[d] <= now
    /\ now <= checkedAt[d] + MaxWait

\* An expiry covers the window in which the request can be delivered.
Covers(time, r) == time >= r.stamp + Skew + 1 /\ time >= r.stamp - Skew + Ttl

ClaimsJustified ==
  \A d \in Delivery : pc[d] = "claiming" =>
    /\ carried[d].client \in Client
    /\ TimestampValid(carried[d], checkedAt[d])
    /\ Covers(expires[d], carried[d])

\* Who has claimed is past it, and who was admitted has claimed.
ClaimedOnce ==
  /\ \A d \in claimed :
       /\ pc[d] \notin {"idle", "checked", "claiming"}
       /\ carried[d] \in Requests
  /\ \A d \in Delivery : pc[d] = "admitted" => d \in claimed

\* A claimed nonce is on record, or the time it had to be is past.
ClaimedKept ==
  \A d \in claimed :
    \/ \E row \in nonces : SameNonce(row, d) /\ Covers(row.expires_at, carried[d])
    \/ now > carried[d].stamp + Skew + 1 /\ now > carried[d].stamp - Skew + Ttl

\* No row without a claim.
RowsClaimed == \A row \in nonces : \E d \in claimed : SameNonce(row, d)

BucketsPast == \A c \in Client : buckets[c].updated <= now

Inv ==
  /\ TypeOK
  /\ BucketsPast
  /\ WaitsBounded
  /\ ClaimsJustified
  /\ ClaimedOnce
  /\ ClaimedKept
  /\ RowsClaimed
  /\ NoFalseReplay

-----------------------------------------------------------------------------

\* What comes back into a bucket leaves it between empty and full.
LEMMA RefilledType ==
  ASSUME NEW b \in Bucket, now \in Nat, b.updated <= now
  PROVE  Refilled(b) \in 0 .. Capacity
<1>1. Capacity \in Nat /\ Refill \in Nat /\ b.tokens \in 0 .. Capacity /\ b.updated \in Nat
  BY SettingsAssumption DEF Bucket
<1>2. now - b.updated \in Nat
  BY <1>1
<1>3. (now - b.updated) * Refill \in Nat
  BY <1>1, <1>2
<1> DEFINE back == (now - b.updated) * Refill
<1> HIDE DEF back
<1>4. Least(Capacity, b.tokens + back) \in 0 .. Capacity
  BY <1>1, <1>3 DEF Least, back
<1> QED
  BY <1>4 DEF Refilled, back

LEMMA InitInv == Init => Inv
<1> SUFFICES ASSUME Init PROVE Inv
  OBVIOUS
<1>1. TypeOK
  <2>1. << >> \in Seq(Nat) /\ Full \in Bucket
    BY SettingsAssumption DEF Init, Full, Bucket
  <2> QED
    BY <2>1 DEF Init, TypeOK
<1>2. BucketsPast
  BY DEF Init, BucketsPast, Full
<1> QED
  BY <1>1, <1>2 DEF Init, Inv, WaitsBounded, ClaimsJustified, ClaimedOnce,
     ClaimedKept, RowsClaimed, NoFalseReplay

\* A step that leaves the claims and nonces alone, keeps the requests that
\* are carried, and starts no claim or refusal disturbs nothing said of them.
LEMMA ClaimsUndisturbed ==
  ASSUME Inv, TypeOK',
         UNCHANGED <<nonces, claimed>>,
         now' >= now,
         \A d \in Delivery : pc[d] # "idle" => carried'[d] = carried[d],
         \A d \in Delivery :
           \/ pc'[d] = pc[d]
           \/ /\ pc[d] # "admitted"
              /\ pc'[d] # "admitted"
              /\ pc'[d] # "idle"
              /\ pc'[d] \in {"replayed", "conflict"} => pc[d] \in {"replayed", "conflict"}
              /\ pc'[d] \in {"checked", "claiming"} => pc[d] \in {"idle", "checked"}
  PROVE  ClaimedOnce' /\ ClaimedKept' /\ RowsClaimed' /\ NoFalseReplay'
<1> USE DEF Inv
<1>1. \A d \in claimed : d \in Delivery /\ pc[d] # "idle" /\ carried'[d] = carried[d]
  BY DEF TypeOK, ClaimedOnce
<1>2. ClaimedOnce'
  <2>1. \A d \in claimed' : pc'[d] \notin {"idle", "checked", "claiming"}
                             /\ carried'[d] \in Requests
    BY <1>1 DEF ClaimedOnce
  <2>2. \A d \in Delivery : pc'[d] = "admitted" => d \in claimed'
    BY DEF ClaimedOnce
  <2> QED
    BY <2>1, <2>2 DEF ClaimedOnce
<1>3. ClaimedKept'
  <2> SUFFICES ASSUME NEW d \in claimed
               PROVE  \/ \E row \in nonces :
                          SameNonce(row, d)' /\ Covers(row.expires_at, carried[d])
                      \/ now' > carried[d].stamp + Skew + 1 /\ now' > carried[d].stamp - Skew + Ttl
    BY <1>1 DEF ClaimedKept, Covers
  <2>1. \A row \in nonces : SameNonce(row, d)' <=> SameNonce(row, d)
    BY <1>1 DEF SameNonce
  <2>2. carried[d].stamp \in Nat /\ now \in Nat /\ now' \in Nat
    BY RequestsAssumption DEF ClaimedOnce, TypeOK, Request
  <2> QED
    BY <2>1, <2>2, SettingsAssumption DEF ClaimedKept
<1>4. RowsClaimed'
  BY <1>1 DEF RowsClaimed, SameNonce
<1>5. NoFalseReplay'
  <2> SUFFICES ASSUME NEW d \in Delivery, pc'[d] \in {"replayed", "conflict"}
               PROVE  \E e \in claimed' : e # d /\ carried'[e].client = carried'[d].client
                                                /\ carried'[e].nonce = carried'[d].nonce
    BY DEF NoFalseReplay
  <2>1. pc[d] \in {"replayed", "conflict"}
    OBVIOUS
  <2> QED
    BY <1>1, <2>1 DEF NoFalseReplay
<1> QED
  BY <1>2, <1>3, <1>4, <1>5

-----------------------------------------------------------------------------
(* The steps *)

LEMMA TickStep == Inv /\ Tick => Inv'
<1> SUFFICES ASSUME Inv, Tick PROVE Inv'
  OBVIOUS
<1> USE DEF Inv
<1>1. now \in Nat /\ now' = now + 1
  BY DEF Tick, TypeOK
<1>2. TypeOK'
  BY <1>1 DEF Tick, TypeOK
<1>3. BucketsPast'
  BY <1>1 DEF Tick, BucketsPast, TypeOK, Bucket
<1>4. WaitsBounded'
  <2> SUFFICES ASSUME NEW d \in Delivery, pc[d] \in {"checked", "claiming"}
               PROVE  /\ carried[d] \in Requests
                      /\ checkedAt[d] <= now + 1
                      /\ now + 1 <= checkedAt[d] + MaxWait
    BY <1>1 DEF Tick, WaitsBounded
  <2>1. now < checkedAt[d] + MaxWait /\ checkedAt[d] \in Nat
    BY DEF Tick, TypeOK
  <2> QED
    BY <1>1, <2>1, SettingsAssumption DEF WaitsBounded
<1>5. ClaimsJustified'
  BY DEF Tick, ClaimsJustified, TimestampValid, Covers
<1>6. ClaimedOnce' /\ ClaimedKept' /\ RowsClaimed' /\ NoFalseReplay'
  BY <1>1, <1>2, ClaimsUndisturbed DEF Tick
<1> QED
  BY <1>2, <1>3, <1>4, <1>5, <1>6

LEMMA RestartStep == Inv /\ Restart => Inv'
<1> SUFFICES ASSUME Inv, Restart PROVE Inv'
  OBVIOUS
<1> USE DEF Inv
<1>1. TypeOK'
  <2>1. << >> \in Seq(Nat) /\ Full \in Bucket
    BY SettingsAssumption DEF TypeOK, Full, Bucket
  <2> QED
    BY <2>1 DEF Restart, TypeOK, InFlight, Final
<1>2. BucketsPast'
  BY DEF Restart, BucketsPast, Full, TypeOK
<1>3. \A d \in Delivery : pc'[d] = IF pc[d] \in InFlight THEN "lost" ELSE pc[d]
  BY DEF Restart
<1>4. WaitsBounded' /\ ClaimsJustified'
  BY <1>3 DEF WaitsBounded, ClaimsJustified, InFlight
<1>5. ClaimedOnce' /\ ClaimedKept' /\ RowsClaimed' /\ NoFalseReplay'
  <2>1. now' >= now
    BY DEF Restart, TypeOK
  <2> QED
    BY <1>1, <1>3, <2>1, ClaimsUndisturbed DEF Restart, InFlight
<1> QED
  BY <1>1, <1>2, <1>4, <1>5

LEMMA CheckStep == ASSUME NEW d \in Delivery PROVE Inv /\ Check(d) => Inv'
<1> SUFFICES ASSUME Inv, Check(d) PROVE Inv'
  OBVIOUS
<1> USE DEF Inv
<1>1. PICK r \in Requests : carried' = [carried EXCEPT ![d] = r]
  BY DEF Check
<1>2. TypeOK'
  BY <1>1 DEF Check, TypeOK, InFlight
<1>3. BucketsPast'
  BY DEF Check, BucketsPast
<1>4. \A e \in Delivery \ {d} : pc'[e] = pc[e] /\ carried'[e] = carried[e]
                                 /\ checkedAt'[e] = checkedAt[e]
  BY <1>1 DEF Check, TypeOK
<1>5. pc[d] = "idle" /\ pc'[d] = "checked" /\ carried'[d] = r /\ checkedAt'[d] = now
  BY <1>1 DEF Check, TypeOK
<1>6. WaitsBounded'
  <2>1. now \in Nat /\ now' = now /\ now <= now + MaxWait
    BY SettingsAssumption DEF Check, TypeOK
  <2> QED
    BY <1>4, <1>5, <2>1 DEF WaitsBounded
<1>7. ClaimsJustified'
  BY <1>4, <1>5 DEF Check, ClaimsJustified, TimestampValid, Covers
<1>8. ClaimedOnce' /\ ClaimedKept' /\ RowsClaimed' /\ NoFalseReplay'
  <2>1. now' >= now
    BY DEF Check, TypeOK
  <2> QED
    BY <1>2, <1>4, <1>5, <2>1, ClaimsUndisturbed DEF Check
<1> QED
  BY <1>2, <1>3, <1>6, <1>7, <1>8

\* Leaving verify concerns no other delivery.
LEMMA LeaveOthers ==
  ASSUME TypeOK, NEW d \in Delivery, NEW stage \in InFlight \cup Final, Leave(d, stage)
  PROVE  /\ pc' \in [Delivery -> {"idle"} \cup InFlight \cup Final]
         /\ checkedAt' \in [Delivery -> Nat]
         /\ expires' \in [Delivery -> Nat]
         /\ pc'[d] = stage
         /\ \A e \in Delivery \ {d} : /\ pc'[e] = pc[e]
                                      /\ checkedAt'[e] = checkedAt[e]
                                      /\ expires'[e] = expires[e]
  BY DEF Leave, TypeOK

LEMMA BucketsStep ==
  ASSUME Inv, NEW c \in Client, UNCHANGED now, Exhausted(c) \/ Consume(c)
  PROVE  /\ buckets' \in [Client -> Bucket]
         /\ grants' \in [Client -> Seq(Nat)]
         /\ BucketsPast'
<1> USE DEF Inv
<1> DEFINE full == Refilled(buckets[c])
<1>1. buckets[c] \in Bucket /\ buckets[c].updated <= now /\ now \in Nat
  BY DEF TypeOK, BucketsPast
<1>2. full \in 0 .. Capacity
  BY <1>1, RefilledType
<1> HIDE DEF full
<1>3. CASE Exhausted(c)
  <2>1. buckets' = [buckets EXCEPT ![c] = [ tokens |-> full, updated |-> now ]]
    BY <1>3 DEF Exhausted, full
  <2>2. [ tokens |-> full, updated |-> now ] \in Bucket
    BY <1>1, <1>2 DEF Bucket
  <2> QED
    BY <1>1, <1>3, <2>1, <2>2 DEF Exhausted, TypeOK, BucketsPast
<1>4. CASE Consume(c)
  <2>1. buckets' = [buckets EXCEPT ![c] = [ tokens |-> full - 1, updated |-> now ]] /\ full >= 1
    BY <1>4 DEF Consume, full
  <2>2. [ tokens |-> full - 1, updated |-> now ] \in Bucket
    BY <1>1, <1>2, <2>1, SettingsAssumption DEF Bucket
  <2>3. grants' \in [Client -> Seq(Nat)]
    BY <1>1, <1>4 DEF Consume, TypeOK
  <2> DEFINE b == [ tokens |-> full - 1, updated |-> now ]
  <2>4. b.updated = now
    OBVIOUS
  <2> HIDE DEF b
  <2>5. buckets' \in [Client -> Bucket]
    BY <2>1, <2>2 DEF TypeOK, b
  <2>6. \A x \in Client : buckets'[x] = IF x = c THEN b ELSE buckets[x]
    BY <2>1 DEF TypeOK, b
  <2>7. BucketsPast'
    BY <1>1, <2>4, <2>6 DEF BucketsPast
  <2> QED
    BY <2>3, <2>5, <2>7
<1> QED
  BY <1>3, <1>4

LEMMA AuthenticateStep == ASSUME NEW d \in Delivery PROVE Inv /\ Authenticate(d) => Inv'
<1> SUFFICES ASSUME Inv, Authenticate(d) PROVE Inv'
  OBVIOUS
<1> USE DEF Inv
<1>1. /\ pc[d] = "checked"
      /\ UNCHANGED <<now, carried, nonces, claimed>>
      /\ now \in Nat /\ checkedAt[d] \in Nat
      /\ carried[d] \in Requests /\ carried[d].stamp \in Nat
  BY RequestsAssumption DEF Authenticate, WaitsBounded, TypeOK, Request
<1>2. CASE Charged(d)
  <2>1. Authentic(d) /\ Consume(carried[d].client) /\ carried[d].client \in Client
    BY <1>2 DEF Charged, Authentic
  <2>2. Expiry(d) \in Nat /\ Covers(Expiry(d), carried[d])
    <3>1. carried[d].stamp <= now + Skew
      BY <1>1, <2>1, SettingsAssumption DEF Authentic, TimestampValid, WaitsBounded
    <3> QED
      BY <1>1, <3>1, SettingsAssumption DEF Expiry, Greatest, Covers
  <2>3. TypeOK' /\ BucketsPast'
    <3>1. buckets' \in [Client -> Bucket] /\ grants' \in [Client -> Seq(Nat)] /\ BucketsPast'
      BY <1>1, <2>1, BucketsStep
    <3> QED
      BY <1>1, <1>2, <2>2, <3>1 DEF Charged, TypeOK, InFlight
  <2>4. /\ \A e \in Delivery \ {d} : pc'[e] = pc[e] /\ expires'[e] = expires[e]
        /\ pc'[d] = "claiming" /\ expires'[d] = Expiry(d)
        /\ checkedAt' = checkedAt
    BY <1>2 DEF Charged, TypeOK
  <2>5. WaitsBounded'
    BY <1>1, <2>4 DEF WaitsBounded
  <2>6. ClaimsJustified'
    BY <1>1, <2>1, <2>2, <2>4 DEF ClaimsJustified, TimestampValid, Covers, Authentic
  <2>7. ClaimedOnce' /\ ClaimedKept' /\ RowsClaimed' /\ NoFalseReplay'
    BY <1>1, <2>3, <2>4, ClaimsUndisturbed
  <2> QED
    BY <2>3, <2>5, <2>6, <2>7
<1>3. CASE Unauthorized(d) \/ Limited(d)
  <2>1. PICK stage \in {"unauthorized", "limited"} : Leave(d, stage)
    BY <1>3 DEF Unauthorized, Limited
  <2>2. stage \in InFlight \cup Final
    BY DEF Final
  <2>3. /\ pc' \in [Delivery -> {"idle"} \cup InFlight \cup Final]
        /\ checkedAt' \in [Delivery -> Nat]
        /\ expires' \in [Delivery -> Nat]
        /\ pc'[d] = stage
        /\ \A e \in Delivery \ {d} : /\ pc'[e] = pc[e]
                                     /\ checkedAt'[e] = checkedAt[e]
                                     /\ expires'[e] = expires[e]
    BY <2>1, <2>2, LeaveOthers
  <2>4. buckets' \in [Client -> Bucket] /\ grants' \in [Client -> Seq(Nat)] /\ BucketsPast'
    <3>1. CASE Unauthorized(d)
      BY <1>1, <3>1 DEF Unauthorized, TypeOK, BucketsPast
    <3>2. CASE Limited(d)
      <4>1. carried[d].client \in Client /\ Exhausted(carried[d].client)
        BY <3>2 DEF Limited, Authentic
      <4> QED
        BY <1>1, <4>1, BucketsStep
    <3> QED
      BY <1>3, <3>1, <3>2
  <2>5. TypeOK'
    BY <1>1, <2>3, <2>4 DEF TypeOK
  <2>6. WaitsBounded' /\ ClaimsJustified'
    BY <1>1, <2>3 DEF WaitsBounded, ClaimsJustified, TimestampValid, Covers
  <2>7. ClaimedOnce' /\ ClaimedKept' /\ RowsClaimed' /\ NoFalseReplay'
    BY <1>1, <2>3, <2>5, ClaimsUndisturbed
  <2> QED
    BY <2>4, <2>5, <2>6, <2>7
<1> QED
  BY <1>2, <1>3 DEF Authenticate

LEMMA ClaimFailsStep == ASSUME NEW d \in Delivery PROVE Inv /\ ClaimFails(d) => Inv'
<1> SUFFICES ASSUME Inv, ClaimFails(d) PROVE Inv'
  OBVIOUS
<1> USE DEF Inv
<1>1. /\ pc' \in [Delivery -> {"idle"} \cup InFlight \cup Final]
      /\ checkedAt' \in [Delivery -> Nat]
      /\ expires' \in [Delivery -> Nat]
      /\ pc[d] = "claiming"
      /\ pc'[d] = "error"
      /\ \A e \in Delivery \ {d} : /\ pc'[e] = pc[e]
                                   /\ checkedAt'[e] = checkedAt[e]
                                   /\ expires'[e] = expires[e]
  <2>1. "error" \in InFlight \cup Final
    BY DEF Final
  <2> QED
    BY <2>1, LeaveOthers DEF ClaimFails
<1>2. UNCHANGED <<now, carried, nonces, buckets, grants, claimed>> /\ now \in Nat
  BY DEF ClaimFails, TypeOK
<1>3. TypeOK' /\ BucketsPast'
  BY <1>1, <1>2 DEF TypeOK, BucketsPast
<1>4. WaitsBounded' /\ ClaimsJustified'
  BY <1>1, <1>2 DEF WaitsBounded, ClaimsJustified, TimestampValid, Covers
<1>5. ClaimedOnce' /\ ClaimedKept' /\ RowsClaimed' /\ NoFalseReplay'
  BY <1>1, <1>2, <1>3, ClaimsUndisturbed
<1> QED
  BY <1>3, <1>4, <1>5

LEMMA ReportStep == ASSUME NEW d \in Delivery PROVE Inv /\ Report(d) => Inv'
<1> SUFFICES ASSUME Inv, Report(d) PROVE Inv'
  OBVIOUS
<1> USE DEF Inv
<1>1. /\ UNCHANGED <<now, carried, checkedAt, expires, nonces, buckets, grants, claimed>>
      /\ now \in Nat
  BY DEF Report, TypeOK
<1>2. PICK stage \in {"conflict", "forbidden", "error"} :
        /\ pc' = [pc EXCEPT ![d] = stage]
        /\ pc[d] \in {"replayed", "denied"}
        /\ stage = "conflict" => pc[d] = "replayed"
  BY DEF Report
<1>3. pc'[d] = stage /\ \A e \in Delivery \ {d} : pc'[e] = pc[e]
  BY <1>2 DEF TypeOK
<1>4. TypeOK' /\ BucketsPast'
  BY <1>1, <1>2 DEF TypeOK, BucketsPast, Final
<1>5. WaitsBounded' /\ ClaimsJustified'
  BY <1>1, <1>3 DEF WaitsBounded, ClaimsJustified, TimestampValid, Covers
<1>6. ClaimedOnce' /\ ClaimedKept' /\ RowsClaimed' /\ NoFalseReplay'
  BY <1>1, <1>2, <1>3, <1>4, ClaimsUndisturbed
<1> QED
  BY <1>4, <1>5, <1>6

LEMMA ClaimStep == ASSUME NEW d \in Delivery PROVE Inv /\ Claim(d) => Inv'
<1> SUFFICES ASSUME Inv, Claim(d) PROVE Inv'
  OBVIOUS
<1> USE DEF Inv
<1> DEFINE taken == \E row \in Unexpired : SameNonce(row, d)
           r     == carried[d]
<1>1. /\ pc[d] = "claiming"
      /\ UNCHANGED <<now, carried, buckets, grants>>
      /\ now \in Nat /\ now' >= now
      /\ r \in Requests /\ r.client \in Client /\ r.nonce \in Nonce
      /\ expires[d] \in Nat
      /\ Covers(expires[d], r)
  BY RequestsAssumption DEF Claim, WaitsBounded, ClaimsJustified, TypeOK, Request
<1>2. d \notin claimed
  BY <1>1 DEF ClaimedOnce
<1>3. PICK stage \in {"replayed", "admitted", "denied"} :
        /\ Leave(d, stage)
        /\ \/ stage = "replayed" /\ taken /\ UNCHANGED <<nonces, claimed>>
           \/ /\ stage # "replayed" /\ ~taken
              /\ nonces' = Unexpired \cup {Row(d)}
              /\ claimed' = claimed \cup {d}
  BY DEF Claim
<1>4. stage \in InFlight \cup Final
  BY DEF InFlight, Final
<1>5. /\ pc' \in [Delivery -> {"idle"} \cup InFlight \cup Final]
      /\ checkedAt' \in [Delivery -> Nat]
      /\ expires' \in [Delivery -> Nat]
      /\ pc'[d] = stage
      /\ \A e \in Delivery \ {d} : /\ pc'[e] = pc[e]
                                   /\ checkedAt'[e] = checkedAt[e]
                                   /\ expires'[e] = expires[e]
  BY <1>3, <1>4, LeaveOthers
<1>6. /\ Row(d) \in NonceRow /\ SameNonce(Row(d), d)
      /\ Row(d).expires_at = expires[d]
  BY <1>1 DEF Row, NonceRow, SameNonce
<1>7. TypeOK' /\ BucketsPast'
  BY <1>1, <1>3, <1>5, <1>6 DEF TypeOK, Unexpired, BucketsPast
<1>8. WaitsBounded' /\ ClaimsJustified'
  BY <1>1, <1>5 DEF WaitsBounded, ClaimsJustified, TimestampValid, Covers
<1>9. \A row, e : SameNonce(row, e)' <=> SameNonce(row, e)
  BY <1>1 DEF SameNonce
<1>10. ClaimedOnce'
  <2>1. \A e \in claimed' : pc'[e] \notin {"idle", "checked", "claiming"}
                             /\ carried'[e] \in Requests
    BY <1>1, <1>3, <1>5 DEF ClaimedOnce, TypeOK
  <2>2. \A e \in Delivery : pc'[e] = "admitted" => e \in claimed'
    BY <1>3, <1>5 DEF ClaimedOnce
  <2> QED
    BY <2>1, <2>2 DEF ClaimedOnce
<1>11. ClaimedKept'
  <2> SUFFICES ASSUME NEW e \in claimed'
               PROVE  \/ \E row \in nonces' :
                          SameNonce(row, e) /\ Covers(row.expires_at, carried[e])
                      \/ /\ now > carried[e].stamp + Skew + 1
                         /\ now > carried[e].stamp - Skew + Ttl
    BY <1>1, <1>9 DEF ClaimedKept, Covers
  <2>1. CASE e = d
    BY <1>1, <1>2, <1>3, <1>6, <2>1
  <2>2. CASE e # d
    <3>1. e \in claimed
      BY <1>3, <2>2
    <3>2. CASE nonces' = nonces
      BY <3>1, <3>2 DEF ClaimedKept
    <3>3. CASE nonces' = Unexpired \cup {Row(d)}
      <4>1. ASSUME NEW row \in nonces, SameNonce(row, e), Covers(row.expires_at, carried[e])
            PROVE  \/ row \in nonces'
                   \/ /\ now > carried[e].stamp + Skew + 1
                      /\ now > carried[e].stamp - Skew + Ttl
        <5>1. row.expires_at \in Nat /\ carried[e].stamp \in Nat
          BY <3>1, RequestsAssumption DEF TypeOK, NonceRow, ClaimedOnce, Request
        <5> QED
          BY <1>1, <3>3, <4>1, <5>1, SettingsAssumption DEF Unexpired, Covers
      <4> QED
        BY <3>1, <4>1 DEF ClaimedKept
    <3> QED
      BY <1>3, <3>2, <3>3
  <2> QED
    BY <2>1, <2>2
<1>12. RowsClaimed'
  <2> SUFFICES ASSUME NEW row \in nonces'
               PROVE  \E e \in claimed' : SameNonce(row, e)
    BY <1>9 DEF RowsClaimed
  <2>1. CASE row \in nonces
    BY <1>3, <2>1 DEF RowsClaimed
  <2>2. CASE row \notin nonces
    BY <1>3, <1>6, <2>2 DEF Unexpired
  <2> QED
    BY <2>1, <2>2
<1>13. NoFalseReplay'
  <2> SUFFICES ASSUME NEW e \in Delivery, pc'[e] \in {"replayed", "conflict"}
               PROVE  \E f \in claimed' : f # e /\ carried[f].client = carried[e].client
                                                /\ carried[f].nonce = carried[e].nonce
    BY <1>1 DEF NoFalseReplay
  <2>1. CASE e # d
    BY <1>3, <1>5, <2>1 DEF NoFalseReplay
  <2>2. CASE e = d
    <3>1. stage = "replayed" /\ claimed' = claimed
      BY <1>3, <1>5, <2>2
    <3>2. PICK row \in nonces : SameNonce(row, d)
      BY <1>3, <3>1 DEF Unexpired
    <3>3. PICK f \in claimed : SameNonce(row, f)
      BY <3>2 DEF RowsClaimed
    <3> QED
      BY <1>2, <2>2, <3>1, <3>2, <3>3 DEF SameNonce
  <2> QED
    BY <2>1, <2>2
<1> QED
  BY <1>7, <1>8, <1>10, <1>11, <1>12, <1>13

\* The invariant holds throughout.
THEOREM Invariance == Spec => []Inv
<1>1. Inv /\ [Next]_vars => Inv'
  <2> SUFFICES ASSUME Inv, [Next]_vars PROVE Inv'
    OBVIOUS
  <2>1. CASE UNCHANGED vars
    BY <2>1 DEF vars, Inv, TypeOK, BucketsPast, WaitsBounded, ClaimsJustified,
       ClaimedOnce, ClaimedKept, RowsClaimed, NoFalseReplay, Covers,
       TimestampValid, SameNonce
  <2>2. CASE Tick
    BY <2>2, TickStep
  <2>3. CASE Restart
    BY <2>3, RestartStep
  <2>4. ASSUME NEW d \in Delivery,
               Check(d) \/ Authenticate(d) \/ Claim(d) \/ ClaimFails(d) \/ Report(d)
        PROVE  Inv'
    BY <2>4, CheckStep, AuthenticateStep, ClaimStep, ClaimFailsStep, ReportStep
  <2> QED
    BY <2>1, <2>2, <2>3, <2>4 DEF Next
<1> QED
  BY InitInv, <1>1, PTL DEF Spec

\* A nonce is retained for the whole of its request's acceptance window,
\* whatever the time to live (claim_nonce and the expiry verify asks for).
THEOREM WindowCovered == Spec => []RetainedWhileFresh
<1>1. Inv => RetainedWhileFresh
  <2> SUFFICES ASSUME Inv, NEW d \in claimed, now <= carried[d].stamp + Skew
               PROVE  \E row \in nonces : SameNonce(row, d)
    BY DEF RetainedWhileFresh
  <2>1. now \in Nat /\ carried[d].stamp \in Nat
    BY RequestsAssumption DEF Inv, TypeOK, ClaimedOnce, Request
  <2> QED
    BY <2>1, SettingsAssumption DEF Inv, ClaimedKept
<1> QED
  BY Invariance, <1>1, PTL

\* A request is called a replay only if its nonce was claimed before.
THEOREM ReplaysReal == Spec => []NoFalseReplay
<1>1. Inv => NoFalseReplay
  BY DEF Inv
<1> QED
  BY Invariance, <1>1, PTL

-----------------------------------------------------------------------------
(* At most once *)

\* The purge in the claim of a repeated request finds the nonce unexpired.
LEMMA ClaimOnce ==
  ASSUME WaitCovered, Inv, NEW d \in Delivery, pc[d] = "claiming",
         NEW e \in claimed, carried[e] = carried[d]
  PROVE  \E row \in Unexpired : SameNonce(row, d)
<1> USE DEF Inv
<1>1. now \in Nat /\ checkedAt[d] \in Nat /\ carried[d].stamp \in Nat
  BY RequestsAssumption DEF TypeOK, WaitsBounded, Request
<1>2. now <= checkedAt[d] + MaxWait /\ checkedAt[d] <= carried[d].stamp + Skew
  BY DEF WaitsBounded, ClaimsJustified, TimestampValid
<1>3. now <= carried[d].stamp + Skew + 1 \/ now <= carried[d].stamp - Skew + Ttl
  BY <1>1, <1>2, SettingsAssumption DEF WaitCovered
<1>4. PICK row \in nonces : SameNonce(row, e) /\ Covers(row.expires_at, carried[d])
  BY <1>1, <1>3, SettingsAssumption DEF ClaimedKept
<1>5. row.expires_at \in Nat
  BY DEF TypeOK, NonceRow
<1>6. row \in Unexpired
  BY <1>1, <1>3, <1>4, <1>5, SettingsAssumption DEF Unexpired, Covers
<1> QED
  BY <1>4, <1>6 DEF SameNonce

\* No request is admitted twice, if the wait for the write lock is covered:
\* by the margin of the time to live over twice the skew, or by a second.
THEOREM ReplaySafe == WaitCovered => (Spec => []AtMostOnce)
<1> SUFFICES ASSUME WaitCovered PROVE Spec => []AtMostOnce
  OBVIOUS
<1>1. Init => AtMostOnce
  BY DEF Init, AtMostOnce
<1>2. Inv /\ AtMostOnce /\ [Next]_vars => AtMostOnce'
  <2> SUFFICES ASSUME Inv, AtMostOnce, [Next]_vars,
                      NEW d \in Delivery, NEW e \in Delivery, d # e,
                      pc'[d] = "admitted", pc'[e] = "admitted",
                      carried'[d] = carried'[e]
               PROVE  FALSE
    BY DEF AtMostOnce
  <2> USE DEF Inv
  <2>1. \A f \in Delivery : pc'[f] = "admitted" =>
          /\ carried'[f] = carried[f]
          /\ pc[f] = "admitted" \/ (pc[f] = "claiming" /\ Claim(f))
    <3> SUFFICES ASSUME NEW f \in Delivery, pc'[f] = "admitted"
                 PROVE  /\ carried'[f] = carried[f]
                        /\ pc[f] = "admitted" \/ (pc[f] = "claiming" /\ Claim(f))
      OBVIOUS
    <3>1. CASE UNCHANGED vars
      BY <3>1 DEF vars
    <3>2. CASE Tick \/ Restart
      BY <3>2 DEF Tick, Restart, TypeOK
    <3>3. ASSUME NEW g \in Delivery,
                 Check(g) \/ Authenticate(g) \/ ClaimFails(g) \/ Report(g)
          PROVE  carried'[f] = carried[f] /\ pc[f] = "admitted"
      BY <3>3 DEF Check, Authenticate, Unauthorized, Limited, Charged, ClaimFails,
         Report, Leave, TypeOK
    <3>4. ASSUME NEW g \in Delivery, Claim(g)
          PROVE  /\ carried'[f] = carried[f]
                 /\ pc[f] = "admitted" \/ (pc[f] = "claiming" /\ Claim(f))
      BY <3>4 DEF Claim, Leave, TypeOK
    <3> QED
      BY <3>1, <3>2, <3>3, <3>4 DEF Next
  <2>2. ASSUME NEW f \in Delivery, NEW g \in Delivery, f # g, pc[g] = "admitted",
               Claim(f), pc'[f] = "admitted", carried[f] = carried[g]
        PROVE  FALSE
    <3>1. pc[f] = "claiming" /\ ~\E row \in Unexpired : SameNonce(row, f)
      BY <2>2 DEF Claim, Leave, TypeOK
    <3>2. g \in claimed
      BY <2>2 DEF ClaimedOnce
    <3> QED
      BY <2>2, <3>1, <3>2, ClaimOnce
  <2>3. ASSUME Claim(d), pc[d] = "claiming", Claim(e), pc[e] = "claiming"
        PROVE  FALSE
    BY <2>3 DEF Claim, Leave, TypeOK
  <2> QED
    BY <2>1, <2>2, <2>3 DEF AtMostOnce
<1> QED
  BY Invariance, <1>1, <1>2, PTL DEF Spec

-----------------------------------------------------------------------------
(* The token bucket *)

\* What was granted since any grant, with what is left in the bucket, is
\* within the capacity and what has been refilled since.
Budget(g, b) ==
  \A i \in 1 .. Len(g) :
    /\ g[i] <= b.updated
    /\ Len(g) - i + 1 + b.tokens <= Capacity + Refill * (b.updated - g[i])

\* RateBound for the grants of one client.
Bounded(g) ==
  \A i, j \in 1 .. Len(g) : i <= j => j - i + 1 <= Capacity + Refill * (g[j] - g[i])

RateInv ==
  /\ RateBound
  /\ \A c \in Client : Budget(grants[c], buckets[c])

LEMMA RefillAdds ==
  ASSUME NEW a \in Nat, NEW b \in Nat, NEW c \in Nat, a <= b, b <= c
  PROVE  /\ Refill * (b - a) + (c - b) * Refill = Refill * (c - a)
         /\ (c - b) * Refill \in Nat /\ Refill * (b - a) \in Nat
<1>1. Refill \in Nat
  BY SettingsAssumption
<1>2. PICK x \in Nat, y \in Nat : x = b - a /\ y = c - b
  OBVIOUS
<1>3. Refill * x \in Nat /\ y * Refill \in Nat /\ Refill * (x + y) = Refill * x + y * Refill
  BY <1>1
<1>4. c - a = x + y
  BY <1>2
<1> QED
  BY <1>2, <1>3, <1>4

\* Refilling a bucket keeps within the budget,
LEMMA BudgetRefilled ==
  ASSUME Inv, NEW c \in Client, Budget(grants[c], buckets[c]),
         NEW b \in Bucket, b.tokens <= Refilled(buckets[c]), b.updated = now
  PROVE  Budget(grants[c], b)
<1> USE DEF Inv
<1> DEFINE g == grants[c]
           o == buckets[c]
<1> SUFFICES ASSUME NEW i \in 1 .. Len(g)
             PROVE  /\ g[i] <= now
                    /\ Len(g) - i + 1 + b.tokens <= Capacity + Refill * (now - g[i])
  BY DEF Budget
<1>1. /\ g \in Seq(Nat) /\ g[i] \in Nat /\ Len(g) \in Nat /\ now \in Nat
      /\ o.updated \in Nat /\ o.updated <= now /\ o.tokens \in Nat /\ b.tokens \in Nat
  BY SettingsAssumption DEF TypeOK, BucketsPast, Bucket
<1>2. g[i] <= o.updated /\ Len(g) - i + 1 + o.tokens <= Capacity + Refill * (o.updated - g[i])
  BY DEF Budget
<1> DEFINE old  == Refill * (o.updated - g[i])
           back == (now - o.updated) * Refill
           all  == Refill * (now - g[i])
<1>3. old + back = all /\ old \in Nat /\ back \in Nat
  BY <1>1, <1>2, RefillAdds
<1>4. b.tokens <= o.tokens + back
  <2> HIDE DEF old, all
  <2>1. Least(Capacity, o.tokens + back) <= o.tokens + back
    <3>1. \A x, y \in Nat : Least(x, y) <= y
      BY DEF Least
    <3>2. o.tokens + back \in Nat
      <4> HIDE DEF o, back
      <4> QED
        BY <1>1, <1>3, SMTT(20) DEF o
    <3> HIDE DEF o, back
    <3> QED
      BY <3>1, <3>2, SettingsAssumption
  <2>2. Refilled(o) = Least(Capacity, o.tokens + back)
    BY DEF Refilled
  <2>3. Refilled(o) \in Nat
    BY <1>1, RefilledType, SettingsAssumption DEF TypeOK
  <2> HIDE DEF o, back
  <2> QED
    BY <1>1, <1>3, <2>1, <2>2, <2>3, SMTT(20) DEF o
<1>5. Len(g) - i + 1 + o.tokens <= Capacity + old
  BY <1>2
<1> HIDE DEF old, back
<1>6. Len(g) - i + 1 + b.tokens <= Capacity + all
  <2> HIDE DEF all, o, g
  <2>1. all = old + back /\ i \in Int /\ Len(g) \in Int /\ Capacity \in Int
    BY <1>1, <1>3, SettingsAssumption
  <2> QED
    BY <1>1, <1>3, <1>4, <1>5, <2>1, SMTT(20)
<1> QED
  BY <1>1, <1>2, <1>6, SMTT(20)

\* and a token taken from a full enough bucket pays for the grant.
LEMMA BudgetCharged ==
  ASSUME Inv, NEW c \in Client, Budget(grants[c], buckets[c]), Bounded(grants[c]),
         Refilled(buckets[c]) >= 1
  PROVE  LET g == Append(grants[c], now)
         IN  /\ Bounded(g)
             /\ Budget(g, [ tokens |-> Refilled(buckets[c]) - 1, updated |-> now ])
<1> USE DEF Inv
<1> DEFINE o    == grants[c]
           g    == Append(o, now)
           full == Refilled(buckets[c])
           b    == [ tokens |-> full, updated |-> now ]
           e    == [ tokens |-> full - 1, updated |-> now ]
<1>1. now \in Nat /\ o \in Seq(Nat) /\ Len(o) \in Nat /\ full \in 0 .. Capacity
  BY RefilledType DEF TypeOK, BucketsPast
<1>2. Budget(o, b)
  <2>1. b \in Bucket /\ b.tokens <= full /\ b.updated = now
    BY <1>1, SettingsAssumption DEF Bucket
  <2> HIDE DEF b
  <2> QED
    BY <2>1, BudgetRefilled
<1>3. /\ Len(g) = Len(o) + 1 /\ g[Len(o) + 1] = now
      /\ \A i \in 1 .. Len(o) : g[i] = o[i] /\ g[i] \in Nat
  BY <1>1
<1> HIDE DEF full
<1>4. \A i \in 1 .. Len(o) :
        g[i] <= now /\ Len(o) - i + 1 + full <= Capacity + Refill * (now - g[i])
  BY <1>2, <1>3 DEF Budget
<1>5. Refill * (now - now) = 0
  BY <1>1, SettingsAssumption
<1> HIDE DEF g, o
<1>6. Budget(g, e)
  <2> SUFFICES ASSUME NEW i \in 1 .. Len(g)
               PROVE  /\ g[i] <= now
                      /\ Len(g) - i + 1 + (full - 1) <= Capacity + Refill * (now - g[i])
    BY DEF Budget
  <2>1. CASE i = Len(o) + 1
    BY <1>1, <1>3, <1>5, <2>1, SettingsAssumption
  <2>2. CASE i # Len(o) + 1
    <3>1. i \in 1 .. Len(o)
      BY <1>1, <1>3, <2>2
    <3>2. PICK r : r = Refill * (now - g[i])
      OBVIOUS
    <3>3. g[i] <= now /\ Len(o) - i + 1 + full <= Capacity + r
      BY <1>4, <3>1, <3>2
    <3>4. Len(g) - i + 1 + (full - 1) = Len(o) - i + 1 + full
      BY <1>1, <1>3, <3>1
    <3> QED
      BY <3>2, <3>3, <3>4
  <2> QED
    BY <2>1, <2>2
<1>7. Bounded(g)
  <2> SUFFICES ASSUME NEW i \in 1 .. Len(g), NEW j \in 1 .. Len(g), i <= j
               PROVE  j - i + 1 <= Capacity + Refill * (g[j] - g[i])
    BY DEF Bounded
  <2>1. CASE j \in 1 .. Len(o)
    <3>1. i \in 1 .. Len(o)
      BY <1>1, <2>1
    <3> QED
      BY <1>3, <2>1, <3>1 DEF Bounded, o
  <2>2. CASE j = Len(o) + 1 /\ i = j
    BY <1>3, <1>5, <2>2, SettingsAssumption
  <2>3. CASE j = Len(o) + 1 /\ i # j
    <3>1. i \in 1 .. Len(o)
      BY <1>1, <1>3, <2>3
    <3>2. PICK r \in Int : r = Refill * (now - g[i])
      BY <1>1, <1>3, <3>1, SettingsAssumption
    <3>3. Len(o) - i + 1 + full <= Capacity + r
      BY <1>4, <3>1, <3>2
    <3>4. full >= 1
      BY DEF full
    <3>5. j - i + 1 <= Capacity + r
      <4>1. /\ j = Len(o) + 1 /\ Len(o) \in Nat /\ i \in Nat
            /\ full \in Nat /\ Capacity \in Nat
        BY <1>1, <2>3, SettingsAssumption
      <4> HIDE DEF g, o, full
      <4> QED
        BY <3>2, <3>3, <3>4, <4>1
    <3> QED
      BY <1>3, <2>3, <3>2, <3>5
  <2> QED
    BY <1>1, <1>3, <2>1, <2>2, <2>3, SMTT(20)
<1> QED
  BY <1>6, <1>7 DEF g, o, full

LEMMA RateBoundOf == TypeOK => (RateBound <=> \A c \in Client : Bounded(grants[c]))
<1> SUFFICES ASSUME TypeOK PROVE RateBound <=> \A c \in Client : Bounded(grants[c])
  OBVIOUS
<1>1. \A c \in Client : DOMAIN grants[c] = 1 .. Len(grants[c])
  BY DEF TypeOK
<1> QED
  BY <1>1 DEF RateBound, Bounded

LEMMA ChargeStep ==
  ASSUME Inv, TypeOK', RateInv, UNCHANGED now, NEW c \in Client, Exhausted(c) \/ Consume(c)
  PROVE  RateInv'
<1> USE DEF Inv
<1>1. \A x \in Client : Bounded(grants[x]) /\ Budget(grants[x], buckets[x])
  BY RateBoundOf DEF RateInv
<1> SUFFICES ASSUME NEW x \in Client
             PROVE  Bounded(grants'[x]) /\ Budget(grants'[x], buckets'[x])
  <2>1. RateBound' <=> \A y \in Client : Bounded(grants'[y])
    <3>1. \A y \in Client : DOMAIN grants'[y] = 1 .. Len(grants'[y])
      BY DEF TypeOK
    <3> QED
      BY <3>1 DEF RateBound, Bounded
  <2> QED
    BY <2>1 DEF RateInv, Budget, Bounded
<1>2. CASE x # c
  <2>1. grants'[x] = grants[x] /\ buckets'[x] = buckets[x]
    BY <1>2 DEF Exhausted, Consume, TypeOK
  <2> QED
    BY <1>1, <2>1
<1>3. CASE x = c /\ Exhausted(c)
  <2> DEFINE b == [ tokens |-> Refilled(buckets[c]), updated |-> now ]
  <2>1. buckets'[c] = b /\ grants'[c] = grants[c]
    BY <1>3 DEF Exhausted, TypeOK
  <2>2. Refilled(buckets[c]) \in 0 .. Capacity
    BY RefilledType DEF TypeOK, BucketsPast
  <2>3. b \in Bucket /\ b.tokens <= Refilled(buckets[c]) /\ b.updated = now
    BY <2>2, SettingsAssumption DEF TypeOK, Bucket
  <2> HIDE DEF b
  <2>4. Budget(grants[c], b)
    BY <1>1, <2>3, BudgetRefilled
  <2> QED
    BY <1>1, <1>3, <2>1, <2>4
<1>4. CASE x = c /\ Consume(c)
  <2> DEFINE b == [ tokens |-> Refilled(buckets[c]) - 1, updated |-> now ]
             g == Append(grants[c], now)
  <2>1. buckets'[c] = b /\ grants'[c] = g /\ Refilled(buckets[c]) >= 1
    BY <1>4 DEF Consume, TypeOK
  <2>2. Bounded(g) /\ Budget(g, b)
    BY <1>1, <2>1, BudgetCharged
  <2> QED
    BY <1>4, <2>1, <2>2
<1> QED
  BY <1>2, <1>3, <1>4

\* Every bucket, request and nonce row is what it should be; in particular no
\* bucket overflows or goes below zero.
THEOREM TypeCorrect == Spec => []TypeOK
<1>1. Inv => TypeOK
  BY DEF Inv
<1> QED
  BY Invariance, <1>1, PTL

\* The rate limit holds over every stretch of time, not only the first: what
\* a client is granted never exceeds the capacity and the refill.
THEOREM RateLimited == Spec => []RateBound
<1>1. Init => RateInv
  BY DEF Init, RateInv, RateBound, Budget
<1>2. Inv /\ Inv' /\ RateInv /\ [Next]_vars => RateInv'
  <2> SUFFICES ASSUME Inv, Inv', RateInv, [Next]_vars PROVE RateInv'
    OBVIOUS
  <2>1. CASE UNCHANGED <<buckets, grants>>
    BY <2>1 DEF RateInv, RateBound, Budget
  <2>2. CASE Restart
    <3>1. \A c \in Client : grants'[c] = << >>
      BY <2>2 DEF Restart
    <3> QED
      BY <3>1 DEF RateInv, RateBound, Budget
  <2>3. ASSUME NEW d \in Delivery, Authenticate(d) PROVE RateInv'
    <3>1. CASE Unauthorized(d)
      BY <2>1, <3>1 DEF Unauthorized
    <3>2. CASE Limited(d) \/ Charged(d)
      <4>1. carried[d].client \in Client
        BY <3>2 DEF Limited, Charged, Authentic
      <4>2. Exhausted(carried[d].client) \/ Consume(carried[d].client)
        BY <3>2 DEF Limited, Charged
      <4>3. UNCHANGED now /\ TypeOK'
        BY <2>3 DEF Authenticate, Inv
      <4> QED
        BY <4>1, <4>2, <4>3, ChargeStep
    <3> QED
      BY <2>3, <3>1, <3>2 DEF Authenticate
  <2>4. CASE Tick
    BY <2>1, <2>4 DEF Tick
  <2>5. ASSUME NEW d \in Delivery, Check(d) \/ Claim(d) \/ ClaimFails(d) \/ Report(d)
        PROVE  RateInv'
    BY <2>1, <2>5 DEF Check, Claim, ClaimFails, Report
  <2>6. CASE UNCHANGED vars
    BY <2>1, <2>6 DEF vars
  <2> QED
    BY <2>2, <2>3, <2>4, <2>5, <2>6 DEF Next
<1>3. RateInv => RateBound
  BY DEF RateInv
<1> QED
  BY Invariance, <1>1, <1>2, <1>3, PTL DEF Spec

-----------------------------------------------------------------------------
(* Nobody is limited but by itself *)

\* What is missing in a bucket was granted to its client.
Saved == \A c \in Client : buckets[c].tokens + Len(grants[c]) >= Capacity

LEMMA RefilledMore ==
  ASSUME Inv, NEW c \in Client
  PROVE  /\ Refilled(buckets[c]) \in 0 .. Capacity /\ buckets[c].tokens \in Nat
         /\ Refilled(buckets[c]) >= buckets[c].tokens
         /\ Len(grants[c]) \in Nat
<1> USE DEF Inv
<1> DEFINE o == buckets[c]
<1>1. /\ Refilled(o) \in 0 .. Capacity /\ grants[c] \in Seq(Nat)
      /\ now \in Nat /\ o.updated \in Nat /\ o.updated <= now /\ o.tokens \in 0 .. Capacity
  BY RefilledType DEF TypeOK, BucketsPast, Bucket
<1>2. PICK back \in Nat : back = (now - o.updated) * Refill
  <2>1. now - o.updated \in Nat
    BY <1>1
  <2> QED
    BY <2>1, SettingsAssumption
<1>3. Refilled(o) = Least(Capacity, o.tokens + back)
  BY <1>2 DEF Refilled
<1>4. Least(Capacity, o.tokens + back) >= o.tokens
  <2> HIDE DEF o
  <2> QED
    BY <1>1, SettingsAssumption DEF Least
<1> QED
  BY <1>1, <1>3, <1>4

LEMMA SavedStep ==
  ASSUME Inv, Saved, NEW c \in Client, Exhausted(c) \/ Consume(c)
  PROVE  Saved'
<1> SUFFICES ASSUME NEW x \in Client
             PROVE  buckets'[x].tokens + Len(grants'[x]) >= Capacity
  BY DEF Saved
<1>1. /\ Refilled(buckets[x]) \in 0 .. Capacity /\ buckets[x].tokens \in Nat
      /\ Refilled(buckets[x]) >= buckets[x].tokens /\ Len(grants[x]) \in Nat
      /\ buckets[x].tokens + Len(grants[x]) >= Capacity
  BY RefilledMore DEF Saved
<1>2. buckets \in [Client -> Bucket] /\ grants \in [Client -> Seq(Nat)] /\ now \in Nat
  BY DEF Inv, TypeOK
<1>3. CASE x # c
  BY <1>1, <1>2, <1>3 DEF Exhausted, Consume
<1>4. CASE x = c /\ Exhausted(c)
  <2>1. buckets'[x].tokens = Refilled(buckets[x]) /\ grants' = grants
    BY <1>2, <1>4 DEF Exhausted
  <2> QED
    BY <1>1, <2>1, SettingsAssumption
<1>5. CASE x = c /\ Consume(c)
  <2>1. buckets'[x].tokens = Refilled(buckets[x]) - 1
    BY <1>2, <1>5 DEF Consume
  <2>2. grants'[x] = Append(grants[x], now)
    BY <1>2, <1>5 DEF Consume
  <2>3. Len(grants'[x]) = Len(grants[x]) + 1
    BY <1>2, <2>2
  <2> QED
    BY <1>1, <2>1, <2>3, SettingsAssumption
<1> QED
  BY <1>3, <1>4, <1>5

\* A client is limited only when the whole capacity was granted to itself:
\* forged, stale and strangers' requests in its name take none of it.
THEOREM OwnBudget == Spec => LimitedByItself
<1>1. Init => Saved
  <2> SUFFICES ASSUME Init, NEW c \in Client
               PROVE  buckets[c].tokens + Len(grants[c]) >= Capacity
    BY DEF Saved
  <2>1. buckets[c].tokens = Capacity /\ grants[c] = << >>
    BY DEF Init, Full
  <2> QED
    BY <2>1, SettingsAssumption
<1>2. Inv /\ Saved /\ [Next]_vars => Saved'
  <2> SUFFICES ASSUME Inv, Saved, [Next]_vars PROVE Saved'
    OBVIOUS
  <2>1. CASE UNCHANGED <<buckets, grants>>
    BY <2>1 DEF Saved
  <2>2. CASE Restart
    <3> SUFFICES ASSUME NEW c \in Client
                 PROVE  buckets'[c].tokens + Len(grants'[c]) >= Capacity
      BY DEF Saved
    <3>1. buckets'[c].tokens = Capacity /\ grants'[c] = << >>
      BY <2>2 DEF Restart, Full
    <3> QED
      BY <3>1, SettingsAssumption
  <2>3. ASSUME NEW d \in Delivery, Authenticate(d) PROVE Saved'
    BY <2>1, <2>3, SavedStep DEF Authenticate, Unauthorized, Limited, Charged, Authentic
  <2>4. ASSUME NEW d \in Delivery,
               Tick \/ Check(d) \/ Claim(d) \/ ClaimFails(d) \/ Report(d)
        PROVE  Saved'
    BY <2>1, <2>4 DEF Tick, Check, Claim, ClaimFails, Report
  <2>5. CASE Tick
    BY <2>1, <2>5 DEF Tick
  <2>6. CASE UNCHANGED vars
    BY <2>1, <2>6 DEF vars
  <2> QED
    BY <2>2, <2>3, <2>4, <2>5, <2>6 DEF Next
<1>3. ASSUME Inv, Saved, [Next]_vars
      PROVE  [ \A d \in Delivery : pc[d] # "limited" /\ pc'[d] = "limited"
                 => Len(grants[carried[d].client]) >= Capacity ]_vars
  <2> SUFFICES ASSUME Next, NEW d \in Delivery, pc[d] # "limited", pc'[d] = "limited"
               PROVE  Len(grants[carried[d].client]) >= Capacity
    BY <1>3
  <2>1. pc \in [Delivery -> {"idle"} \cup InFlight \cup Final]
    BY <1>3 DEF Inv, TypeOK
  <2>2. Limited(d)
    <3>1. CASE Tick \/ Restart
      BY <2>1, <3>1 DEF Tick, Restart
    <3>2. ASSUME NEW e \in Delivery, Check(e) \/ Claim(e) \/ ClaimFails(e) \/ Report(e)
          PROVE  FALSE
      BY <2>1, <3>2 DEF Check, Claim, ClaimFails, Report, Leave
    <3>3. ASSUME NEW e \in Delivery, Authenticate(e)
          PROVE  Limited(d)
      BY <2>1, <3>3 DEF Authenticate, Unauthorized, Limited, Charged, Leave
    <3> QED
      BY <3>1, <3>2, <3>3 DEF Next
  <2> DEFINE c == carried[d].client
  <2>3. c \in Client /\ Refilled(buckets[c]) < 1
    BY <2>2 DEF Limited, Authentic, Exhausted
  <2> HIDE DEF c
  <2>4. /\ Refilled(buckets[c]) \in 0 .. Capacity /\ buckets[c].tokens \in Nat
        /\ Refilled(buckets[c]) >= buckets[c].tokens /\ Len(grants[c]) \in Nat
        /\ buckets[c].tokens + Len(grants[c]) >= Capacity
    BY <1>3, <2>3, RefilledMore DEF Saved
  <2>5. Len(grants[c]) >= Capacity
    BY <2>3, <2>4, SettingsAssumption
  <2> QED
    BY <2>5 DEF c
<1> QED
  BY Invariance, <1>1, <1>2, <1>3, PTL DEF Spec, LimitedByItself

=============================================================================
