----------------------------- MODULE Admission -----------------------------
(***************************************************************************)
(* How Echo Vault admits a signed request (Authenticator.verify in         *)
(* src/echo_vault/auth.py, with VaultStore.claim_nonce): the timestamp and *)
(* the signature are checked, the client's token bucket is charged, the    *)
(* nonce is claimed in a transaction of its own, and only then are scope   *)
(* and namespace looked at.                                                *)
(*                                                                         *)
(* A request is signed once and may be delivered any number of times: a    *)
(* client repeats what it got no answer to, and the network repeats what   *)
(* it likes.  Deliveries interleave at every await, and the clock moves    *)
(* between them; in particular the timestamp of a request is checked       *)
(* before the wait for the write lock and expired nonces are purged after  *)
(* it.                                                                     *)
(*                                                                         *)
(* Abstractions                                                            *)
(*  - A request that is malformed, unsigned or signed with another secret  *)
(*    is one that is not `signed'; the HMAC itself is left out.            *)
(*  - One clock of whole seconds serves for time.time() and for            *)
(*    time.monotonic(), so it is never set back.  Tokens are whole too.    *)
(*  - A bucket is made, full, at a client's first use; here it stands full *)
(*    from the start of the process, which comes to the same.              *)
(*  - A definition marked (slip) is used nowhere: it is the definition     *)
(*    after it as a plausible mistake would have it, and some property     *)
(*    fails when it takes that definition's place.                         *)
(***************************************************************************)
EXTENDS Integers, Sequences, FiniteSets

CONSTANTS
  Delivery,   \* arrivals of requests
  Client,     \* the clients of the manifest
  Stranger,   \* a client identifier the manifest does not have
  Nonce,
  Scope,
  Namespace,
  Admin,      \* the scope that includes all others
  Anywhere,   \* the namespace entry "*"
  Nowhere,    \* the namespace of a request that has none
  Registry,   \* Client -> its scopes and namespaces
  Requests,   \* the requests there are
  Skew,       \* timestamp_skew_seconds
  Ttl,        \* nonce_ttl_seconds
  Capacity,   \* rate_capacity
  Refill,     \* rate_refill_per_second
  MaxWait,    \* longest time from the timestamp's check to the purge
  MaxClock    \* bound of the model: the clock stops here

Principal == [ scopes : SUBSET Scope, namespaces : SUBSET (Namespace \cup {Anywhere}) ]

Request == [ client : Client \cup {Stranger}, nonce : Nonce, stamp : Nat,
             scope : Scope, namespace : Namespace \cup {Nowhere},
             signed : BOOLEAN ]

ASSUME RequestsAssumption ==
  /\ Requests \subseteq Request
  /\ Registry \in [Client -> Principal]
  /\ Stranger \notin Client

\* Settings.validate; from_env bounds each from below by a positive number.
ASSUME SettingsAssumption ==
  /\ Skew \in Nat /\ Ttl \in Nat /\ Ttl >= 2 * Skew
  /\ Capacity \in Nat \ {0} /\ Refill \in Nat \ {0}
  /\ MaxWait \in Nat /\ MaxClock \in Nat

VARIABLES
  now,        \* the clock
  pc,         \* where each delivery is
  carried,    \* the request it carries
  checkedAt,  \* when its timestamp was checked, until verify returns
  expires,    \* the expiry it asks its nonce to be kept to, likewise
  nonces,     \* the table request_nonces
  buckets,    \* the token bucket of each client
  grants,     \* history: when each client's bucket was charged, since startup
  claimed     \* history: the deliveries whose claim was committed

vars == <<now, pc, carried, checkedAt, expires, nonces, buckets, grants, claimed>>

-----------------------------------------------------------------------------

NonceRow == [ client : Client, nonce : Nonce, expires_at : Nat ]
Bucket   == [ tokens : 0 .. Capacity, updated : Nat ]

\* No request: the nonce and scope fields do not matter.
NoRequest == [ client |-> Stranger, signed |-> FALSE ]

InFlight == { "checked", "claiming", "replayed", "denied" }
Final    == { "unauthorized", "limited", "admitted", "conflict", "forbidden",
              "error", "lost" }

TypeOK ==
  /\ now \in Nat
  /\ pc \in [Delivery -> {"idle"} \cup InFlight \cup Final]
  /\ carried \in [Delivery -> Requests \cup {NoRequest}]
  /\ checkedAt \in [Delivery -> Nat]
  /\ expires \in [Delivery -> Nat]
  /\ nonces \in SUBSET NonceRow
  /\ buckets \in [Client -> Bucket]
  /\ grants \in [Client -> Seq(Nat)]
  /\ claimed \in SUBSET Delivery

Full == [ tokens |-> Capacity, updated |-> now ]

Init ==
  /\ now = 0
  /\ pc = [d \in Delivery |-> "idle"]
  /\ carried = [d \in Delivery |-> NoRequest]
  /\ checkedAt = [d \in Delivery |-> 0]
  /\ expires = [d \in Delivery |-> 0]
  /\ nonces = {}
  /\ buckets = [c \in Client |-> Full]
  /\ grants = [c \in Client |-> << >>]
  /\ claimed = {}

\* verify is left: its local variables are gone.
Leave(d, stage) ==
  /\ pc' = [pc EXCEPT ![d] = stage]
  /\ checkedAt' = [checkedAt EXCEPT ![d] = 0]
  /\ expires' = [expires EXCEPT ![d] = 0]

-----------------------------------------------------------------------------
(* The clock and the process *)

\* A delivery does not wait longer than MaxWait for the write lock.
Tick ==
  /\ now < MaxClock
  /\ \A d \in Delivery :
       pc[d] \in {"checked", "claiming"} => now < checkedAt[d] + MaxWait
  /\ now' = now + 1
  /\ UNCHANGED <<pc, carried, checkedAt, expires, nonces, buckets, grants, claimed>>

\* Requests under way die with the process, and the buckets with it; the
\* nonces are in the database.
Restart ==
  /\ pc' = [d \in Delivery |-> IF pc[d] \in InFlight THEN "lost" ELSE pc[d]]
  /\ checkedAt' = [d \in Delivery |-> 0]
  /\ expires' = [d \in Delivery |-> 0]
  /\ buckets' = [c \in Client |-> Full]
  /\ grants' = [c \in Client |-> << >>]
  /\ UNCHANGED <<now, carried, nonces, claimed>>

-----------------------------------------------------------------------------
(* The steps of verify, cut where it awaits *)

\* The timestamp is compared with the clock before the body is awaited.
Check(d) ==
  /\ pc[d] = "idle"
  /\ \E r \in Requests : carried' = [carried EXCEPT ![d] = r]
  /\ checkedAt' = [checkedAt EXCEPT ![d] = now]
  /\ pc' = [pc EXCEPT ![d] = "checked"]
  /\ UNCHANGED <<now, expires, nonces, buckets, grants, claimed>>

TimestampValid(r, time) == r.stamp - Skew <= time /\ time <= r.stamp + Skew

Authentic(d) ==
  /\ carried[d].client \in Client
  /\ carried[d].signed
  /\ TimestampValid(carried[d], checkedAt[d])

Least(a, b)    == IF a <= b THEN a ELSE b
Greatest(a, b) == IF a <= b THEN b ELSE a

\* (slip) A bucket that overflows.
RefilledUncapped(b) == b.tokens + (now - b.updated) * Refill

Refilled(b) == Least(Capacity, b.tokens + (now - b.updated) * Refill)

\* (slip) The time of the last refill is written only when a token is taken.

\* The bucket notes the time even when it is found empty.
Exhausted(c) ==
  /\ Refilled(buckets[c]) < 1
  /\ buckets' = [buckets EXCEPT ![c] = [ tokens |-> Refilled(buckets[c]), updated |-> now ]]
  /\ UNCHANGED grants

\* (slip) The time of the refill is not written.
ConsumeKeepingTime(c) ==
  /\ Refilled(buckets[c]) >= 1
  /\ buckets' = [buckets EXCEPT ![c].tokens = Refilled(buckets[c]) - 1]
  /\ grants' = [grants EXCEPT ![c] = Append(@, now)]

Consume(c) ==
  /\ Refilled(buckets[c]) >= 1
  /\ buckets' = [buckets EXCEPT
                   ![c] = [ tokens |-> Refilled(buckets[c]) - 1, updated |-> now ]]
  /\ grants' = [grants EXCEPT ![c] = Append(@, now)]

\* (slip) The window is counted from the receipt.
ExpiryBySkew(d) == now + Skew

Expiry(d) == Greatest(now + Ttl, carried[d].stamp + Skew + 1)

\* (slip) The bucket of the named client is charged whoever signed.
UnauthorizedCharged(d) ==
  /\ ~Authentic(d)
  /\ Leave(d, "unauthorized")
  /\ buckets' = [c \in Client |->
       IF c = carried[d].client
       THEN [ tokens |-> Greatest(0, Refilled(buckets[c]) - 1), updated |-> now ]
       ELSE buckets[c]]
  /\ UNCHANGED grants

Unauthorized(d) ==
  /\ ~Authentic(d)
  /\ Leave(d, "unauthorized")
  /\ UNCHANGED <<buckets, grants>>

Limited(d) ==
  /\ Authentic(d)
  /\ Exhausted(carried[d].client)
  /\ Leave(d, "limited")

Charged(d) ==
  /\ Authentic(d)
  /\ Consume(carried[d].client)
  /\ expires' = [expires EXCEPT ![d] = Expiry(d)]
  /\ pc' = [pc EXCEPT ![d] = "claiming"]
  /\ UNCHANGED checkedAt

\* From the signature's check to the call of claim_nonce there is no await.
Authenticate(d) ==
  /\ pc[d] = "checked"
  /\ Unauthorized(d) \/ Limited(d) \/ Charged(d)
  /\ UNCHANGED <<now, carried, nonces, claimed>>

Row(d) == [ client |-> carried[d].client, nonce |-> carried[d].nonce,
            expires_at |-> expires[d] ]

SameNonce(row, d) == row.client = carried[d].client /\ row.nonce = carried[d].nonce

\* (slip) <= in the purge for <.
UnexpiredStrictly == { row \in nonces : row.expires_at > now }

Unexpired == { row \in nonces : row.expires_at >= now }

\* Principal.allows
Allows(principal, scope, namespace) ==
  /\ scope \in principal.scopes \/ Admin \in principal.scopes
  /\ \/ namespace = Nowhere
     \/ Anywhere \in principal.namespaces
     \/ namespace \in principal.namespaces

\* claim_nonce purges and inserts in one transaction; a replay rolls back
\* the purge too.
Claim(d) ==
  /\ pc[d] = "claiming"
  /\ \/ /\ \E row \in Unexpired : SameNonce(row, d)
        /\ Leave(d, "replayed")
        /\ UNCHANGED <<nonces, claimed>>
     \/ /\ ~\E row \in Unexpired : SameNonce(row, d)
        /\ nonces' = Unexpired \cup {Row(d)}
        /\ claimed' = claimed \cup {d}
        /\ LET r == carried[d]
           IN  Leave(d, IF Allows(Registry[r.client], r.scope, r.namespace)
                        THEN "admitted" ELSE "denied")
  /\ UNCHANGED <<now, carried, buckets, grants>>

\* (slip) The insertion commits by itself, outside of the transaction.
ClaimFailsInserted(d) ==
  /\ pc[d] = "claiming"
  /\ Leave(d, "error")
  /\ nonces' = nonces \cup {Row(d)}
  /\ UNCHANGED <<now, carried, buckets, grants, claimed>>

\* The lock is not had in time, or the transaction fails.
ClaimFails(d) ==
  /\ pc[d] = "claiming"
  /\ Leave(d, "error")
  /\ UNCHANGED <<now, carried, nonces, buckets, grants, claimed>>

\* A refusal is put on the audit log before it is given; if that fails, the
\* client learns of the failure instead.
Report(d) ==
  /\ \/ pc[d] = "replayed" /\ pc' = [pc EXCEPT ![d] = "conflict"]
     \/ pc[d] = "denied" /\ pc' = [pc EXCEPT ![d] = "forbidden"]
     \/ pc[d] \in {"replayed", "denied"} /\ pc' = [pc EXCEPT ![d] = "error"]
  /\ UNCHANGED <<now, carried, checkedAt, expires, nonces, buckets, grants, claimed>>

Next ==
  \/ Tick
  \/ Restart
  \/ \E d \in Delivery :
       Check(d) \/ Authenticate(d) \/ Claim(d) \/ ClaimFails(d) \/ Report(d)

Spec == Init /\ [][Next]_vars

-----------------------------------------------------------------------------
(* Safety *)

\* A request is admitted at most once, however often and whenever it is
\* delivered, and whatever restarts come between.  (The timestamp window,
\* the claim, and the purge of expired nonces have to fit together.)
AtMostOnce ==
  \A d, e \in Delivery :
    d # e /\ pc[d] = "admitted" /\ pc[e] = "admitted" => carried[d] # carried[e]

\* A nonce is on record for as long as its request could pass the timestamp
\* check, through purges and restarts.
RetainedWhileFresh ==
  \A d \in claimed :
    now <= carried[d].stamp + Skew => \E row \in nonces : SameNonce(row, d)

\* A request is taken for a replay only if its nonce was claimed before: one
\* that met an error before its claim was committed can be sent again.
NoFalseReplay ==
  \A d \in Delivery : pc[d] \in {"replayed", "conflict"} =>
    \E e \in claimed : e # d /\ /\ carried[e].client = carried[d].client
                                /\ carried[e].nonce = carried[d].nonce

\* Over any stretch of time in the life of a process a client is granted no
\* more than the capacity and what the stretch refills.
RateBound ==
  \A c \in Client : \A i, j \in DOMAIN grants[c] :
    i <= j => j - i + 1 <= Capacity + Refill * (grants[c][j] - grants[c][i])

\* No one but the client itself, with requests it signed, uses up its budget:
\* it is not limited before the whole capacity was granted to it.
\* ("This order prevents invalid signatures from starving ... a known
\* client", docs/ARCHITECTURE.md.)
LimitedByItself ==
  [][ \A d \in Delivery : pc[d] # "limited" /\ pc'[d] = "limited"
        => Len(grants[carried[d].client]) >= Capacity ]_vars

=============================================================================
