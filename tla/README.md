# Echo Vault in TLA+

Echo Vault is a self-hosted secrets manager: a FastAPI service over one SQLite
database and one append-only file.  These modules model the parts of it whose
correctness depends on the order in which things happen, check them with TLC on
small instances, and prove the most important of their properties for every
instance with TLAPS.

Paths below are relative to the repository; `store.py`, `auth.py` and so on are
in `src/echo_vault/`.

## The system

| Component | State it keeps | Operations | Correct if |
|---|---|---|---|
| Store engine (`store.py`) | SQLite: `secrets`, `secret_versions`, `vault_meta` | create, update, delete, get, list_metadata, list_versions, rekey_all, bootstrap, ping | no acknowledged write is lost or doubled; versions are 1..n; all or nothing |
| Audit log and anchor (`store.py`) | SQLite: `audit_events`; the anchor file | _append_audit and _append_anchor inside each transaction, record_security_event, two verifications | every committed event has its record in the file; the two sides, once apart, are never papered over; a valid verdict is true, a row that is blamed is the first bad one |
| Key ring (`crypto.py`) | key file, read at startup | load, encrypt, decrypt, create_key_ring | a version opens under its key and only as the row it was sealed for; no key is dropped that a version needs |
| Admission (`auth.py`, `claim_nonce`) | token buckets in memory; `request_nonces` in SQLite | verify, _consume, claim_nonce, allows | a request passes at most once; no false replay; the rate bound holds |
| HTTP service (`app.py`) | store and authenticator of the process | startup, middleware (size limit, checkpoint gate), routes, error handlers | a request is served only past every gate; replies and log tell one story; repeated writes do no harm |
| Models (`models.py`) | none | validation of bodies | bounds |
| Configuration (`config.py`) | settings of the process | from_env, validate | the settings are ones the rest is right under |
| Command line (`cli.py`) | files in a directory | init, serve, put, get, ... | an init that ends well leaves one set of files, and none touches what is complete |
| Browser console (`web/app.js`) | a session in one tab | unlock, lock, load, reveal, create, update, delete, rekey, verify | what is shown and sent belongs to the session and namespace on screen |
| Container (`compose.yaml`, `docker-entrypoint.sh`) | the process, copies of two files | copy, start, restart | it serves complete files of one init, and comes up once they are there |
| Operators (`docs/OPERATIONS.md`) | backups of both sides | backup, restore, rotate keys | mistakes are noticed |

**How they interact.**  A request passes the middleware, which calls
`verify_audit_checkpoint`; then `Authenticator.verify`, which calls
`claim_nonce` and, for a refusal, `record_security_event`; then one method of
the store; and, if that raises a conflict or finds nothing, a second
`record_security_event`.  All of them open their own SQLite connection and meet
at the database's write lock (`BEGIN IMMEDIATE`), and at the anchor file, which
has no lock of its own: it is written only by the holder of the write lock and
read by anyone.  Requests are coroutines of one event loop and interleave at
every `await`.

**What is hard.**  The database and the anchor share no transaction: a record is
on disk before its event is committed, and the process may die, the write may be
short, or the commit may fail in between.  Verifications read the two one after
the other without a lock.  The operator may edit the key ring between two lives
of the process, or put an older copy of one side in place.  In admission the
clock moves between the timestamp's check and the purge of expired nonces, and a
client repeats what it got no answer to.  The console waits three times in each
request, and is locked, unlocked and clicked meanwhile.  Rows of the audit table
may be changed by someone else while a verification walks over them.  Runs of
`init` share a directory without a lock, and a container copies from it.
`PROJECT.json` lists each hazard with
its line and the properties that would catch it.

## Modules

| Module | What it is |
|---|---|
| `SecretLedger` | What the store promises: histories of payloads and a log, each call one atomic step. |
| `VaultStore` | The store engine, the audit log, the anchor file, the key ring, startup and crashes. |
| `VaultCustody` | `VaultStore` with an operator who backs up, restores, loses and truncates. |
| `KeyRotation` | `VaultStore` with an operator who rotates keys by the runbook. |
| `VaultService` | `VaultStore` inside the HTTP service: gate, admission, route, recording of failures, reply. |
| `AuditChain` | The hash chain over the content of rows, and rows changed behind the vault's back. |
| `Admission` | Timestamp, signature, token bucket, nonce, scope; the clock, restarts, repeated deliveries. |
| `Console` | The browser console: session, inventory, dialogs, timers, requests under way. |
| `Provisioning` | Overlapping runs of `init`, and the container that copies their files and starts. |
| `VaultStore_proofs` | Proofs about `VaultStore`: types, the journal of the anchor, failing closed. |
| `VaultData_proofs` | More about `VaultStore`: the secrets, the log, the verdicts, and that it implements `SecretLedger`. |
| `VaultService_proofs` | Proofs about `VaultService`, on top of the store's. |
| `Operators_proofs` | Proofs about `KeyRotation` (on top of the store's) and `VaultCustody`. |
| `Admission_proofs`, `AuditChain_proofs`, `Console_proofs`, `Provisioning_proofs` | Proofs about the module each is named after. |
| `MC...` | The instances TLC checks. |

`VaultCustody`, `KeyRotation` and `VaultService` extend `VaultStore` and add
actions; `VaultStore` instantiates `SecretLedger` under a refinement mapping.
Every step of `VaultService` is by its form one of `VaultStore` or leaves it
alone, so that what is proved of the store holds in the service.
`Admission` stands alone: the nonce table and the rest of the store are touched
by different transactions, which meet only at the write lock, and the wait for
that lock is `MaxWait`; `VaultService` takes over its verdicts without its clock,
so that any nonce on record may have expired by the next claim.
`AuditChain` refines one abstraction of `VaultStore`, the identity of an event,
and drops the rest.  `Console` and `Provisioning` lie outside the service.

### VaultStore and the code

- `db` is what SQLite has committed, `work` the copy the holder of the write
  lock (`writer`) is about to commit.  WAL readers see `db`.
- `anchor` is the file: whether it exists, and its lines.  A line is a signed
  record with the part of it that was written: `whole`; `unended`, all but the
  newline, which still parses, but to which the next append is glued; or `torn`.
- `phase` follows `lifespan` and `bootstrap`: `Open` (key ring, schema,
  identity), `StartAnchor`/`StartAnchorFails`/`KeepAnchor`, `Admit` (the
  checkpoint that ends bootstrap).  Its refusal to start an anchor beside
  existing events, `RefuseAnchor`, needs an anchor that was lost and is in
  VaultCustody.  Bootstrap runs before any
  request is accepted.  `Crash` ends the process at any point.
- A task is one call of a method.  `pc` says where it waits: `target` (the
  checks of `rekey_all` before its connection), `begin` (for the write lock),
  `execute` (the lock held), `commit` (the anchor written, the commit not yet
  made); for the verifications `rows`, `anchor`, `tail`.  What a method does
  from `BEGIN IMMEDIATE` to the append to the anchor is one action, named after
  it: nobody else can write, and what others can read does not change before
  the append.  The commit is an action of its own, because others read the
  anchor, crash or fail in between.
- `AppendAudit` is `_append_audit` and `_append_anchor`: refused if the sequence
  or the anchor's last record disagrees; done, with whichever part of the record
  the write took; or failed with whatever was left behind (`Remnants`).
- `Busy`, `CommitFails` and the failing disjunct of `AppendAudit` are always
  possible.  Nothing bounds failures or crashes.

### Admission and the code

`verify` is cut where it awaits: `Check` (timestamp against the clock),
`Authenticate` (signature, `_consume`, the expiry asked for; there is no await
between), `Claim` or `ClaimFails` (`claim_nonce`, one transaction), `Report`
(the audit event of a refusal, which may fail).  `Tick` moves the clock, but no
further than `MaxWait` past the check of a delivery that is still waiting.
`Restart` loses requests under way and the buckets.  `grants` and `claimed` are
history variables that no action reads.

### VaultService and the code

- A request has three tasks of the store, `<<r, "gate">>`, `<<r, "call">>` and
  `<<r, "record">>`: the checkpoint of the middleware, the method its route
  calls, and `record_security_event` for a refusal.  `stage` says which it waits
  for.  What the service does between two of them is one action: `Receive` (size
  limit, gate or not), `Enter` and `TurnAway` (the gate's answer), `Refuse` and
  `Claim` (admission), `Refused` (its refusal is recorded), `Served`, `Fail` and
  `Failed` (the route's result, the handlers of `app.py`).
- `reply` has the status and whether `secure_response` put its headers on it.
  An exception that no handler takes passes the middleware and is answered by
  the framework (`Unhandled`).
- `nonces` is `request_nonces` with who claimed each.  `claim_nonce` purges what
  has expired before it inserts: `Claim` lets it keep any of the rows on record,
  as there is no clock.  So a nonce may be claimed twice, as in the code once its
  time to live is over; that it is not claimed twice too early is `Admission`'s
  business, and that a repeated write does no harm even then is `DoneOnce`.
- `late` is a history variable: the requests received after anchor and log had
  come apart.

### VaultCustody and the code

The operator's actions (`Backup` to `LoseAnchor`) are external; `RefuseAnchor` is
bootstrap's refusal to start an anchor beside events.  `held` is a history
variable, the verifications during which the two sides agreed at some moment:
`VerdictWasTrue` says that a verdict of `valid` speaks of such a moment, with
commits, crashes and deletions of rows between its two reads.

### KeyRotation and the code

`file` is the key file, `ring` (of `VaultStore`) what the process has loaded of
it: `LoadKeys` is `Open` with the file as it is by then.  `AddKey`, `Activate`
and `RetireKey` are the runbook (docs/OPERATIONS.md); a key is retired only once
`rekey_all` has reported success for the key that is active, of a call made
since it was made active.  The properties show why `rekey_all` refuses a target
that is loaded but not active: without that check (`CheckTargetLoaded`) the
process goes on sealing under the key that is being retired.

### AuditChain and the code

A hash is the tuple of what was hashed, so rows can be altered (`AlterRow`, in
value or in the spelling of `details_json`), renumbered (`RenumberRow`),
exchanged, deleted, and inserted before, between or after the others (with copied
hashes, since nobody else can compute one).  Rows are kept in the order of their
numbers, as `ORDER BY id` reads them; a number given by others is at most two past
the last (`Ids`), that is in a gap, next, or after a gap.  `AppendAudit`,
`Commit` and `Rollback` are the vault's transaction; `ReadRows`, one `CheckRow`
for each turn of the loop, `ReadAnchor` and `ReadTail` are
`verify_audit_chain`.  `journal` is the anchor; that it may fail is in
`VaultStore`.

### Console and the code

An action is what runs between two awaits, or in one callback.  An operation is a
handler from the event that starts it: `Sign` (the digest is there, the key is
read for the signature), `Send` (the signature is there, the client id is read
for the header), then `Loaded`, `Revealed`, ... or `Fail`.  `lockTimer` is
`state.lockTimer`, `timers[o]` the timer a reveal sets, `closing` the `close`
event of the dialog, which is delivered after the handler that caused it.
`idle`, `shown` and `entered` are history variables; `entered` has the clients
that were entered in the unlock form since the session was last locked.

### Provisioning and the code

`disk` has the three files, each nothing, a part or a whole, and by which run.
`Open` is the exclusive creation, `Write` and `WriteFails` the `try` around the
writing, `ReadBack` the `KeyRing.load` at the end of `create_key_ring`; `Kill`
leaves things as they are.  `CopySecret` is one call of the entry point's
function, `Load` the first three lines of `lifespan`, `Restart` the restart
policy.  Operators remove the rest of a failed `init` only while nothing runs.

### Slips

A definition marked `(slip)` is the definition after it as a plausible mistake
would have it: a dropped guard, a forgotten reset, `<=` for `<`.  No action uses
it.  `PROJECT.json` pairs each with a property that fails if it takes that
definition's place, which shows that the property can tell.

## Runs

| Run | Instance | Asks |
|---|---|---|
| `store` | 3 calls of any of 11 kinds, 1 name, 2 keys | all safety properties of `VaultStore`; that it implements `SecretLedger` |
| `custody` | 3 calls (an event or a checkpoint), 2 identities, an operator | nothing is built on a loss, or served after one; a valid verdict is true |
| `rotation` | 3 calls (create, update, delete, rekey to either key), 1 name, 2 keys | no version is left under a retired key |
| `service` | 2 requests of ten kinds, three tasks of the store each, 2 nonces | replies match the log; the gate holds; a repeated write is done once |
| `service_live` | 2 requests, for a write and one that follows it, or twice for one, and the events of their failures, fair | every request is answered; the lock is released; the vault serves again |
| `audit` | 3 events, 2 edits by others, a verification at any time | valid, and the row it blames, are exact |
| `admission` | 3 deliveries of 7 requests, skew 1, time to live 4, wait 2, clock to 8, capacity 2, refill 1 | at most once, no false replay, retention; the rate bound; nobody pays for others |
| `console` | 3 operations of any of eight kinds, 2 clients, 2 namespaces, timers of 3 and 2 ticks | keys and plaintexts expire; rows belong to the namespace on screen; a console once locked is silent |
| `provisioning` | 3 runs of `init`, a container, fair | one set of files; nothing complete is replaced; the vault comes up |
| `replay_at_bound`, `console_rotation`, `audit_fail_closed` | small | what a document, or the page itself, says and the code does not do; see Findings |

**Why these bounds.**  Every call is one transaction, so three calls are a log
of up to three events, a writer, a waiter, and a verification that spans two
commits: each race in the list of hazards needs at most three.  Three calls on
one name give create, update, delete in every order and each pair of conflicting
writers; names do not interact but by the uniqueness of identifiers, which the
proofs cover for any number.  Two keys give a ring that lacks the old key, the
new one, or neither.  In `service_live` each request has three calls of the
store, so writers meet writers, and recordings of failures too.  In `custody` one kind of event is enough, since the log
and the anchor do not depend on what an event is about, and two identities are
needed for a database that is lost and made anew.  In `admission` the clock passes
both ends of the window, the expiry of the nonce and the reuse of the nonce by a
later request; the seconds are scaled down, the inequalities `validate` imposes
are kept; three deliveries empty a bucket of two, and see it refilled.
`replay_at_bound` uses the least values the settings allow.
The properties of `service` speak of one request or of a pair, so two suffice
for a request that races with another or repeats it; ten kinds are a good one
of each sort and one that lacks each thing.  In `audit` a row before, at and
after an edit needs three events, and two edits undo or compound each other.  In
`console` a session, a reveal or load and a second one, or a second session, are
three operations; the ticks let a timer be renewed before it runs out, and the
two limits differ.  In `provisioning` one run can fail, one be killed and one
complete.  In `rotation` two writes and a rekeying under the old and the new
ring are what it takes to leave a version behind.  `MaxEvents` and `MaxEdits`
bound `AuditChain`, `LockAfter` and `RevealFor` the ages in `Console`; nothing
else there is counted.

Tasks, deliveries, requests, operations and keys are symmetric in the safety
runs; no symmetry is used for liveness.

A task or delivery does one thing in its life, so a run ends when all have; the
process can still crash and restart (or restart), the console's clock ticks and
the operator stops and starts, so no state is a deadlock, and deadlock is checked
in every run.

**Fairness.**  `VaultStore!Fairness` has `WF(Bootstrap)`: `compose.yaml` restarts
the container whenever it exits, and startup runs to its end; and `WF(Step(t))`:
the event loop resumes every coroutine whose await is over, and SQLite's busy
handler ends every wait.  `VaultService!FairServiceSpec` adds the same for the
rest of a request, `WF(Handle(r))`.  Crashes, failures and new requests are not
fair.  `ServesAgain` assumes that crashes and failed first writes cease at some
time; bootstrap's own refusal to serve is not taken for a crash, so that it
counts.  `Provisioning!FairSpec` is `WF(Container)`: entry point and startup run
through, and Docker restarts what exits; no `init` has to go on.  `Console`
needs none: its properties bound the age of what is on screen in ticks.

## Properties

`VaultStore`: `EvidenceAnchored`, `FailClosed`, `CheckpointSound`,
`SecretsSound`, `AuditExplainsData`, `AcknowledgedKept`, `ImplementsLedger`,
`LockReleased`, `ServesAgain`.  `VaultCustody`: `NothingBuiltOnLoss`,
`ServesOnlyWhole`, `VerdictWasTrue`.  `KeyRotation`: `NothingOrphaned`.
`VaultService`: `LogTellsReplies`, `LateTurnedAway`, `DoneOnce`,
`EveryRequestEnds`.  `AuditChain`: `ValidMeansOriginal`,
`BlameExact`, `NothingCutOff`.  `Console`: `KeyExpires`, `PlaintextExpires`,
`RowsOfNamespace`, `SilentOnceLocked`.
`Provisioning`: `NeverReplaced`, `DoneIsOneSet`, `ServesTheDone`,
`VaultComesUp`.  `Admission`: `AtMostOnce`, `RetainedWhileFresh`,
`NoFalseReplay`, `RateBound`, `LimitedByItself`.  Each is stated in words above
its definition.

## Findings

Each is the counterexample of a run.

1. `replay_at_bound`: with a time to live of exactly twice the skew, which
   config.py:78 accepts, a wait of two seconds for the write lock is enough for a
   request to be admitted twice, against docs/THREAT_MODEL.md:27.  `ReplaySafe`
   says what would do: the wait within `Ttl - 2 * Skew`, which the defaults
   (300, 90) give with 120 s against a busy timeout of 30 s.
2. `console_rotation`: the update form (web/app.js:310) keeps name and version of
   the row that was selected but reads the namespace when it is sent: after
   another namespace is loaded, a secret of the same name there is overwritten.
3. `audit_fail_closed`: the gate asks the checkpoint only (app.py:112), which
   compares the number and the hash of the last row: after a deep verification
   has found a bad row, be it the last, the vault goes on appending, where
   web/app.js:226 says it remains fail-closed.

The models also show, though no run asks for them:

- `verify_audit_checkpoint` (store.py:782) may call a sound vault invalid when it
  straddles an append or commit (`ReadAnchor`, `Commit`, `ReadTail`), and
  `verify_audit_chain` (store.py:851) may count fewer events than end in the hash
  it reports; `CheckpointSound` is stated so as to allow for both.
- A short `os.write` (store.py:318) goes unnoticed: the event is committed
  without a readable record (`AppendAudit` with an extent of `"torn"`).  The
  vault closes, as `FailClosed` promises, but only afterwards.
- Exceptions without a handler (`sqlite3`'s, `OSError`) are answered past
  `secure_response` (`Unhandled`), without the headers docs/THREAT_MODEL.md:30
  promises for all responses.
- A `details_json` that does not parse ends the deep verification with an
  exception, and one that parses to the same value passes (`CheckRow`; store.py:221).
- A reveal that is answered after the session was locked is shown on the locked
  console (web/app.js:200), and its timer, never cancelled, closes the dialog of
  a later one early (web/app.js:204).  `PlaintextExpires` holds all the same.

- What was being signed when the console was locked may still leave it once the
  same client has been typed into the unlock form, since web/app.js:257 sets the
  client before the import of its key has ended; and a request that is asked for
  in one session may be signed and sent in the next (`Sign`, `Send`).
  `SilentOnceLocked` is stated so as to allow for both: it forbids what leaves
  after a lock and before the client has been entered again.

## What is proved

Every safety property that a passing run checks is also a theorem, for every
value of the constants; liveness is not (see the end of this section).  Each
inductive invariant below was first checked by TLC on the instance of the
component's run.  Nothing is assumed but the named assumptions of the modules.

### The store

For every set of tasks, names, keys, identities and calls
(`CallsAssumption`: a call that names a secret or key names one there is, as
`models.py` and the routes see to; `NoneAssumption`: `None` is not one of them).
In `VaultStore_proofs`:

- `TypeCorrect`: `Spec => []TypeOK`.
- `AnchorVouches`: `Spec => []EvidenceAnchored`.
- `StaysClosed`: `Spec => FailClosed`.

The argument is an inductive invariant, `Inv`.  `EvidenceAnchored` alone is not
inductive: a commit needs to know that the pending event's record is the last of
the file (`PendingAnchored`), which needs that only the holder of the lock is in
a transaction (`LockHeld`), that rows and records are numbered without gaps and
name one database (`EventsNumbered`, `JournalNumbered`), that the file is at
most one ahead (`JournalCovers`), and that a damaged record has at most one
successor (`OnlyEndDamaged`).  `StaysClosed` then looks at each step from a
diverged state: an append is refused since `Continuous` and `CheckpointHolds`
ask the same of the file, and a pending commit is excluded.

In `VaultData_proofs`:

- `OneHistory` (`SecretsSound`), `LogExplains` (`AuditExplainsData`),
  `WritesKept` (`AcknowledgedKept`), `VerdictsHold` (`CheckpointSound`).
- `WrittenOnce`: no two writes that were answered as done are the same call: a
  name is created once, changed from a given version once, deleted once.
- `Implements`: `Spec => ImplementsLedger`.

`DataInvariance` gives the invariant `VaultInv`, which is `Inv` with `DataInv`:

- a transaction about to commit is its method's, on the database as it still is
  (`PendingEdit`): what `update` read before the append is what it changes at the
  commit, because the lock is held;
- identifiers are distinct and below the sequence, and each secret has exactly
  one row for each of its versions, sealed for that row (`SecretsInv`);
- the log counts creations, updates and deletions (`Explains`), and a call is in
  the log if and only if it was answered as done (`LoggedIsDone`);
- a verification has counted no more rows than the log has, and the record it
  holds is one of the file (`SeenThere`); a verdict of `valid` names a row and a
  record that are still there (`VerdictsSound`).

`ExecuteOutcome` reduces the eight methods to two outcomes, a refusal whose
reason is true of the database (`Declines`) or an edit with its event
(`Prepares`), so that each conjunct is proved once and not once per method.
`WrittenOnce` adds what a committed write leaves behind (`EffectOf`): a name
that exists, a version that is past, a deletion.

The refinement is a step simulation (`StepSimulated`): under the mapping of
`VaultStore!Ledger` a commit is the call's one step of `SecretLedger`, the end of
a refused or failed call is the ledger's refusal, a verification's answer is
checked against the log of that moment, and everything else stutters.
`VaultInv` holds before and after the step; from it come the two facts that the
mapping needs, that `PayloadOf` picks from exactly one row (`PayloadIs`) and that
rekeying, which replaces rows, leaves every history as it was (`SameHistory`).

### The service

For every set of requests, nonces and wishes (`ServiceAssumption`: the tasks are
the three parts of each request), in `VaultService_proofs`:

- `ServiceImplements`: `ServiceSpec => ImplementsLedger`, by way of a lemma
  (`ServiceIsStore`) that carries every theorem of the store over.
- `ServiceTypeCorrect`, and `GateHolds` (`LateTurnedAway`).  The argument
  (`ServiceInv`): once the two sides have come apart they stay so
  (`StaysClosed`), so the checkpoint of a request that came later cannot answer
  `valid`, and without that answer the request never gets to admission.
- `LogAndReplies` (`LogTellsReplies`) and `RepetitionIsHarmless` (`DoneOnce`).
  `TaleInv` says how far each of a request's calls can be at each stage of it:
  what is recorded of a request was not done (`TaleOf`), verdicts are given by
  verifications alone (`FitOf`).  The store's `LoggedIsDone` turns this into
  statements about the log, and `WrittenOnce` gives `DoneOnce`: it is the store
  that makes repeated writes harmless, whatever admission lets through.

### The operators

In `Operators_proofs`:

- `NothingIsOrphaned` (`NothingOrphaned`), on top of the store's theorems
  (`RotationKeepsToStore`: `RotationSpec => Spec`).  The invariant, `RotationInv`: every key a version is
  under is in the file, and in the ring of the process (`KeysAtHand`); and from
  a report of `rekey_all` to the next change of the active key everything,
  pending or to come, is under that key (`RekeyedForGood`), which holds since
  the process that reported has it as its own active key.
- `LossIsNotBuiltOn` (`NothingBuiltOnLoss`), `WholeIsServed`
  (`ServesOnlyWhole`), `VerdictsWereTrue` (`VerdictWasTrue`).  None of the
  store's invariants survives an operator, so this is an argument of its own.
  `CustodyInv` says what one side is worth when the other has been touched: an
  untouched anchor has, in order, a record of all that was acknowledged, and
  every copy of the database is a beginning of it (`AnchorGenuine`); an
  untouched log has all of it (`Whole`).  If the two agree, the log is as long as
  the anchor says, so it is whole (`AgreementIsWhole`); and agreement is asked
  for before every commit and every start.  `WitnessInv` says that a
  verification that has not seen agreement yet holds the anchor's last record:
  the file only grows from agreement.

### The rest

For every set of deliveries and requests, every manifest, and all settings with
`Ttl >= 2 * Skew`, positive capacity and refill (`SettingsAssumption`), in
`Admission_proofs`:

- `TypeCorrect`, `WindowCovered` (`RetainedWhileFresh`), `ReplaysReal`
  (`NoFalseReplay`).
- `ReplaySafe`: `WaitCovered => (Spec => []AtMostOnce)`.
- `RateLimited` (`RateBound`), `OwnBudget` (`LimitedByItself`).

`AtMostOnce` rests on `ClaimedKept` (a claimed nonce is on record, or the latest
time it had to be is past) and `ClaimsJustified` (who claims was checked within
the window, at most `MaxWait` ago).  `RateBound` rests on `Budget`: what was
granted since any grant, with what is left, is within the capacity and the
refill since that grant.  `LimitedByItself` needs the converse (`Saved`): what is
left, with what was granted in this process, is at least the capacity.

For any number of values, events and edits (`BoundsAssumption`), in
`AuditChain_proofs`: `TypeCorrect`, `ValidIsOriginal` (`ValidMeansOriginal`),
`BlamesFirst` (`BlameExact`), `EndIsThere` (`NothingCutOff`).  The invariant
`IInv` says that the journal is a chain of hashes of what the vault wrote
(`Linked`), so that a row that recomputes to the hash after an original one is
original itself; that the loop has passed original rows only (`Passed`); that
a pending row has the next number (`Numbered`); and, for the end of the log,
how much of the anchor was due when the rows were read (`Frozen`).

For any number of operations, clients and namespaces and any two limits, in
`Console_proofs`: `TypeCorrect`, `KeyIsForgotten` (`KeyExpires`),
`PlaintextIsCleared` (`PlaintextExpires`), `RowsBelong` (`RowsOfNamespace`),
`LockedIsSilent` (`SilentOnceLocked`).  `KeyExpires` and `RowsOfNamespace` are
inductive; `PlaintextExpires` is not: a secret may be revealed into a dialog that
is still open, so that the timer that counts is another reveal's (`DialogKept`).
`SilentOnceLocked` rests on `NamedIsEntered`: a key may outlive a lock, if its
import ends after it, but the client the session names may not.

For any number of runs of `init`, in `Provisioning_proofs`: `TypeCorrect`,
`OneSet` (`DoneIsOneSet`), `MaterialStays` (`NeverReplaced`), `ServesOneSet`
(`ServesTheDone`).  The invariant, `Owns`, makes explicit the lock that nobody
wrote: a run that got past `keys.json` owns it for good, so no other gets
further, and what a failed write unlinks by name is its own part.  `Copied` adds
the container: what it has copied, whole, is still what is on disk.

**Only model-checked:** `LockReleased`, `ServesAgain`, `EveryRequestEnds` and
`VaultComesUp`: they are liveness under fairness, which needs `ENABLED` and is
out of the provers' reach.  That a counterexample exists (the three runs under
Findings) is TLC's to show.

## Abstractions, and what is not modelled

- One namespace; tags, timestamps, actors and the number of rekeyed versions are
  left out.  Keyed hashes do not collide and signatures are not forged; a record
  of the anchor is always one the vault wrote.
- Reading a file or a table does not fail by itself; writing may, everywhere.
  `sqlite3` errors of a verification are not modelled.
- The clock never runs backwards (a hazard of auth.py:169 that no property
  covers), and token buckets are full again after a restart (auth.py:132): no
  document promises otherwise.
- `VaultService` has no clock: a refusal by budget is always possible, and any
  nonce may have expired when the next one is claimed.  `Admission` has the times.
- An empty rotation form asks for no secret; that case is left out of `Console`.
- An `init` that fails at the bootstrap file leaves a vault that serves and whose
  client nobody has the secret of.  The model has it; no property is about it,
  since no document says what should happen.
- Dead branches (`rowcount != 1` under the write lock, a missing identity after
  bootstrap) are left out.
- Not modelled: field validation (`models.py`), pure functions of one request
  that unit tests reach; reading the environment (`config.py`); the commands of
  the command line other than `init`, each one signed request that blocks until
  its answer; the markup and style of the console; the image.  Scripts, tests and
  CI files hold no behaviour of a running vault.

## Plan

Done: all the modules above, their runs, and the theorems on every safety
property.  Left: nothing that the provers can reach is open among the properties;
what could be added next is

1. the properties of `AuditChain` for a log that `VaultStore` wrote, by a
   refinement between the two (at present they share the code they model, and
   the reader's word);
2. `Admission` under `VaultService`: that the service's refusals are those of
   `verify` with a clock.
