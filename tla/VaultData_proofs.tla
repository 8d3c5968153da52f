-------------------------- MODULE VaultData_proofs --------------------------
(***************************************************************************)
(* More proofs about VaultStore, for every set of tasks, names, keys and   *)
(* calls: the rows of the secrets tell one history, the audit log alone    *)
(* explains them, what was acknowledged is kept, what a verification       *)
(* called valid stays so, and the store implements SecretLedger.           *)
(***************************************************************************)
EXTENDS VaultStore_proofs, FiniteSetTheorems

-----------------------------------------------------------------------------
(* Where a call can be *)

Verification == { "verify_audit_checkpoint", "verify_audit_chain" }

\* A call is under way only while its process serves, is at a stage of its own
\* method, and has no answer before it is done or about to commit.
Placed(t) ==
  /\ pc[t] \in Waiting => phase = "serving"
  /\ pc[t] = "idle" => call[t] = NoCall
  /\ pc[t] # "idle" => call[t] \in Calls
  /\ pc[t] \notin { "commit", "done" } => answer[t] = NoAnswer
  /\ pc[t] = "target" => call[t].op = "rekey_all"
  /\ pc[t] \in { "begin", "execute", "commit" } => call[t].op \notin Verification
  /\ pc[t] = "rows" => call[t].op = "verify_audit_chain"
  /\ pc[t] \in { "anchor", "tail" } => call[t].op \in Verification
  /\ pc[t] \in { "begin", "execute", "commit" } /\ call[t].op = "rekey_all"
       => call[t].key = ring.active

CallsPlaced == \A t \in Task : Placed(t)

-----------------------------------------------------------------------------
(* What a method does to the database before it is audited *)

Changed(seq, secrets, versions) ==
  [db EXCEPT !.secret_seq = seq, !.secrets = secrets, !.versions = versions]

\* The name the event mentions.
NameOf(t) == IF call[t].op \in OnName THEN call[t].name ELSE None

NewRow(sid) == [ sid |-> sid, current |-> 1, deleted |-> FALSE ]

\* The versions after the secret's next one is written, or all are sealed again.
WithVersion(t, sid, n, version) ==
  db.versions \cup {Seal(ring.active, t, sid, n, version)}

ResealedAll(target) ==
  (db.versions \ { row[1] : row \in JoinedOld(target) })
    \cup { Resealed(row, target) : row \in JoinedOld(target) }

\* The working copy that the method of a call hands to _append_audit.
Edited(t) ==
  LET n   == call[t].name
      sid == db.secrets[n].sid
      cur == db.secrets[n].current
      new == db.secret_seq + 1
  IN  CASE call[t].op = "create" ->
             Changed(new, [db.secrets EXCEPT ![n] = NewRow(new)],
                     WithVersion(t, new, n, 1))
        [] call[t].op = "update" ->
             Changed(db.secret_seq, [db.secrets EXCEPT ![n].current = cur + 1],
                     WithVersion(t, sid, n, cur + 1))
        [] call[t].op = "delete" ->
             Changed(db.secret_seq, [db.secrets EXCEPT ![n].deleted = TRUE],
                     db.versions)
        [] call[t].op = "rekey_all" ->
             Changed(db.secret_seq, db.secrets, ResealedAll(call[t].key))
        [] OTHER -> db

\* The condition under which the method does not refuse.
Permitted(t) ==
  LET n == call[t].name
  IN  /\ call[t].op = "create" => db.secrets[n].sid = 0
      /\ call[t].op \in { "update", "delete" } =>
           Live(db, n) /\ VersionAgrees(n, call[t].expected)
      /\ call[t].op \in { "get", "list_versions" } => Live(db, n)

\* What it returns if the commit succeeds.
Returns(t, result) ==
  LET n   == call[t].name
      cur == db.secrets[n].current
  IN  CASE call[t].op = "create" -> result = Result("ok", 1, None, {})
        [] call[t].op = "update" -> result = Result("ok", cur + 1, None, {})
        [] call[t].op = "delete" -> result = Result("ok", cur, None, {})
        [] call[t].op = "get" ->
             \E v \in CurrentRows(db, n) :
               result = Result("ok", v.version, v.payload, {})
        [] call[t].op = "list_metadata" ->
             result = Result("ok", 0, None,
               { <<m, db.secrets[m].current>> :
                   m \in { m \in Name : Live(db, m) /\ CurrentRows(db, m) # {} } })
        [] call[t].op = "list_versions" ->
             result = Result("ok", 0, None,
                             { <<n, v.version>> : v \in VersionsOf(db, n) })
        [] OTHER -> result = Result("ok", 0, None, {})

\* The transaction that is about to commit is its method's, on the database as
\* it still is.
PendingOf(t) ==
  /\ Permitted(t)
  /\ Returns(t, answer[t])
  /\ work = WithEvent(Edited(t), t, NameOf(t))

PendingEdit == \A t \in Task : pc[t] = "commit" => PendingOf(t)

-----------------------------------------------------------------------------
(* The rows of the secrets, and the log, of a database *)

\* Rows that are there have identifiers of their own and at least one version.
Identified(d) ==
  /\ \A m, n \in Name :
       d.secrets[m].sid # 0 /\ d.secrets[m].sid = d.secrets[n].sid => m = n
  /\ \A n \in Name :
       /\ d.secrets[n].sid <= d.secret_seq
       /\ d.secrets[n].sid = 0 => d.secrets[n].current = 0 /\ ~d.secrets[n].deleted
       /\ d.secrets[n].sid # 0 => d.secrets[n].current # 0

\* Every version belongs to a secret and was sealed for its place there; each
\* secret has all of them, each once.
Owns(d, n, v) ==
  /\ d.secrets[n].sid # 0
  /\ v.sid = d.secrets[n].sid
  /\ v.version \in 1 .. d.secrets[n].current
  /\ v.aad = [ sid |-> v.sid, name |-> n, version |-> v.version ]

Numbered(d) ==
  /\ \A v \in d.versions : \E n \in Name : Owns(d, n, v)
  /\ \A n \in Name : \A k \in 1 .. d.secrets[n].current :
       \E v \in d.versions : v.sid = d.secrets[n].sid /\ v.version = k
  /\ \A v, w \in d.versions : v.sid = w.sid /\ v.version = w.version => v = w

SecretsInv(d) == Identified(d) /\ Numbered(d)

EventsIn(events, n, actions) ==
  { i \in DOMAIN events : events[i].name = n /\ events[i].action \in actions }

\* The log counts the versions of each secret and ends with its deletion.
Explains(d) ==
  \A n \in Name :
    LET deletions == EventsIn(d.events, n, {"delete"}) IN
    /\ d.secrets[n].current = Cardinality(EventsIn(d.events, n, {"create", "update"}))
    /\ ~d.secrets[n].deleted => deletions = {}
    /\ d.secrets[n].deleted =>
         \E i \in DOMAIN d.events :
           deletions = {i} /\ \A j \in EventsIn(d.events, n, Op) : j <= i

\* The log holds the events of the calls that were answered as done, no other.
LoggedIsDone ==
  \A t \in Task :
    (\E i \in DOMAIN db.events : db.events[i].entry_hash = t)
      <=> pc[t] = "done" /\ answer[t].status = "ok"

\* What a verification holds is a record of the anchor, and the log has not
\* become shorter since it counted the rows.
SeenOf(t) ==
  /\ seen[t].events <= Len(db.events)
  /\ pc[t] = "tail" =>
       \E j \in 1 .. Len(anchor.lines) :
         /\ seen[t].line.event_id = anchor.lines[j].event_id
         /\ seen[t].line.entry_hash = anchor.lines[j].entry_hash

SeenThere == \A t \in Task : SeenOf(t)

\* What a verdict that was given speaks of is there.
VerdictOf(t) ==
  answer[t].status = "valid" =>
    \E k \in 0 .. Len(db.events) :
      /\ answer[t].value = IF k = 0 THEN None ELSE db.events[k].entry_hash
      /\ answer[t].n <= k
      /\ call[t].op = "verify_audit_checkpoint" => answer[t].n = k
      /\ k < Len(anchor.lines)
      /\ anchor.lines[k + 1].event_id = k
      /\ anchor.lines[k + 1].entry_hash = answer[t].value

VerdictsSound == \A t \in Task : VerdictOf(t)

DataInv ==
  /\ CallsPlaced
  /\ PendingEdit
  /\ SecretsInv(db)
  /\ Explains(db)
  /\ AcknowledgedKept
  /\ LoggedIsDone
  /\ SeenThere
  /\ VerdictsSound

VaultInv == Inv /\ DataInv

-----------------------------------------------------------------------------
(* The working copy *)

LEMMA ChangedFields ==
  ASSUME db \in Database, NEW seq \in Nat, NEW secrets \in [Name -> SecretRow],
         NEW versions \in SUBSET VersionRow
  PROVE  LET d == Changed(seq, secrets, versions)
         IN  /\ d = [ id |-> db.id, secret_seq |-> seq, audit_seq |-> db.audit_seq,
                      secrets |-> secrets, versions |-> versions,
                      events |-> db.events ]
             /\ d \in Database
             /\ d.id = db.id
             /\ d.secret_seq = seq
             /\ d.audit_seq = db.audit_seq
             /\ d.secrets = secrets
             /\ d.versions = versions
             /\ d.events = db.events
<1>1. ASSUME NEW d,
             d = [db EXCEPT !.secret_seq = seq, !.secrets = secrets, !.versions = versions]
      PROVE  d = [ id |-> db.id, secret_seq |-> seq, audit_seq |-> db.audit_seq,
                   secrets |-> secrets, versions |-> versions, events |-> db.events ]
  BY <1>1 DEF Database
<1>2. Changed(seq, secrets, versions)
        = [ id |-> db.id, secret_seq |-> seq, audit_seq |-> db.audit_seq,
            secrets |-> secrets, versions |-> versions, events |-> db.events ]
  BY <1>1 DEF Changed
<1> QED
  BY <1>2 DEF Database

\* What the call of a task asks for makes sense to its method.
LEMMA CallSound ==
  ASSUME NEW t \in Task, call[t] \in Calls
  PROVE  /\ call[t].op \in Op
         /\ call[t].op \in OnName => call[t].name \in Name
         /\ call[t].op = "rekey_all" => call[t].key \in Key
         /\ NameOf(t) \in Name \cup {None}
         /\ call[t] # NoCall
<1>1. call[t] \in Call /\ call[t].op \in Op
  BY CallsAssumption DEF Call
<1>2. "none" \notin Op /\ NoCall.op = "none"
  BY DEF Op, NoCall
<1> QED
  BY <1>1, <1>2, CallsAssumption DEF NameOf

\* Only the secrets and their versions change, and each method changes them
\* its own way.
LEMMA EditedFields ==
  ASSUME TypeOK, NEW t \in Task, call[t] \in Calls
  PROVE  LET d   == Edited(t)
             n   == call[t].name
             sid == db.secrets[n].sid
             cur == db.secrets[n].current
             new == db.secret_seq + 1
         IN  /\ d \in Database
             /\ d.id = db.id
             /\ d.audit_seq = db.audit_seq
             /\ d.events = db.events
             /\ call[t].op = "create" =>
                  /\ d.secret_seq = new
                  /\ d.secrets = [db.secrets EXCEPT ![n] = NewRow(new)]
                  /\ d.versions = WithVersion(t, new, n, 1)
             /\ call[t].op = "update" =>
                  /\ d.secret_seq = db.secret_seq
                  /\ d.secrets = [db.secrets EXCEPT ![n].current = cur + 1]
                  /\ d.versions = WithVersion(t, sid, n, cur + 1)
             /\ call[t].op = "delete" =>
                  /\ d.secret_seq = db.secret_seq
                  /\ d.secrets = [db.secrets EXCEPT ![n].deleted = TRUE]
                  /\ d.versions = db.versions
             /\ call[t].op = "rekey_all" =>
                  /\ d.secret_seq = db.secret_seq
                  /\ d.secrets = db.secrets
                  /\ d.versions = ResealedAll(call[t].key)
             /\ call[t].op \notin { "create", "update", "delete", "rekey_all" } =>
                  d = db
<1> DEFINE n   == call[t].name
           sid == db.secrets[n].sid
           cur == db.secrets[n].current
           new == db.secret_seq + 1
<1>1. /\ db \in Database
      /\ db.secrets \in [Name -> SecretRow]
      /\ db.versions \in SUBSET VersionRow
      /\ db.secret_seq \in Nat
      /\ ring.active \in Key
  BY DEF TypeOK, Database, Rings
<1>2. n \in Name => sid \in Nat /\ cur \in Nat
  BY <1>1 DEF SecretRow
<1>3. CASE call[t].op = "create"
  <2> DEFINE secrets  == [db.secrets EXCEPT ![n] = NewRow(new)]
             versions == WithVersion(t, new, n, 1)
  <2>1. n \in Name
    BY <1>3, CallSound DEF OnName
  <2>2. secrets \in [Name -> SecretRow] /\ versions \in SUBSET VersionRow
    BY <1>1, <2>1, SealType DEF NewRow, SecretRow, WithVersion
  <2>3. Edited(t) = Changed(new, secrets, versions) /\ new \in Nat
    BY <1>1, <1>3 DEF Edited
  <2> HIDE DEF secrets, versions, new
  <2>4. /\ Edited(t) \in Database /\ Edited(t).id = db.id
        /\ Edited(t).audit_seq = db.audit_seq /\ Edited(t).events = db.events
        /\ Edited(t).secret_seq = new
        /\ Edited(t).secrets = secrets /\ Edited(t).versions = versions
    BY <1>1, <2>2, <2>3, ChangedFields
  <2> QED
    BY <1>3, <2>4 DEF secrets, versions, new
<1>4. CASE call[t].op = "update"
  <2> DEFINE secrets  == [db.secrets EXCEPT ![n].current = cur + 1]
             versions == WithVersion(t, sid, n, cur + 1)
  <2>1. n \in Name
    BY <1>4, CallSound DEF OnName
  <2>2. secrets \in [Name -> SecretRow] /\ versions \in SUBSET VersionRow
    BY <1>1, <1>2, <2>1, SealType DEF SecretRow, WithVersion
  <2>3. Edited(t) = Changed(db.secret_seq, secrets, versions)
    BY <1>4 DEF Edited
  <2> HIDE DEF secrets, versions
  <2>4. /\ Edited(t) \in Database /\ Edited(t).id = db.id
        /\ Edited(t).audit_seq = db.audit_seq /\ Edited(t).events = db.events
        /\ Edited(t).secret_seq = db.secret_seq
        /\ Edited(t).secrets = secrets /\ Edited(t).versions = versions
    BY <1>1, <2>2, <2>3, ChangedFields
  <2> QED
    BY <1>4, <2>4 DEF secrets, versions
<1>5. CASE call[t].op = "delete"
  <2> DEFINE secrets == [db.secrets EXCEPT ![n].deleted = TRUE]
  <2>1. n \in Name
    BY <1>5, CallSound DEF OnName
  <2>2. secrets \in [Name -> SecretRow]
    BY <1>1, <2>1 DEF SecretRow
  <2>3. Edited(t) = Changed(db.secret_seq, secrets, db.versions)
    BY <1>5 DEF Edited
  <2> HIDE DEF secrets
  <2>4. /\ Edited(t) \in Database /\ Edited(t).id = db.id
        /\ Edited(t).audit_seq = db.audit_seq /\ Edited(t).events = db.events
        /\ Edited(t).secret_seq = db.secret_seq
        /\ Edited(t).secrets = secrets /\ Edited(t).versions = db.versions
    BY <1>1, <2>2, <2>3, ChangedFields
  <2> QED
    BY <1>5, <2>4 DEF secrets
<1>6. CASE call[t].op = "rekey_all"
  <2> DEFINE versions == ResealedAll(call[t].key)
  <2>1. call[t].key \in Key
    BY <1>6, CallSound
  <2>2. versions \in SUBSET VersionRow
    BY <1>1, <2>1 DEF ResealedAll, JoinedOld, Resealed, Seal, VersionRow, Context
  <2>3. Edited(t) = Changed(db.secret_seq, db.secrets, versions)
    BY <1>6 DEF Edited
  <2> HIDE DEF versions
  <2>4. /\ Edited(t) \in Database /\ Edited(t).id = db.id
        /\ Edited(t).audit_seq = db.audit_seq /\ Edited(t).events = db.events
        /\ Edited(t).secret_seq = db.secret_seq
        /\ Edited(t).secrets = db.secrets /\ Edited(t).versions = versions
    BY <1>1, <2>2, <2>3, ChangedFields
  <2> QED
    BY <1>6, <2>4 DEF versions
<1>7. CASE call[t].op \notin { "create", "update", "delete", "rekey_all" }
  BY <1>1, <1>7 DEF Edited
<1> QED
  BY <1>3, <1>4, <1>5, <1>6, <1>7

\* Row by row.
LEMMA EditedRow ==
  ASSUME TypeOK, NEW t \in Task, call[t] \in Calls, NEW m \in Name
  PROVE  LET old == db.secrets[m]
             new == Edited(t).secrets[m]
         IN  /\ old \in SecretRow
             /\ call[t].op = "create" /\ m = call[t].name =>
                  new = NewRow(db.secret_seq + 1)
             /\ call[t].op = "update" /\ m = call[t].name =>
                  new = [old EXCEPT !.current = old.current + 1]
             /\ call[t].op = "delete" /\ m = call[t].name =>
                  new = [old EXCEPT !.deleted = TRUE]
             /\ call[t].op \notin { "create", "update", "delete" } \/ m # call[t].name =>
                  new = old
<1> DEFINE n == call[t].name
<1>1. db.secrets \in [Name -> SecretRow] /\ db.secrets[m] \in SecretRow
  BY DEF TypeOK, Database
<1>2. CASE call[t].op = "create"
  <2>1. Edited(t).secrets = [db.secrets EXCEPT ![n] = NewRow(db.secret_seq + 1)]
    BY <1>2, EditedFields
  <2> QED
    BY <1>1, <1>2, <2>1
<1>3. CASE call[t].op = "update"
  <2>1. Edited(t).secrets = [db.secrets EXCEPT ![n].current = db.secrets[n].current + 1]
    BY <1>3, EditedFields
  <2> QED
    BY <1>1, <1>3, <2>1
<1>4. CASE call[t].op = "delete"
  <2>1. Edited(t).secrets = [db.secrets EXCEPT ![n].deleted = TRUE]
    BY <1>4, EditedFields
  <2> QED
    BY <1>1, <1>4, <2>1
<1>5. CASE call[t].op \notin { "create", "update", "delete" }
  <2>1. Edited(t).secrets = db.secrets
    <3>1. CASE call[t].op = "rekey_all"
      BY <3>1, EditedFields
    <3>2. CASE call[t].op # "rekey_all"
      BY <1>5, <3>2, EditedFields
    <3> QED
      BY <3>1, <3>2
  <2> QED
    BY <1>1, <1>5, <2>1
<1> QED
  BY <1>2, <1>3, <1>4, <1>5

-----------------------------------------------------------------------------
(* How a method ends *)

\* A refusal tells the truth about the database, or something failed.
Refusable(t, status) ==
  LET n == call[t].name
  IN  \/ /\ status = "not_found"
         /\ \/ call[t].op \in { "update", "delete", "list_versions" } /\ ~Live(db, n)
            \/ call[t].op = "get" /\ (~Live(db, n) \/ CurrentRows(db, n) = {})
      \/ /\ status = "conflict"
         /\ \/ call[t].op = "create" /\ db.secrets[n].sid # 0
            \/ /\ call[t].op \in { "update", "delete" }
               /\ Live(db, n)
               /\ ~VersionAgrees(n, call[t].expected)
      \/ status \in { "crypto", "error" }

Declines(t) == \E status : Refusable(t, status) /\ Rollback(t, status)

Prepares(t) ==
  /\ Permitted(t)
  /\ \E result : Returns(t, result) /\ answer' = [answer EXCEPT ![t] = result]
  /\ work' = WithEvent(Edited(t), t, NameOf(t))
  /\ pc' = [pc EXCEPT ![t] = "commit"]
  /\ UNCHANGED <<db, processVars, writer, call, seen>>

LEMMA AuditOutcome ==
  ASSUME NEW t \in Task, NEW result, Permitted(t), Returns(t, result),
         AppendAudit(t, Edited(t), NameOf(t), result)
  PROVE  Declines(t) \/ Prepares(t)
<1>1. \A status \in { "crypto", "error" } : Rollback(t, status) => Declines(t)
  BY DEF Declines, Refusable
<1>2. AppendRefusal(Edited(t)) \in { "none", "crypto", "error" }
  BY DEF AppendRefusal
<1>3. CASE /\ AppendRefusal(Edited(t)) # "none"
           /\ Reject(t, AppendRefusal(Edited(t)))
  BY <1>1, <1>2, <1>3 DEF Reject
<1>4. CASE \E status \in { "error", "crypto" } : Rollback(t, status)
  BY <1>1, <1>4
<1>5. CASE /\ work' = WithEvent(Edited(t), t, NameOf(t))
           /\ answer' = [answer EXCEPT ![t] = result]
           /\ pc' = [pc EXCEPT ![t] = "commit"]
           /\ UNCHANGED <<db, processVars, writer, call, seen>>
  BY <1>5 DEF Prepares
<1> QED
  BY <1>3, <1>4, <1>5 DEF AppendAudit

LEMMA ExecuteOutcome ==
  ASSUME TypeOK, NEW t \in Task, call[t] \in Calls, Execute(t)
  PROVE  Declines(t) \/ Prepares(t)
<1> DEFINE n == call[t].name
<1>1. /\ db \in Database
      /\ db.secrets \in [Name -> SecretRow]
      /\ db.versions \in SUBSET VersionRow
      /\ db.secret_seq \in Nat
  BY DEF TypeOK, Database
<1>2. \A status : Refusable(t, status) /\ Reject(t, status) => Declines(t)
  BY DEF Declines, Reject
<1>3. CASE Create(t)
  <2>1. call[t].op = "create" /\ n \in Name
    BY <1>3, CallSound DEF Create, Taken, Executing, OnName
  <2>2. NameOf(t) = n
    BY <2>1 DEF NameOf, OnName
  <2>3. CASE db.secrets[n].sid # 0 /\ Reject(t, "conflict")
    BY <1>2, <2>1, <2>3 DEF Refusable
  <2>4. CASE /\ db.secrets[n].sid = 0
             /\ AppendAudit(t, Edited(t), n, Result("ok", 1, None, {}))
    BY <2>1, <2>2, <2>4, AuditOutcome DEF Permitted, Returns
  <2>5. Edited(t) =
          [db EXCEPT !.secret_seq = db.secret_seq + 1,
                     !.secrets[n] = NewRow(db.secret_seq + 1),
                     !.versions = @ \cup {Seal(ring.active, t, db.secret_seq + 1, n, 1)}]
    BY <2>1 DEF Edited, Changed, WithVersion
  <2> QED
    BY <1>3, <2>3, <2>4, <2>5 DEF Create, Taken, NewRow
<1>4. CASE Update(t)
  <2>1. call[t].op = "update" /\ n \in Name
    BY <1>4, CallSound DEF Update, Executing, OnName
  <2>2. NameOf(t) = n
    BY <2>1 DEF NameOf, OnName
  <2>3. CASE ~Live(db, n) /\ Reject(t, "not_found")
    BY <1>2, <2>1, <2>3 DEF Refusable
  <2>4. CASE Live(db, n) /\ ~VersionAgrees(n, call[t].expected) /\ Reject(t, "conflict")
    BY <1>2, <2>1, <2>4 DEF Refusable
  <2>5. CASE /\ Live(db, n) /\ VersionAgrees(n, call[t].expected)
             /\ AppendAudit(t, Edited(t), n,
                            Result("ok", db.secrets[n].current + 1, None, {}))
    BY <2>1, <2>2, <2>5, AuditOutcome DEF Permitted, Returns
  <2> DEFINE ver == db.secrets[n].current + 1
             new == Seal(ring.active, t, db.secrets[n].sid, n, ver)
  <2>6. Edited(t) = [db EXCEPT !.secrets[n].current = ver, !.versions = @ \cup {new}]
    <3> DEFINE secrets  == [db.secrets EXCEPT ![n].current = ver]
               versions == db.versions \cup {new}
    <3>1. Edited(t) = [db EXCEPT !.secret_seq = db.secret_seq, !.secrets = secrets,
                                 !.versions = versions]
      BY <2>1 DEF Edited, Changed, WithVersion
    <3>2. ASSUME NEW d, d = [db EXCEPT !.secret_seq = db.secret_seq, !.secrets = secrets,
                                       !.versions = versions]
          PROVE  d = [db EXCEPT !.secrets = secrets, !.versions = versions]
      BY <1>1, <3>2 DEF Database
    <3> QED
      BY <3>1, <3>2
  <2> QED
    BY <1>4, <2>3, <2>4, <2>5, <2>6 DEF Update
<1>5. CASE Delete(t)
  <2>1. call[t].op = "delete" /\ n \in Name
    BY <1>5, CallSound DEF Delete, Executing, OnName
  <2>2. NameOf(t) = n
    BY <2>1 DEF NameOf, OnName
  <2>3. CASE ~Live(db, n) /\ Reject(t, "not_found")
    BY <1>2, <2>1, <2>3 DEF Refusable
  <2>4. CASE Live(db, n) /\ ~VersionAgrees(n, call[t].expected) /\ Reject(t, "conflict")
    BY <1>2, <2>1, <2>4 DEF Refusable
  <2>5. CASE /\ Live(db, n) /\ VersionAgrees(n, call[t].expected)
             /\ AppendAudit(t, Edited(t), n, Result("ok", db.secrets[n].current, None, {}))
    BY <2>1, <2>2, <2>5, AuditOutcome DEF Permitted, Returns
  <2>6. Edited(t) = [db EXCEPT !.secrets[n].deleted = TRUE]
    <3> DEFINE secrets == [db.secrets EXCEPT ![n].deleted = TRUE]
    <3>1. Edited(t) = [db EXCEPT !.secret_seq = db.secret_seq, !.secrets = secrets,
                                 !.versions = db.versions]
      BY <2>1 DEF Edited, Changed
    <3>2. ASSUME NEW d, d = [db EXCEPT !.secret_seq = db.secret_seq, !.secrets = secrets,
                                       !.versions = db.versions]
          PROVE  d = [db EXCEPT !.secrets = secrets]
      BY <1>1, <3>2 DEF Database
    <3> QED
      BY <3>1, <3>2
  <2> QED
    BY <1>5, <2>3, <2>4, <2>5, <2>6 DEF Delete
<1>6. CASE Get(t)
  <2>1. call[t].op = "get" /\ Edited(t) = db /\ NameOf(t) = n
    BY <1>6 DEF Get, Executing, Edited, NameOf, OnName
  <2>2. \/ (~Live(db, n) \/ CurrentRows(db, n) = {}) /\ Reject(t, "not_found")
        \/ Reject(t, "crypto")
        \/ \E v \in CurrentRows(db, n) :
             /\ Live(db, n)
             /\ AppendAudit(t, db, n, Result("ok", v.version, v.payload, {}))
    BY <1>6 DEF Get
  <2>3. ASSUME NEW v \in CurrentRows(db, n), Live(db, n),
               AppendAudit(t, db, n, Result("ok", v.version, v.payload, {}))
        PROVE  Declines(t) \/ Prepares(t)
    BY <2>1, <2>3, AuditOutcome DEF Permitted, Returns
  <2> QED
    BY <1>2, <2>1, <2>2, <2>3 DEF Refusable
<1>7. CASE ListMetadata(t)
  <2>1. call[t].op = "list_metadata" /\ Edited(t) = db /\ NameOf(t) = None
    BY <1>7 DEF ListMetadata, Executing, Edited, NameOf, OnName
  <2> QED
    BY <1>7, <2>1, AuditOutcome DEF ListMetadata, Permitted, Returns
<1>8. CASE ListVersions(t)
  <2>1. call[t].op = "list_versions" /\ Edited(t) = db /\ NameOf(t) = n
    BY <1>8 DEF ListVersions, Executing, Edited, NameOf, OnName
  <2>2. CASE ~Live(db, n) /\ Reject(t, "not_found")
    BY <1>2, <2>1, <2>2 DEF Refusable
  <2>3. CASE /\ Live(db, n)
             /\ AppendAudit(t, db, n,
                  Result("ok", 0, None, { <<n, v.version>> : v \in VersionsOf(db, n) }))
    BY <2>1, <2>3, AuditOutcome DEF Permitted, Returns
  <2> QED
    BY <1>8, <2>2, <2>3 DEF ListVersions
<1>9. CASE RekeyAll(t)
  <2>1. call[t].op = "rekey_all" /\ NameOf(t) = None
    BY <1>9 DEF RekeyAll, Executing, NameOf, OnName
  <2> DEFINE versions == ResealedAll(call[t].key)
  <2>2. Edited(t) = [db EXCEPT !.versions = versions]
    <3>1. Edited(t) = [db EXCEPT !.secret_seq = db.secret_seq, !.secrets = db.secrets,
                                 !.versions = versions]
      BY <2>1 DEF Edited, Changed
    <3>2. ASSUME NEW d, d = [db EXCEPT !.secret_seq = db.secret_seq,
                                       !.secrets = db.secrets, !.versions = versions]
          PROVE  d = [db EXCEPT !.versions = versions]
      BY <1>1, <3>2 DEF Database
    <3> QED
      BY <3>1, <3>2
  <2>3. \/ Reject(t, "crypto")
        \/ AppendAudit(t, Edited(t), None, Result("ok", 0, None, {}))
    BY <1>9, <2>2 DEF RekeyAll, ResealedAll
  <2>4. CASE AppendAudit(t, Edited(t), None, Result("ok", 0, None, {}))
    BY <2>1, <2>4, AuditOutcome DEF Permitted, Returns
  <2> QED
    BY <1>2, <2>3, <2>4 DEF Refusable
<1>10. CASE RecordSecurityEvent(t)
  <2>1. call[t].op = "record_security_event" /\ Edited(t) = db /\ NameOf(t) = None
    BY <1>10 DEF RecordSecurityEvent, Executing, Edited, NameOf, OnName
  <2> QED
    BY <1>10, <2>1, AuditOutcome DEF RecordSecurityEvent, Permitted, Returns
<1> QED
  BY <1>3, <1>4, <1>5, <1>6, <1>7, <1>8, <1>9, <1>10 DEF Execute

-----------------------------------------------------------------------------
(* The rows of the secrets *)

UnderKey(v, key) == [v EXCEPT !.key = key]

LEMMA UnderKeyFields ==
  ASSUME NEW v \in VersionRow, NEW key \in Key
  PROVE  LET w == UnderKey(v, key)
         IN  /\ w \in VersionRow
             /\ w.sid = v.sid /\ w.version = v.version /\ w.key = key
             /\ w.payload = v.payload /\ w.aad = v.aad
             /\ v.key = key => w = v
BY DEF UnderKey, VersionRow

\* The JOIN of rekey_all misses no version: all of them change their key, and
\* nothing else.
LEMMA AllResealed ==
  ASSUME TypeOK, SecretsInv(db), NEW key \in Key
  PROVE  ResealedAll(key) = { UnderKey(v, key) : v \in db.versions }
<1>1. /\ db.versions \in SUBSET VersionRow
      /\ db.secrets \in [Name -> SecretRow]
  BY DEF TypeOK, Database
<1>2. ASSUME NEW v \in db.versions, NEW n \in Name, Owns(db, n, v)
      PROVE  Resealed(<<v, n>>, key) = UnderKey(v, key)
  BY <1>1, <1>2 DEF Owns, Resealed, Seal, UnderKey, VersionRow
<1>3. ASSUME NEW v \in db.versions, v.key # key
      PROVE  \E n \in Name : <<v, n>> \in JoinedOld(key) /\ Owns(db, n, v)
  BY <1>3 DEF SecretsInv, Numbered, Owns, JoinedOld
<1>4. ASSUME NEW row \in JoinedOld(key)
      PROVE  /\ row[1] \in db.versions /\ row[1].key # key
             /\ Resealed(row, key) = UnderKey(row[1], key)
  <2>1. /\ row = <<row[1], row[2]>> /\ row[1] \in db.versions /\ row[2] \in Name
        /\ row[1].key # key /\ db.secrets[row[2]].sid = row[1].sid
    BY DEF JoinedOld
  <2>2. PICK n \in Name : Owns(db, n, row[1])
    BY <2>1 DEF SecretsInv, Numbered
  <2>3. n = row[2]
    BY <2>1, <2>2 DEF Owns, SecretsInv, Identified
  <2> QED
    BY <1>2, <2>1, <2>2, <2>3
<1>5. ASSUME NEW v \in db.versions
      PROVE  UnderKey(v, key) \in ResealedAll(key)
  <2>1. CASE v.key = key
    BY <1>1, <1>4, <2>1, UnderKeyFields DEF ResealedAll
  <2>2. CASE v.key # key
    BY <1>2, <1>3, <2>2 DEF ResealedAll
  <2> QED
    BY <2>1, <2>2
<1>6. ASSUME NEW w \in ResealedAll(key)
      PROVE  \E v \in db.versions : w = UnderKey(v, key)
  <2>1. CASE w \in db.versions \ { row[1] : row \in JoinedOld(key) }
    <3>1. ASSUME w.key # key PROVE FALSE
      <4>1. PICK n \in Name : <<w, n>> \in JoinedOld(key)
        BY <1>3, <2>1, <3>1
      <4>2. <<w, n>>[1] \in { row[1] : row \in JoinedOld(key) }
        BY <4>1
      <4> QED
        BY <2>1, <4>2
    <3> QED
      BY <1>1, <2>1, <3>1, UnderKeyFields
  <2>2. CASE w \in { Resealed(row, key) : row \in JoinedOld(key) }
    BY <1>4, <2>2
  <2> QED
    BY <2>1, <2>2 DEF ResealedAll
<1> QED
  BY <1>5, <1>6

\* What a method does to the versions: all that were there stay, under
\* whichever key, and a write adds the one it answers with.
LEMMA VersionsPersist ==
  ASSUME TypeOK, SecretsInv(db), NEW t \in Task, call[t] \in Calls, Permitted(t)
  PROVE  /\ \A n \in Name :
              db.secrets[n].sid # 0 => Edited(t).secrets[n].sid = db.secrets[n].sid
         /\ \A v \in db.versions : \E w \in Edited(t).versions :
              w.sid = v.sid /\ w.version = v.version /\ w.payload = v.payload
         /\ call[t].op \in { "create", "update" } =>
              LET n == call[t].name
              IN  \E w \in VersionsOf(Edited(t), n) :
                    w.version = Edited(t).secrets[n].current /\ w.payload = t
<1> DEFINE n == call[t].name
<1>1. /\ db.versions \in SUBSET VersionRow
      /\ db.secrets \in [Name -> SecretRow]
  BY DEF TypeOK, Database
<1>2. call[t].op \in OnName => n \in Name
  BY CallSound
<1>3. CASE call[t].op = "create"
  <2> DEFINE new == db.secret_seq + 1
             s   == Seal(ring.active, t, new, n, 1)
  <2>1. /\ Edited(t).secrets = [db.secrets EXCEPT ![n] = NewRow(new)]
        /\ Edited(t).versions = db.versions \cup {s}
        /\ n \in Name /\ db.secrets[n].sid = 0
    BY <1>2, <1>3, EditedFields DEF WithVersion, OnName, Permitted
  <2>2. /\ Edited(t).secrets[n].sid = new /\ Edited(t).secrets[n].current = 1
        /\ s.sid = new /\ s.version = 1 /\ s.payload = t
    BY <1>1, <2>1 DEF NewRow, Seal
  <2>3. \A m \in Name : m # n => Edited(t).secrets[m] = db.secrets[m]
    BY <1>1, <2>1
  <2> HIDE DEF s, new
  <2> QED
    BY <1>3, <2>1, <2>2, <2>3 DEF VersionsOf
<1>4. CASE call[t].op = "update"
  <2> DEFINE ver == db.secrets[n].current + 1
             s   == Seal(ring.active, t, db.secrets[n].sid, n, ver)
  <2>1. /\ Edited(t).secrets = [db.secrets EXCEPT ![n].current = ver]
        /\ Edited(t).versions = db.versions \cup {s}
        /\ n \in Name
    BY <1>2, <1>4, EditedFields DEF WithVersion, OnName
  <2>2. /\ Edited(t).secrets[n].sid = db.secrets[n].sid
        /\ Edited(t).secrets[n].current = ver
        /\ s.sid = db.secrets[n].sid /\ s.version = ver /\ s.payload = t
    BY <1>1, <2>1 DEF Seal, SecretRow
  <2>3. \A m \in Name : Edited(t).secrets[m].sid = db.secrets[m].sid
    BY <1>1, <2>1 DEF SecretRow
  <2> HIDE DEF s, ver
  <2> QED
    BY <1>4, <2>1, <2>2, <2>3 DEF VersionsOf
<1>5. CASE call[t].op = "delete"
  <2>1. /\ Edited(t).secrets = [db.secrets EXCEPT ![n].deleted = TRUE]
        /\ Edited(t).versions = db.versions
        /\ n \in Name
    BY <1>2, <1>5, EditedFields DEF OnName
  <2> QED
    BY <1>1, <1>5, <2>1 DEF SecretRow
<1>6. CASE call[t].op = "rekey_all"
  <2>1. call[t].key \in Key
    BY <1>6, CallSound
  <2>2. /\ Edited(t).secrets = db.secrets
        /\ Edited(t).versions = { UnderKey(v, call[t].key) : v \in db.versions }
    BY <1>6, <2>1, AllResealed, EditedFields
  <2> QED
    BY <1>1, <1>6, <2>1, <2>2, UnderKeyFields
<1>7. CASE call[t].op \notin { "create", "update", "delete", "rekey_all" }
  BY <1>7, EditedFields
<1> QED
  BY <1>3, <1>4, <1>5, <1>6, <1>7

LEMMA OwnsSame ==
  ASSUME NEW c, NEW d, NEW n, d.secrets[n].sid = c.secrets[n].sid,
         d.secrets[n].current = c.secrets[n].current
  PROVE  \A v : Owns(c, n, v) <=> Owns(d, n, v)
BY DEF Owns

LEMMA SameRows ==
  ASSUME NEW c, NEW d, SecretsInv(c), d.secret_seq = c.secret_seq,
         d.secrets = c.secrets, d.versions = c.versions
  PROVE  SecretsInv(d)
<1>1. \A n \in Name : \A v : Owns(c, n, v) <=> Owns(d, n, v)
  BY OwnsSame
<1>2. Identified(d)
  BY DEF SecretsInv, Identified
<1>3. Numbered(d)
  BY <1>1 DEF SecretsInv, Numbered
<1> QED
  BY <1>2, <1>3 DEF SecretsInv

\* No method breaks the history that the rows tell.
LEMMA EditKeepsSecrets ==
  ASSUME TypeOK, SecretsInv(db), NEW t \in Task, call[t] \in Calls, Permitted(t)
  PROVE  SecretsInv(Edited(t))
<1> DEFINE n == call[t].name
           d == Edited(t)
<1>1. /\ db.versions \in SUBSET VersionRow
      /\ db.secrets \in [Name -> SecretRow]
      /\ db.secret_seq \in Nat
      /\ \A m \in Name : db.secrets[m].sid \in Nat /\ db.secrets[m].current \in Nat
  <2>1. /\ db.versions \in SUBSET VersionRow
        /\ db.secrets \in [Name -> SecretRow]
        /\ db.secret_seq \in Nat
    BY DEF TypeOK, Database
  <2> QED
    BY <2>1 DEF SecretRow
<1>2. call[t].op \in OnName => n \in Name
  BY CallSound
<1>3. CASE call[t].op = "create"
  <2> DEFINE new == db.secret_seq + 1
             s   == Seal(ring.active, t, new, n, 1)
  <2>1. /\ d.secret_seq = new
        /\ d.secrets = [db.secrets EXCEPT ![n] = NewRow(new)]
        /\ d.versions = db.versions \cup {s}
        /\ n \in Name /\ db.secrets[n].sid = 0
    BY <1>2, <1>3, EditedFields DEF WithVersion, OnName, Permitted
  <2>2. /\ d.secrets[n].sid = new /\ d.secrets[n].current = 1 /\ ~d.secrets[n].deleted
        /\ s.sid = new /\ s.version = 1
        /\ s.aad = [ sid |-> new, name |-> n, version |-> 1 ]
        /\ new \in Nat /\ new > db.secret_seq
    BY <1>1, <2>1 DEF NewRow, Seal
  <2>3. \A m \in Name : m # n => d.secrets[m] = db.secrets[m]
    BY <1>1, <2>1
  <2>4. \A m \in Name : db.secrets[m].sid <= db.secret_seq
    BY DEF SecretsInv, Identified
  <2> HIDE DEF s, new, d
  <2>5. Identified(d)
    <3>1. \A m, o \in Name :
            d.secrets[m].sid # 0 /\ d.secrets[m].sid = d.secrets[o].sid => m = o
      BY <1>1, <2>1, <2>2, <2>3, <2>4 DEF SecretsInv, Identified
    <3>2. \A m \in Name :
            /\ d.secrets[m].sid <= d.secret_seq
            /\ d.secrets[m].sid = 0 => d.secrets[m].current = 0 /\ ~d.secrets[m].deleted
            /\ d.secrets[m].sid # 0 => d.secrets[m].current # 0
      <4> TAKE m \in Name
      <4>1. CASE m = n
        BY <1>1, <2>1, <2>2, <4>1
      <4>2. CASE m # n
        BY <1>1, <2>1, <2>2, <2>3, <4>2 DEF SecretsInv, Identified
      <4> QED
        BY <4>1, <4>2
    <3> QED
      BY <3>1, <3>2 DEF Identified
  <2>6. \A v \in db.versions : \E m \in Name : m # n /\ Owns(db, m, v) /\ Owns(d, m, v)
    <3> TAKE v \in db.versions
    <3>1. PICK m \in Name : Owns(db, m, v)
      BY DEF SecretsInv, Numbered
    <3>2. m # n
      BY <2>1, <3>1 DEF Owns
    <3>3. Owns(d, m, v)
      BY <2>3, <3>1, <3>2, OwnsSame
    <3> QED
      BY <3>1, <3>2, <3>3
  <2>7. Owns(d, n, s)
    <3>1. 1 \in 1 .. 1 /\ new # 0
      BY <1>1, <2>2
    <3> QED
      BY <2>2, <3>1 DEF Owns
  <2>8. \A v \in db.versions : v.sid # new
    <3> TAKE v \in db.versions
    <3>1. PICK m \in Name : Owns(db, m, v)
      BY DEF SecretsInv, Numbered
    <3>2. v.sid = db.secrets[m].sid /\ v.sid <= db.secret_seq /\ v.sid \in Nat
      BY <1>1, <2>4, <3>1 DEF Owns
    <3> QED
      BY <1>1, <2>2, <3>2
  <2>9. \A m \in Name : \A k \in 1 .. d.secrets[m].current :
          \E v \in d.versions : v.sid = d.secrets[m].sid /\ v.version = k
    <3> TAKE m \in Name
    <3>1. CASE m = n
      BY <2>1, <2>2, <3>1
    <3>2. CASE m # n
      BY <2>1, <2>3, <3>2 DEF SecretsInv, Numbered
    <3> QED
      BY <3>1, <3>2
  <2>10. \A v, w \in d.versions : v.sid = w.sid /\ v.version = w.version => v = w
    BY <2>1, <2>2, <2>8 DEF SecretsInv, Numbered
  <2> QED
    BY <2>1, <2>5, <2>6, <2>7, <2>9, <2>10 DEF SecretsInv, Numbered, d
<1>4. CASE call[t].op = "update"
  <2> DEFINE sid == db.secrets[n].sid
             cur == db.secrets[n].current
             ver == cur + 1
             s   == Seal(ring.active, t, sid, n, ver)
  <2>1. /\ d.secret_seq = db.secret_seq
        /\ d.secrets = [db.secrets EXCEPT ![n].current = ver]
        /\ d.versions = db.versions \cup {s}
        /\ n \in Name /\ sid # 0 /\ ~db.secrets[n].deleted
    BY <1>2, <1>4, EditedFields DEF WithVersion, OnName, Permitted, Live
  <2>2. /\ d.secrets[n].sid = sid /\ d.secrets[n].current = ver
        /\ d.secrets[n].deleted = db.secrets[n].deleted
        /\ s.sid = sid /\ s.version = ver
        /\ s.aad = [ sid |-> sid, name |-> n, version |-> ver ]
        /\ cur \in Nat /\ ver \in Nat
    BY <1>1, <2>1, SMTT(20) DEF Seal, SecretRow
  <2>3. \A m \in Name : m # n => d.secrets[m] = db.secrets[m]
    BY <1>1, <2>1
  <2>4. \A m \in Name : d.secrets[m].sid = db.secrets[m].sid
    BY <2>2, <2>3
  <2> HIDE DEF s, d
  <2>5. Identified(d)
    <3>1. \A m \in Name :
            /\ d.secrets[m].sid <= d.secret_seq
            /\ d.secrets[m].sid = 0 => d.secrets[m].current = 0 /\ ~d.secrets[m].deleted
            /\ d.secrets[m].sid # 0 => d.secrets[m].current # 0
      <4> TAKE m \in Name
      <4>1. CASE m = n
        <5>1. db.secrets[n].sid <= db.secret_seq
          BY <2>1 DEF SecretsInv, Identified
        <5>2. d.secrets[n].current # 0
          BY <2>2
        <5> QED
          BY <2>1, <2>2, <4>1, <5>1, <5>2
      <4>2. CASE m # n
        <5>1. /\ db.secrets[m].sid <= db.secret_seq
              /\ db.secrets[m].sid = 0 => db.secrets[m].current = 0 /\ ~db.secrets[m].deleted
              /\ db.secrets[m].sid # 0 => db.secrets[m].current # 0
          BY DEF SecretsInv, Identified
        <5>2. d.secrets[m] = db.secrets[m] /\ d.secret_seq = db.secret_seq
          BY <2>1, <2>3, <4>2
        <5> QED
          BY <5>1, <5>2
      <4> QED
        BY <4>1, <4>2
    <3> QED
      BY <2>4, <3>1 DEF SecretsInv, Identified
  <2>6. \A v \in db.versions : \E m \in Name : Owns(db, m, v) /\ Owns(d, m, v)
    <3> TAKE v \in db.versions
    <3>1. PICK m \in Name : Owns(db, m, v)
      BY DEF SecretsInv, Numbered
    <3>2. CASE m = n
      <4>1. v.version \in 1 .. cur
        BY <3>1, <3>2 DEF Owns
      <4>2. v.version \in 1 .. ver
        BY <2>2, <4>1
      <4> QED
        BY <2>2, <3>1, <3>2, <4>2 DEF Owns
    <3>3. CASE m # n
      BY <2>3, <3>1, <3>3 DEF Owns
    <3> QED
      BY <3>1, <3>2, <3>3
  <2>7. Owns(d, n, s)
    <3>1. ver \in 1 .. ver
      BY <2>2
    <3> QED
      BY <2>1, <2>2, <3>1 DEF Owns
  <2>8. \A v \in db.versions : ~(v.sid = sid /\ v.version = ver)
    <3>1. ASSUME NEW v \in db.versions, v.sid = sid, v.version = ver PROVE FALSE
      <4>1. PICK m \in Name : Owns(db, m, v)
        BY DEF SecretsInv, Numbered
      <4>2. m = n
        BY <2>1, <3>1, <4>1 DEF Owns, SecretsInv, Identified
      <4>3. ver \in 1 .. cur
        BY <3>1, <4>1, <4>2 DEF Owns
      <4> QED
        BY <2>2, <4>3
    <3> QED
      BY <3>1
  <2>9. \A m \in Name : \A k \in 1 .. d.secrets[m].current :
          \E v \in d.versions : v.sid = d.secrets[m].sid /\ v.version = k
    <3> TAKE m \in Name
    <3> TAKE k \in 1 .. d.secrets[m].current
    <3>1. CASE m = n /\ k = ver
      BY <2>1, <2>2, <3>1
    <3>2. CASE m # n \/ k # ver
      <4>1. k \in 1 .. db.secrets[m].current
        BY <2>2, <2>3, <3>2
      <4>2. \E v \in db.versions : v.sid = db.secrets[m].sid /\ v.version = k
        BY <4>1 DEF SecretsInv, Numbered
      <4> QED
        BY <2>1, <2>4, <4>2
    <3> QED
      BY <3>1, <3>2
  <2>10. \A v, w \in d.versions : v.sid = w.sid /\ v.version = w.version => v = w
    BY <2>1, <2>2, <2>8, SMTT(20) DEF SecretsInv, Numbered
  <2> QED
    BY <2>1, <2>5, <2>6, <2>7, <2>9, <2>10, SMTT(20) DEF SecretsInv, Numbered, d
<1>5. CASE call[t].op = "delete"
  <2>1. /\ d.secret_seq = db.secret_seq
        /\ d.secrets = [db.secrets EXCEPT ![n].deleted = TRUE]
        /\ d.versions = db.versions
        /\ n \in Name /\ db.secrets[n].sid # 0
    BY <1>2, <1>5, EditedFields DEF OnName, Permitted, Live
  <2>2. \A m \in Name : /\ d.secrets[m].sid = db.secrets[m].sid
                        /\ d.secrets[m].current = db.secrets[m].current
                        /\ db.secrets[m].sid = 0
                             => d.secrets[m].deleted = db.secrets[m].deleted
    <3> TAKE m \in Name
    <3>1. CASE m = n
      <4>1. d.secrets[m] = [db.secrets[n] EXCEPT !.deleted = TRUE]
        BY <1>1, <2>1, <3>1
      <4> QED
        BY <1>1, <2>1, <3>1, <4>1, ZenonT(40) DEF SecretRow
    <3>2. CASE m # n
      BY <1>1, <2>1, <3>2
    <3> QED
      BY <3>1, <3>2
  <2> HIDE DEF d
  <2>3. Identified(d)
    <3>1. Identified(db)
      BY DEF SecretsInv
    <3>2. \A m, o \in Name :
            d.secrets[m].sid # 0 /\ d.secrets[m].sid = d.secrets[o].sid => m = o
      BY <2>2, <3>1 DEF Identified
    <3>3. \A m \in Name :
            /\ d.secrets[m].sid <= d.secret_seq
            /\ d.secrets[m].sid = 0 => d.secrets[m].current = 0 /\ ~d.secrets[m].deleted
            /\ d.secrets[m].sid # 0 => d.secrets[m].current # 0
      BY <2>1, <2>2, <3>1 DEF Identified
    <3> QED
      BY <3>2, <3>3 DEF Identified
  <2>4. Numbered(d)
    <3>1. \A m \in Name : \A v : Owns(db, m, v) <=> Owns(d, m, v)
      BY <2>2, OwnsSame
    <3> QED
      BY <2>1, <2>2, <3>1 DEF SecretsInv, Numbered
  <2> QED
    BY <2>3, <2>4 DEF SecretsInv, d
<1>6. CASE call[t].op = "rekey_all"
  <2> DEFINE key == call[t].key
  <2>1. key \in Key
    BY <1>6, CallSound
  <2>2. /\ d.secret_seq = db.secret_seq
        /\ d.secrets = db.secrets
        /\ d.versions = { UnderKey(v, key) : v \in db.versions }
    BY <1>6, <2>1, AllResealed, EditedFields
  <2> HIDE DEF d, key
  <2>3. \A v \in db.versions : LET w == UnderKey(v, key)
                               IN  w.sid = v.sid /\ w.version = v.version /\ w.aad = v.aad
    BY <1>1, <2>1, UnderKeyFields
  <2>4. Identified(d)
    BY <2>2 DEF SecretsInv, Identified
  <2>5. \A v \in d.versions : \E m \in Name : Owns(d, m, v)
    <3> TAKE w \in d.versions
    <3>1. PICK v \in db.versions : w = UnderKey(v, key)
      BY <2>2
    <3>2. PICK m \in Name : Owns(db, m, v)
      BY DEF SecretsInv, Numbered
    <3>3. w.sid = v.sid /\ w.version = v.version /\ w.aad = v.aad
      BY <2>3, <3>1
    <3>4. Owns(d, m, w)
      BY <2>2, <3>2, <3>3 DEF Owns
    <3> QED
      BY <3>4
  <2>6. \A m \in Name : \A k \in 1 .. d.secrets[m].current :
          \E v \in d.versions : v.sid = d.secrets[m].sid /\ v.version = k
    BY <2>2, <2>3 DEF SecretsInv, Numbered
  <2>7. \A v, w \in d.versions : v.sid = w.sid /\ v.version = w.version => v = w
    BY <2>2, <2>3 DEF SecretsInv, Numbered
  <2> QED
    BY <2>4, <2>5, <2>6, <2>7 DEF SecretsInv, Numbered, d
<1>7. CASE call[t].op \notin { "create", "update", "delete", "rekey_all" }
  BY <1>7, EditedFields
<1> QED
  BY <1>3, <1>4, <1>5, <1>6, <1>7

-----------------------------------------------------------------------------
(* The log *)

LEMMA WithEventFields ==
  ASSUME NEW d \in Database, d.audit_seq = Len(d.events),
         \A i \in 1 .. Len(d.events) : d.events[i].id = i,
         NEW t \in Task, NEW name \in Name \cup {None}, call[t].op \in Op
  PROVE  LET w == WithEvent(d, t, name)
         IN  /\ w \in Database
             /\ w.id = d.id
             /\ w.secret_seq = d.secret_seq
             /\ w.secrets = d.secrets
             /\ w.versions = d.versions
             /\ \E e \in EventRow :
                  /\ w.events = Append(d.events, e)
                  /\ e.action = call[t].op
                  /\ e.name = name
                  /\ e.entry_hash = t
<1> DEFINE e == [ id |-> d.audit_seq + 1, action |-> call[t].op, name |-> name,
                  previous_hash |-> TailHash(d), entry_hash |-> t ]
           w == WithEvent(d, t, name)
<1>1. d.events \in Seq(EventRow) /\ Len(d.events) \in Nat
  BY DEF Database
<1>2. /\ e \in EventRow /\ e.action = call[t].op /\ e.name = name
      /\ e.entry_hash = t
  BY <1>1, TailOfLog DEF EventRow
<1>3. w = [ d EXCEPT !.audit_seq = @ + 1, !.events = Append(@, e) ]
  BY DEF WithEvent
<1> HIDE DEF e
<1>4. Append(d.events, e) \in Seq(EventRow)
  BY <1>1, <1>2
<1>5. w = [ id |-> d.id, secret_seq |-> d.secret_seq, audit_seq |-> d.audit_seq + 1,
            secrets |-> d.secrets, versions |-> d.versions,
            events |-> Append(d.events, e) ]
  BY <1>3 DEF Database
<1>6. w \in Database /\ d.audit_seq + 1 \in Nat
  BY <1>1, <1>4, <1>5 DEF Database
<1>7. /\ w.id = d.id /\ w.secret_seq = d.secret_seq /\ w.secrets = d.secrets
      /\ w.versions = d.versions /\ w.events = Append(d.events, e)
  BY <1>5
<1> HIDE DEF w
<1> QED
  BY <1>2, <1>6, <1>7 DEF w

\* What a call commits: its edit, and one event, its own.
LEMMA WhatIsCommitted ==
  ASSUME TypeOK, EventsNumbered, NEW t \in Task, call[t] \in Calls
  PROVE  LET w == WithEvent(Edited(t), t, NameOf(t))
         IN  /\ w \in Database
             /\ w.id = db.id
             /\ w.secret_seq = Edited(t).secret_seq
             /\ w.secrets = Edited(t).secrets
             /\ w.versions = Edited(t).versions
             /\ \E e \in EventRow :
                  /\ w.events = Append(db.events, e)
                  /\ e.action = call[t].op
                  /\ e.name = NameOf(t)
                  /\ e.entry_hash = t
<1> DEFINE d == Edited(t)
<1>1. /\ d \in Database /\ d.id = db.id /\ d.events = db.events
      /\ d.audit_seq = db.audit_seq
  BY EditedFields
<1>2. call[t].op \in Op /\ NameOf(t) \in Name \cup {None}
  BY CallSound
<1> HIDE DEF d
<1>3. d.audit_seq = Len(d.events) /\ \A i \in 1 .. Len(d.events) : d.events[i].id = i
  BY <1>1 DEF EventsNumbered
<1>4. LET w == WithEvent(d, t, NameOf(t))
      IN  /\ w \in Database
          /\ w.id = d.id
          /\ w.secret_seq = d.secret_seq
          /\ w.secrets = d.secrets
          /\ w.versions = d.versions
          /\ \E e \in EventRow :
               /\ w.events = Append(d.events, e)
               /\ e.action = call[t].op
               /\ e.name = NameOf(t)
               /\ e.entry_hash = t
  BY <1>1, <1>2, <1>3, WithEventFields
<1> QED
  BY <1>1, <1>4 DEF d

\* What the event e at the end of the log s adds to those on a name.
EventCounted(s, e, n, actions) ==
  LET old == EventsIn(s, n, actions)
      new == EventsIn(Append(s, e), n, actions)
  IN  /\ old \subseteq 1 .. Len(s)
      /\ IsFiniteSet(old)
      /\ e.name = n /\ e.action \in actions =>
           /\ new = old \cup {Len(s) + 1}
           /\ Cardinality(new) = Cardinality(old) + 1
      /\ ~(e.name = n /\ e.action \in actions) => new = old

LEMMA EventsAfter ==
  ASSUME NEW s \in Seq(EventRow), NEW e \in EventRow, NEW n, NEW actions
  PROVE  EventCounted(s, e, n, actions)
<1> DEFINE old == EventsIn(s, n, actions)
           new == EventsIn(Append(s, e), n, actions)
           k   == Len(s)
           x   == Append(s, e)
<1>1. /\ DOMAIN s = 1 .. k /\ DOMAIN x = 1 .. k + 1 /\ k \in Nat
      /\ x[k + 1] = e
      /\ \A i \in 1 .. k : x[i] = s[i]
  OBVIOUS
<1>2. old \subseteq 1 .. k
  BY <1>1 DEF EventsIn
<1>3. IsFiniteSet(old)
  <2>1. IsFiniteSet(1 .. k)
    BY <1>1, FS_Interval
  <2> QED
    BY <1>2, <2>1, FS_Subset
<1> HIDE DEF k, x
<1>4. new = { i \in 1 .. k + 1 : x[i].name = n /\ x[i].action \in actions }
  BY <1>1 DEF EventsIn, x
<1>5. old = { i \in 1 .. k : s[i].name = n /\ s[i].action \in actions }
  BY <1>1 DEF EventsIn
<1>6. \A i : i \in 1 .. k + 1 <=> i \in 1 .. k \/ i = k + 1
  BY <1>1
<1>7. e.name = n /\ e.action \in actions => new = old \cup {k + 1}
  BY <1>1, <1>4, <1>5, <1>6
<1>8. ~(e.name = n /\ e.action \in actions) => new = old
  BY <1>1, <1>4, <1>5, <1>6
<1>9. k + 1 \notin old
  BY <1>1, <1>2
<1> HIDE DEF old, new
<1>10. Cardinality(old \cup {k + 1}) = Cardinality(old) + 1
  BY <1>3, <1>9, FS_AddElement
<1> QED
  BY <1>2, <1>3, <1>7, <1>8, <1>10 DEF EventCounted, old, new, k

\* No method breaks what the log says of the secrets.
LEMMA CommitKeepsExplains ==
  ASSUME TypeOK, EventsNumbered, SecretsInv(db), Explains(db),
         NEW t \in Task, call[t] \in Calls, Permitted(t)
  PROVE  Explains(WithEvent(Edited(t), t, NameOf(t)))
<1> DEFINE n == call[t].name
           w == WithEvent(Edited(t), t, NameOf(t))
           k == Len(db.events)
<1>1. /\ db.events \in Seq(EventRow) /\ k \in Nat /\ DOMAIN db.events = 1 .. k
      /\ db.secrets \in [Name -> SecretRow]
      /\ \A m \in Name : db.secrets[m].current \in Nat
  <2>1. db.events \in Seq(EventRow) /\ db.secrets \in [Name -> SecretRow]
    BY DEF TypeOK, Database
  <2> QED
    BY <2>1 DEF SecretRow
<1>2. PICK e \in EventRow : /\ w.events = Append(db.events, e)
                            /\ e.action = call[t].op
                            /\ e.name = NameOf(t)
  BY WhatIsCommitted
<1>3. w.secrets = Edited(t).secrets
  BY WhatIsCommitted
<1> HIDE DEF w
<1>4. DOMAIN w.events = 1 .. k + 1
  BY <1>1, <1>2
<1>5. \A m, actions :
        LET old == EventsIn(db.events, m, actions)
            new == EventsIn(w.events, m, actions)
        IN  /\ old \subseteq 1 .. k
            /\ NameOf(t) = m /\ call[t].op \in actions =>
                 /\ new = old \cup {k + 1}
                 /\ Cardinality(new) = Cardinality(old) + 1
            /\ ~(NameOf(t) = m /\ call[t].op \in actions) => new = old
  <2> TAKE m, actions
  <2>1. EventCounted(db.events, e, m, actions)
    BY <1>1, EventsAfter
  <2> QED
    BY <1>2, <2>1 DEF EventCounted
<1>6. SUFFICES ASSUME NEW m \in Name
               PROVE  LET deletions == EventsIn(w.events, m, {"delete"}) IN
                      /\ w.secrets[m].current
                           = Cardinality(EventsIn(w.events, m, {"create", "update"}))
                      /\ ~w.secrets[m].deleted => deletions = {}
                      /\ w.secrets[m].deleted =>
                           \E i \in DOMAIN w.events :
                             /\ deletions = {i}
                             /\ \A j \in EventsIn(w.events, m, Op) : j <= i
  BY DEF Explains, w
<1> DEFINE deletions == EventsIn(db.events, m, {"delete"})
           writes    == EventsIn(db.events, m, {"create", "update"})
           mentions  == EventsIn(db.events, m, Op)
<1>7. /\ db.secrets[m].current = Cardinality(writes)
      /\ ~db.secrets[m].deleted => deletions = {}
      /\ db.secrets[m].deleted =>
           \E i \in 1 .. k : deletions = {i} /\ \A j \in mentions : j <= i
  BY <1>1 DEF Explains
<1>8. CASE NameOf(t) # m
  <2>1. w.secrets[m] = db.secrets[m]
    <3>1. call[t].op \in { "create", "update", "delete" } => n # m
      BY <1>8 DEF NameOf, OnName
    <3> QED
      BY <1>3, <3>1, EditedRow
  <2>2. \A actions : EventsIn(w.events, m, actions) = EventsIn(db.events, m, actions)
    BY <1>5, <1>8
  <2>3. \A i \in 1 .. k : i \in 1 .. k + 1
    BY <1>1
  <2> HIDE DEF deletions, writes, mentions
  <2> QED
    BY <1>4, <1>7, <2>1, <2>2, <2>3 DEF deletions, writes, mentions
<1>9. CASE NameOf(t) = m
  <2>1. call[t].op \in OnName /\ n = m
    BY <1>9, NoneAssumption DEF NameOf
  <2>2. ~db.secrets[m].deleted
    <3>1. db.secrets[m].sid = 0 => ~db.secrets[m].deleted
      BY DEF SecretsInv, Identified
    <3> QED
      BY <2>1, <3>1 DEF Permitted, Live, OnName
  <2>3. deletions = {} /\ db.secrets[m].current = Cardinality(writes)
    BY <1>7, <2>2
  <2>4. CASE call[t].op \in { "create", "update" }
    <3>1. /\ w.secrets[m].current = db.secrets[m].current + 1
          /\ ~w.secrets[m].deleted
      <4>1. CASE call[t].op = "create"
        <5>1. db.secrets[m].current = 0
          BY <2>1, <4>1 DEF Permitted, SecretsInv, Identified
        <5>2. Edited(t).secrets[m] = NewRow(db.secret_seq + 1)
          BY <2>1, <4>1, EditedRow
        <5> QED
          BY <1>3, <5>1, <5>2 DEF NewRow
      <4>2. CASE call[t].op = "update"
        <5>1. /\ Edited(t).secrets[m]
                   = [db.secrets[m] EXCEPT !.current = db.secrets[m].current + 1]
              /\ db.secrets[m] \in SecretRow
          BY <2>1, <4>2, EditedRow
        <5> QED
          BY <1>3, <2>2, <5>1 DEF SecretRow
      <4> QED
        BY <2>4, <4>1, <4>2
    <3>2. EventsIn(w.events, m, {"delete"}) = {}
      BY <1>5, <2>3, <2>4
    <3>3. Cardinality(EventsIn(w.events, m, {"create", "update"})) = Cardinality(writes) + 1
      BY <1>5, <1>9, <2>4
    <3> QED
      BY <2>3, <3>1, <3>2, <3>3
  <2>5. CASE call[t].op = "delete"
    <3>1. /\ w.secrets[m].current = db.secrets[m].current
          /\ w.secrets[m].deleted
      <4>1. /\ Edited(t).secrets[m] = [db.secrets[m] EXCEPT !.deleted = TRUE]
            /\ db.secrets[m] \in SecretRow
        BY <2>1, <2>5, EditedRow
      <4> QED
        BY <1>3, <4>1 DEF SecretRow
    <3>2. EventsIn(w.events, m, {"delete"}) = {k + 1}
      BY <1>5, <1>9, <2>3, <2>5
    <3>3. EventsIn(w.events, m, {"create", "update"}) = writes
      BY <1>5, <2>5
    <3>4. \A j \in EventsIn(w.events, m, Op) : j <= k + 1
      <4>1. EventsIn(w.events, m, Op) \subseteq DOMAIN w.events
        BY DEF EventsIn
      <4> QED
        BY <1>1, <1>4, <4>1
    <3>5. k + 1 \in DOMAIN w.events
      BY <1>1, <1>4
    <3> QED
      BY <2>3, <3>1, <3>2, <3>3, <3>4, <3>5
  <2>6. CASE call[t].op \in { "get", "list_versions" }
    <3>1. w.secrets[m] = db.secrets[m]
      BY <1>3, <2>6, EditedFields
    <3>2. /\ EventsIn(w.events, m, {"delete"}) = {}
          /\ EventsIn(w.events, m, {"create", "update"}) = writes
      BY <1>5, <2>3, <2>6
    <3> QED
      BY <2>2, <2>3, <3>1, <3>2
  <2> QED
    BY <2>1, <2>4, <2>5, <2>6 DEF OnName
<1> QED
  BY <1>8, <1>9

-----------------------------------------------------------------------------
(* What every step keeps *)

\* The records that the anchor has keep their place.
LinesKept ==
  /\ Len(anchor.lines) <= Len(anchor'.lines)
  /\ \A j \in 1 .. Len(anchor.lines) :
       /\ anchor'.lines[j].event_id = anchor.lines[j].event_id
       /\ anchor'.lines[j].entry_hash = anchor.lines[j].entry_hash

LEMMA AppendKeepsLines ==
  ASSUME TypeOK, NEW r \in Line, NEW e \in Extent, anchor' = Appended(anchor, r, e)
  PROVE  LinesKept
<1>1. anchor \in AnchorFile /\ Len(anchor.lines) \in Nat
  BY DEF TypeOK, AnchorFile
<1> DEFINE b == Appended(anchor, r, e)
<1>2. /\ Len(b.lines) = Len(anchor.lines) + 1
      /\ \A i \in 1 .. Len(anchor.lines) :
           /\ b.lines[i].event_id = anchor.lines[i].event_id
           /\ b.lines[i].entry_hash = anchor.lines[i].entry_hash
  BY <1>1, AppendedFile, SMTT(20)
<1> HIDE DEF b
<1>3. anchor' = b
  BY DEF b
<1> QED
  BY <1>1, <1>2, <1>3 DEF LinesKept

LEMMA AnchorSame == ASSUME TypeOK, UNCHANGED anchor PROVE LinesKept
<1>1. Len(anchor.lines) \in Nat
  BY DEF TypeOK, AnchorFile
<1> QED
  BY <1>1 DEF LinesKept

LEMMA AppendAuditKeepsLines ==
  ASSUME Inv, NEW t \in Task, NEW d \in Database,
         d.id = db.id, d.audit_seq = db.audit_seq, d.events = db.events,
         NEW name, NEW result, AppendAudit(t, d, name, result)
  PROVE  LinesKept
<1> DEFINE record == Record(d.id, TailId(d) + 1, t)
<1> USE DEF Inv
<1>1. CASE AppendRefusal(d) # "none" /\ Reject(t, AppendRefusal(d))
  BY <1>1, AnchorSame DEF Reject
<1>2. CASE /\ AppendRefusal(d) = "none"
           /\ \/ anchor' \in { Appended(anchor, record, e) : e \in Extent }
              \/ anchor' \in Remnants(anchor, record)
  <2>1. TailId(d) = TailId(db) /\ TailHash(d) = TailHash(db)
    BY DEF TailId, TailHash
  <2>2. Continuous(anchor, db)
    BY <1>2, <2>1 DEF AppendRefusal, Continuous
  <2>3. db.id \in DatabaseId /\ TailId(db) = Len(db.events)
    BY <2>2, ContinuousIsLevel
  <2>4. Len(db.events) \in Nat
    BY DEF TypeOK, Database
  <2>5. TailId(d) + 1 \in Nat
    BY <2>1, <2>3, <2>4
  <2>6. record \in Line
    BY <2>3, <2>5, RecordType
  <2> HIDE DEF record
  <2>7. anchor' = anchor \/ \E e \in Extent : anchor' = Appended(anchor, record, e)
    BY <1>2 DEF Remnants
  <2> QED
    BY <2>6, <2>7, AnchorSame, AppendKeepsLines
<1> QED
  BY <1>1, <1>2 DEF AppendAudit

\* No step takes a record away or changes what it says.
LEMMA AnchorGrows ==
  ASSUME Inv, [Next]_vars
  PROVE  LinesKept
<1> USE DEF Inv
<1>1. CASE Bootstrap
  <2>1. ASSUME phase = "opened", ~anchor.exists, db.events = << >>
        PROVE  Genesis \in Line /\ anchor.lines = << >>
    <3>1. db.id \in DatabaseId /\ anchor.lines = << >>
      BY <2>1 DEF JournalInv, JournalNumbered, TypeOK, Database
    <3> QED
      BY <3>1, RecordType DEF Genesis
  <2>2. CASE StartAnchor
    BY <2>1, <2>2, AppendKeepsLines DEF StartAnchor
  <2>3. CASE StartAnchorFails
    <3>1. CASE anchor' \in Remnants(anchor, Genesis)
      BY <2>1, <2>3, <3>1, AnchorSame, AppendKeepsLines DEF StartAnchorFails, Remnants
    <3>2. CASE anchor' = [exists |-> TRUE, lines |-> << >>]
      <4>1. anchor.lines = << >> /\ anchor'.lines = << >>
        BY <2>1, <2>3, <3>2 DEF StartAnchorFails
      <4> QED
        BY <4>1, EmptySeq DEF LinesKept
    <3> QED
      BY <2>3, <3>1, <3>2 DEF StartAnchorFails
  <2>4. CASE Open \/ KeepAnchor \/ Admit
    BY <2>4, AnchorSame DEF Open, KeepAnchor, Admit
  <2> QED
    BY <1>1, <2>2, <2>3, <2>4 DEF Bootstrap
<1>2. ASSUME NEW t \in Task, Execute(t)
      PROVE  LinesKept
  <2>1. CASE Refuses(t)
    BY <2>1, AnchorSame DEF Refuses, Reject
  <2>2. CASE Appends(t)
    BY <2>2, AppendAuditKeepsLines DEF Appends
  <2> QED
    BY <1>2, <2>1, <2>2, ExecuteShape
<1>3. ASSUME NEW t \in Task,
             \/ Arrive(t) \/ CheckTarget(t) \/ Begin(t) \/ Busy(t)
             \/ Commit(t) \/ CommitFails(t)
             \/ ReadRows(t) \/ ReadAnchor(t) \/ ReadTail(t)
      PROVE  LinesKept
  BY <1>3, AnchorSame
  DEF Arrive, CheckTarget, Begin, Busy, Commit, CommitFails, Reject, ReadRows,
      ReadAnchor, ReadTail, unread
<1>4. CASE Crash \/ UNCHANGED vars
  BY <1>4, AnchorSame DEF Crash, vars
<1> QED
  BY <1>1, <1>2, <1>3, <1>4 DEF Next, Step

\* A step that commits nothing leaves the rows and the log as they are.
SameData ==
  /\ db'.secret_seq = db.secret_seq
  /\ db'.secrets = db.secrets
  /\ db'.versions = db.versions
  /\ db'.events = db.events

EventsKept ==
  /\ Len(db.events) <= Len(db'.events)
  /\ \A i \in 1 .. Len(db.events) : db'.events[i] = db.events[i]

\* The call is done and was answered as such.
Settled(t) == pc[t] = "done" /\ answer[t].status = "ok"

LEMMA SameDataKept ==
  ASSUME TypeOK, SameData
  PROVE  EventsKept
<1>1. Len(db.events) \in Nat
  BY DEF TypeOK, Database
<1> QED
  BY <1>1 DEF SameData, EventsKept

LEMMA DataStays ==
  ASSUME VaultInv, SameData,
         \A t \in Task : Settled(t)' <=> Settled(t),
         \A t \in Task : Settled(t) => answer'[t] = answer[t] /\ call'[t] = call[t]
  PROVE  SecretsInv(db)' /\ Explains(db)' /\ AcknowledgedKept' /\ LoggedIsDone'
<1> USE DEF VaultInv, DataInv
<1>1. SecretsInv(db')
  BY SameRows DEF SameData
<1>2. Explains(db')
  BY DEF Explains, SameData
<1>3. AcknowledgedKept'
  BY DEF AcknowledgedKept, Settled, SameData, VersionsOf
<1>4. LoggedIsDone'
  BY DEF LoggedIsDone, Settled, SameData
<1> QED
  BY <1>1, <1>2, <1>3, <1>4

\* A verdict is kept with what it speaks of.
LEMMA VerdictsStay ==
  ASSUME VaultInv, TypeOK', LinesKept, EventsKept, NEW t \in Task,
         answer'[t].status = "valid" => answer'[t] = answer[t] /\ call'[t] = call[t]
  PROVE  VerdictOf(t)'
<1>0. SUFFICES ASSUME answer'[t].status = "valid"
               PROVE  VerdictOf(t)'
  BY DEF VerdictOf
<1>1. PICK k \in 0 .. Len(db.events) :
        /\ answer[t].value = IF k = 0 THEN None ELSE db.events[k].entry_hash
        /\ answer[t].n <= k
        /\ call[t].op = "verify_audit_checkpoint" => answer[t].n = k
        /\ k < Len(anchor.lines)
        /\ anchor.lines[k + 1].event_id = k
        /\ anchor.lines[k + 1].entry_hash = answer[t].value
  BY <1>0 DEF VaultInv, DataInv, VerdictsSound, VerdictOf
<1>2. Len(db.events) \in Nat /\ Len(anchor.lines) \in Nat
  BY DEF VaultInv, Inv, TypeOK, Database, AnchorFile
<1>3. k \in 0 .. Len(db'.events) /\ k < Len(anchor'.lines)
  <2>1. Len(db'.events) \in Nat /\ Len(anchor'.lines) \in Nat
    BY DEF TypeOK, Database, AnchorFile
  <2> QED
    BY <1>1, <1>2, <2>1 DEF EventsKept, LinesKept
<1>4. k # 0 => db'.events[k] = db.events[k]
  BY <1>1, <1>2 DEF EventsKept
<1>5. /\ anchor'.lines[k + 1].event_id = anchor.lines[k + 1].event_id
      /\ anchor'.lines[k + 1].entry_hash = anchor.lines[k + 1].entry_hash
  BY <1>1, <1>2 DEF LinesKept
<1> QED
  BY <1>0, <1>1, <1>3, <1>4, <1>5 DEF VerdictOf

LEMMA SeenStays ==
  ASSUME VaultInv, TypeOK', LinesKept, EventsKept, NEW t \in Task,
         seen'[t] = seen[t], pc'[t] = "tail" => pc[t] = "tail"
  PROVE  SeenOf(t)'
<1>1. /\ Len(db.events) \in Nat /\ Len(anchor.lines) \in Nat
      /\ Len(db'.events) \in Nat /\ Len(anchor'.lines) \in Nat
      /\ seen[t].events \in Nat
  <2>1. seen[t] \in Seen
    BY DEF VaultInv, Inv, TypeOK
  <2>2. seen[t].events \in Nat
    BY <2>1 DEF Seen
  <2> QED
    BY <2>2, SMTT(20) DEF VaultInv, Inv, TypeOK, Database, AnchorFile
<1>2. /\ seen[t].events <= Len(db.events)
      /\ pc[t] = "tail" =>
           \E j \in 1 .. Len(anchor.lines) :
             /\ seen[t].line.event_id = anchor.lines[j].event_id
             /\ seen[t].line.entry_hash = anchor.lines[j].entry_hash
  BY DEF VaultInv, DataInv, SeenThere, SeenOf
<1>3. seen'[t].events <= Len(db'.events)
  BY <1>1, <1>2 DEF EventsKept
<1>4. ASSUME NEW j \in 1 .. Len(anchor.lines)
      PROVE  /\ j \in 1 .. Len(anchor'.lines)
             /\ anchor'.lines[j].event_id = anchor.lines[j].event_id
             /\ anchor'.lines[j].entry_hash = anchor.lines[j].entry_hash
  BY <1>1, <1>4 DEF LinesKept
<1> QED
  BY <1>2, <1>3, <1>4 DEF SeenOf

-----------------------------------------------------------------------------
(* One task moves *)

\* What a method prepared depends on nothing but the database, the ring and
\* its call.
LEMMA SameEdit ==
  ASSUME NEW t \in Task, UNCHANGED <<db, ring>>, call'[t] = call[t]
  PROVE  /\ Permitted(t)' <=> Permitted(t)
         /\ \A result : Returns(t, result)' <=> Returns(t, result)
         /\ WithEvent(Edited(t), t, NameOf(t))' = WithEvent(Edited(t), t, NameOf(t))
<1>1. Permitted(t)' <=> Permitted(t)
  BY DEF Permitted, Live, VersionAgrees
<1>2. \A result : Returns(t, result)' <=> Returns(t, result)
  BY DEF Returns, CurrentRows, VersionsOf, Live
<1>3. Edited(t)' = Edited(t)
  BY DEF Edited, Changed, WithVersion, ResealedAll, JoinedOld
<1>4. NameOf(t)' = NameOf(t)
  BY DEF NameOf
<1>5. WithEvent(Edited(t), t, NameOf(t))' = WithEvent(Edited(t), t, NameOf(t))
  BY <1>3, <1>4 DEF WithEvent, TailHash
<1> QED
  BY <1>1, <1>2, <1>5

LEMMA PendingStays ==
  ASSUME NEW t \in Task, UNCHANGED <<db, ring, work>>, call'[t] = call[t],
         answer'[t] = answer[t], PendingOf(t)
  PROVE  PendingOf(t)'
BY SameEdit DEF PendingOf

\* A step of the task t that commits nothing.
Moves(t) ==
  /\ UNCHANGED <<db, ring, phase>>
  /\ work' = work \/ pc[t] \in { "execute", "commit" }
  /\ \A u \in Task : u # t =>
       pc'[u] = pc[u] /\ call'[u] = call[u] /\ seen'[u] = seen[u] /\ answer'[u] = answer[u]

LEMMA MoveKeeps ==
  ASSUME VaultInv, Inv', LinesKept, NEW t \in Task, Moves(t),
         ~Settled(t), ~Settled(t)', Placed(t)',
         pc'[t] = "commit" => PendingOf(t)',
         SeenOf(t)', VerdictOf(t)'
  PROVE  DataInv'
<1>1. SameData /\ EventsKept
  BY SameDataKept DEF Moves, SameData, VaultInv, Inv
<1>2. \A u \in Task : Placed(u)'
  <2> TAKE u \in Task
  <2>1. CASE u = t
    BY <2>1
  <2>2. CASE u # t
    BY <2>2 DEF Moves, VaultInv, DataInv, CallsPlaced, Placed
  <2> QED
    BY <2>1, <2>2
<1>3. \A u \in Task : pc'[u] = "commit" => PendingOf(u)'
  <2> SUFFICES ASSUME NEW u \in Task, pc'[u] = "commit" PROVE PendingOf(u)'
    OBVIOUS
  <2>1. CASE u = t
    BY <2>1
  <2>2. CASE u # t
    <3>1. /\ pc[u] = "commit" /\ call'[u] = call[u] /\ answer'[u] = answer[u]
          /\ PendingOf(u)
      BY <2>2 DEF Moves, VaultInv, DataInv, PendingEdit
    <3>2. pc[t] \notin { "execute", "commit" }
      BY <2>2, <3>1 DEF VaultInv, Inv, LockHeld
    <3> QED
      BY <3>1, <3>2, PendingStays DEF Moves
  <2> QED
    BY <2>1, <2>2
<1>4. \A u \in Task : u # t => (Settled(u)' <=> Settled(u))
  BY DEF Moves, Settled
<1>5. \A u \in Task : Settled(u)' <=> Settled(u)
  BY <1>4
<1>6. \A u \in Task : Settled(u) => answer'[u] = answer[u] /\ call'[u] = call[u]
  BY DEF Moves
<1>7. SecretsInv(db)' /\ Explains(db)' /\ AcknowledgedKept' /\ LoggedIsDone'
  BY <1>1, <1>5, <1>6, DataStays
<1>8. \A u \in Task : SeenOf(u)'
  <2> TAKE u \in Task
  <2>1. CASE u = t
    BY <2>1
  <2>2. CASE u # t
    BY <1>1, <2>2, SeenStays DEF Moves, Inv
  <2> QED
    BY <2>1, <2>2
<1>9. \A u \in Task : VerdictOf(u)'
  <2> TAKE u \in Task
  <2>1. CASE u = t
    BY <2>1
  <2>2. CASE u # t
    BY <1>1, <2>2, VerdictsStay DEF Moves, Inv
  <2> QED
    BY <2>1, <2>2
<1> QED
  BY <1>2, <1>3, <1>7, <1>8, <1>9
  DEF DataInv, CallsPlaced, PendingEdit, SeenThere, VerdictsSound

\* The same of a task that is not verifying.
LEMMA PlainMoveKeeps ==
  ASSUME VaultInv, Inv', LinesKept, NEW t \in Task, Moves(t),
         ~Settled(t), ~Settled(t)', Placed(t)',
         pc'[t] = "commit" => PendingOf(t)',
         seen'[t] = seen[t], pc'[t] # "tail", answer'[t].status # "valid"
  PROVE  DataInv'
<1>1. EventsKept
  BY SameDataKept DEF Moves, SameData, VaultInv, Inv
<1>2. SeenOf(t)'
  BY <1>1, SeenStays DEF Inv
<1>3. VerdictOf(t)'
  BY DEF VerdictOf
<1> QED
  BY <1>2, <1>3, MoveKeeps

LEMMA CallStep ==
  ASSUME VaultInv, Inv', LinesKept, NEW t \in Task,
         Arrive(t) \/ CheckTarget(t) \/ Begin(t) \/ Busy(t)
  PROVE  DataInv'
<1>1. /\ pc \in [Task -> Stage] /\ answer \in [Task -> Answer]
      /\ call \in [Task -> Calls \cup {NoCall}]
  BY DEF VaultInv, Inv, TypeOK
<1>2. Placed(t)
  BY DEF VaultInv, DataInv, CallsPlaced
<1>3. CASE Arrive(t)
  <2>1. PICK c \in Calls : /\ call' = [call EXCEPT ![t] = c]
                           /\ pc' = [pc EXCEPT ![t] = FirstStage(c.op)]
    BY <1>3 DEF Arrive
  <2>2. /\ pc[t] = "idle" /\ phase = "serving"
        /\ UNCHANGED <<db, phase, ring, work, seen, answer>>
    BY <1>3 DEF Arrive, processVars
  <2>3. /\ Moves(t) /\ call'[t] = c /\ pc'[t] = FirstStage(c.op)
        /\ answer'[t] = NoAnswer /\ seen'[t] = seen[t]
    BY <1>1, <1>2, <2>1, <2>2 DEF Moves, Placed
  <2>4. Placed(t)'
    BY <2>2, <2>3 DEF Placed, FirstStage, Verification
  <2>5. ~Settled(t) /\ ~Settled(t)' /\ pc'[t] \notin { "commit", "tail" }
    BY <2>2, <2>3 DEF Settled, FirstStage
  <2>6. answer'[t].status # "valid"
    BY <2>3 DEF NoAnswer, Result
  <2> QED
    BY <2>3, <2>4, <2>5, <2>6, PlainMoveKeeps
<1>4. CASE CheckTarget(t) \/ Busy(t) \/ Begin(t)
  <2>1. /\ pc[t] \in { "target", "begin" }
        /\ UNCHANGED <<db, phase, ring, work, call, seen>>
    BY <1>4 DEF CheckTarget, Busy, Begin, processVars
  <2>2. \/ /\ pc[t] = "target" /\ call[t].key = ring.active
           /\ pc' = [pc EXCEPT ![t] = "begin"] /\ answer' = answer
        \/ /\ pc[t] = "begin"
           /\ pc' = [pc EXCEPT ![t] = "execute"] /\ answer' = answer
        \/ \E status \in { "not_found", "conflict", "error" } :
             Finish(t, Result(status, 0, None, {}))
    BY <1>4 DEF CheckTarget, Busy, Begin
  <2>3. Moves(t) /\ seen'[t] = seen[t] /\ call'[t] = call[t]
    BY <1>1, <2>1, <2>2 DEF Moves, Finish
  <2>4. /\ pc'[t] \in { "begin", "execute" } => answer'[t] = NoAnswer
        /\ pc'[t] \in { "begin", "execute", "done" }
        /\ answer'[t].status \notin { "ok", "valid" }
    BY <1>1, <1>2, <2>1, <2>2 DEF Placed, Finish, NoAnswer, Result
  <2>5. Placed(t)'
    BY <1>1, <1>2, <2>1, <2>2, <2>3, <2>4 DEF Placed, Finish, Verification, Waiting
  <2>6. ~Settled(t) /\ ~Settled(t)'
    BY <2>1, <2>4 DEF Settled
  <2> QED
    BY <2>3, <2>4, <2>5, <2>6, PlainMoveKeeps
<1> QED
  BY <1>3, <1>4

\* A transaction that ends without a commit.
LEMMA RollbackKeeps ==
  ASSUME VaultInv, Inv', LinesKept, NEW t \in Task, pc[t] \in { "execute", "commit" },
         NEW status, status \notin { "ok", "valid" }, Rollback(t, status)
  PROVE  DataInv'
<1>1. pc \in [Task -> Stage] /\ answer \in [Task -> Answer] /\ Placed(t)
  BY DEF VaultInv, Inv, TypeOK, DataInv, CallsPlaced
<1>2. /\ pc' = [pc EXCEPT ![t] = "done"]
      /\ answer' = [answer EXCEPT ![t] = Result(status, 0, None, {})]
      /\ UNCHANGED <<db, phase, ring, call, seen>>
  BY DEF Rollback, Finish, processVars
<1>3. /\ Moves(t) /\ pc'[t] = "done" /\ seen'[t] = seen[t]
      /\ answer'[t].status \notin { "ok", "valid" }
  BY <1>1, <1>2 DEF Moves, Result
<1>4. Placed(t)'
  BY <1>1, <1>2, <1>3 DEF Placed, Waiting
<1>5. ~Settled(t) /\ ~Settled(t)'
  BY <1>3 DEF Settled
<1> QED
  BY <1>3, <1>4, <1>5, PlainMoveKeeps

LEMMA ExecuteKeeps ==
  ASSUME VaultInv, Inv', LinesKept, NEW t \in Task, Execute(t)
  PROVE  DataInv'
<1>1. /\ pc \in [Task -> Stage] /\ answer \in [Task -> Answer] /\ Placed(t)
      /\ TypeOK
  BY DEF VaultInv, Inv, TypeOK, DataInv, CallsPlaced
<1>2. pc[t] = "execute" /\ call[t] \in Calls
  BY <1>1, ExecuteStage DEF Placed
<1>3. CASE Declines(t)
  <2>1. PICK status : Refusable(t, status) /\ Rollback(t, status)
    BY <1>3 DEF Declines
  <2>2. status \notin { "ok", "valid" }
    BY <2>1 DEF Refusable
  <2> QED
    BY <1>2, <2>1, <2>2, RollbackKeeps
<1>4. CASE Prepares(t)
  <2>1. PICK result : Returns(t, result) /\ answer' = [answer EXCEPT ![t] = result]
    BY <1>4 DEF Prepares
  <2>2. /\ Permitted(t)
        /\ work' = WithEvent(Edited(t), t, NameOf(t))
        /\ pc' = [pc EXCEPT ![t] = "commit"]
        /\ UNCHANGED <<db, phase, ring, call, seen>>
    BY <1>4 DEF Prepares, processVars
  <2>3. /\ Moves(t) /\ pc'[t] = "commit" /\ seen'[t] = seen[t]
        /\ answer'[t] = result /\ call'[t] = call[t]
    BY <1>1, <1>2, <2>1, <2>2 DEF Moves
  <2>4. PendingOf(t)'
    BY <2>1, <2>2, <2>3, SameEdit DEF PendingOf
  <2>5. Placed(t)'
    BY <1>1, <1>2, <2>2, <2>3 DEF Placed, Waiting
  <2>6. ~Settled(t) /\ ~Settled(t)'
    BY <1>2, <2>3 DEF Settled
  <2>7. result.status = "ok"
    BY <2>1 DEF Returns, Result
  <2> QED
    BY <2>3, <2>4, <2>5, <2>6, <2>7, PlainMoveKeeps
<1> QED
  BY <1>1, <1>2, <1>3, <1>4, ExecuteOutcome

LEMMA CommitFailsKeeps ==
  ASSUME VaultInv, Inv', LinesKept, NEW t \in Task, CommitFails(t)
  PROVE  DataInv'
BY RollbackKeeps DEF CommitFails, Reject

LEMMA ReadKeeps ==
  ASSUME VaultInv, Inv', LinesKept, NEW t \in Task, ReadRows(t) \/ ReadAnchor(t)
  PROVE  DataInv'
<1>1. /\ pc \in [Task -> Stage] /\ answer \in [Task -> Answer]
      /\ seen \in [Task -> Seen] /\ anchor \in AnchorFile
      /\ Placed(t) /\ SeenOf(t)
      /\ Len(db.events) \in Nat
  BY DEF VaultInv, Inv, TypeOK, Database, DataInv, CallsPlaced, SeenThere
<1>2. UNCHANGED <<db, anchor, phase, ring, work, call>>
  BY DEF ReadRows, ReadAnchor, unread, processVars
<1>3. /\ pc[t] \in { "rows", "anchor" }
      /\ pc'[t] \in { "anchor", "tail", "done" }
      /\ pc'[t] = "anchor" => pc[t] = "rows"
      /\ pc'[t] # "done" => answer'[t] = NoAnswer
      /\ answer'[t].status \notin { "ok", "valid" }
      /\ Moves(t)
  <2>1. pc[t] \in { "rows", "anchor" } /\ answer[t] = NoAnswer
    BY <1>1 DEF ReadRows, ReadAnchor, Placed
  <2>2. \/ /\ pc' = [pc EXCEPT ![t] = IF pc[t] = "rows" THEN "anchor" ELSE "tail"]
           /\ answer' = answer
        \/ \E n : Finish(t, Result("invalid", n, None, {}))
    BY <2>1 DEF ReadRows, ReadAnchor
  <2>3. \A u \in Task : u # t => seen'[u] = seen[u]
    BY <1>1 DEF ReadRows, ReadAnchor
  <2>4. NoAnswer.status \notin { "ok", "valid" }
    BY DEF NoAnswer, Result
  <2>5. CASE \E n : Finish(t, Result("invalid", n, None, {}))
    BY <1>1, <1>2, <2>1, <2>3, <2>5 DEF Finish, Result, Moves
  <2> QED
    BY <1>1, <1>2, <2>1, <2>2, <2>3, <2>4, <2>5 DEF Moves
<1>4. Placed(t)'
  BY <1>1, <1>2, <1>3 DEF Placed, Verification, Waiting
<1>5. SeenOf(t)'
  <2>1. CASE ReadRows(t)
    <3>1. seen'[t].events = Len(db.events) /\ pc'[t] # "tail"
      BY <1>1, <2>1 DEF ReadRows, Finish, Seen
    <3> QED
      BY <1>1, <1>2, <3>1 DEF SeenOf
  <2>2. CASE ReadAnchor(t) /\ Readable(anchor)
    <3>1. seen' = [seen EXCEPT ![t].line = LastLine(anchor)]
      BY <2>2 DEF ReadAnchor
    <3>2. seen'[t].events = seen[t].events /\ seen'[t].line = LastLine(anchor)
      BY <1>1, <3>1 DEF Seen
    <3>3. anchor.lines \in Seq(Line) /\ anchor.lines # << >>
      BY <1>1, <2>2 DEF AnchorFile, Readable
    <3>4. Len(anchor.lines) \in 1 .. Len(anchor.lines)
      BY <3>3
    <3> QED
      BY <1>1, <1>2, <3>2, <3>4 DEF SeenOf, LastLine
  <2>3. CASE ReadAnchor(t) /\ ~Readable(anchor)
    <3>1. seen'[t].events = 0 /\ pc'[t] # "tail"
      BY <1>1, <2>3 DEF ReadAnchor, Finish, NothingSeen
    <3> QED
      BY <1>1, <1>2, <3>1 DEF SeenOf
  <2> QED
    BY <2>1, <2>2, <2>3
<1>6. ~Settled(t) /\ ~Settled(t)' /\ VerdictOf(t)'
  BY <1>3 DEF Settled, VerdictOf
<1> QED
  BY <1>3, <1>4, <1>5, <1>6, MoveKeeps

\* A verification that succeeds saw, last of all, the end of the log; the
\* record it holds is the one of that event.
LEMMA ReadTailKeeps ==
  ASSUME VaultInv, Inv', LinesKept, NEW t \in Task, ReadTail(t)
  PROVE  DataInv'
<1> DEFINE k == Len(db.events)
<1>1. /\ pc \in [Task -> Stage] /\ answer \in [Task -> Answer]
      /\ seen \in [Task -> Seen] /\ Placed(t) /\ SeenOf(t)
      /\ db.events \in Seq(EventRow) /\ k \in Nat
      /\ anchor.lines \in Seq(Line) /\ Len(anchor.lines) \in Nat
  BY DEF VaultInv, Inv, TypeOK, Database, AnchorFile, DataInv, CallsPlaced, SeenThere
<1>2. /\ pc[t] = "tail"
      /\ UNCHANGED <<db, anchor, phase, ring, work, call>>
      /\ pc'[t] = "done" /\ seen'[t] = NothingSeen
      /\ answer'[t] = Result(IF Matches(seen[t].line, db) THEN "valid" ELSE "invalid",
                             Reported(t), TailHash(db), {})
      /\ Moves(t)
  BY <1>1 DEF ReadTail, Finish, unread, processVars, Moves
<1>3. /\ answer'[t].status = IF Matches(seen[t].line, db) THEN "valid" ELSE "invalid"
      /\ answer'[t].n = Reported(t)
      /\ answer'[t].value = TailHash(db)
  BY <1>2 DEF Result
<1>4. Placed(t)'
  BY <1>1, <1>2 DEF Placed, Waiting
<1>5. SeenOf(t)'
  BY <1>1, <1>2 DEF SeenOf, NothingSeen
<1>6. ~Settled(t) /\ ~Settled(t)'
  BY <1>2, <1>3 DEF Settled
<1>7. TailId(db) = k /\ TailHash(db) = IF k = 0 THEN None ELSE db.events[k].entry_hash
  <2>1. TailId(db) = k
    BY TailOfLog DEF VaultInv, Inv, TypeOK, JournalInv, EventsNumbered
  <2>2. db.events = << >> <=> k = 0
    BY <1>1, EmptySeq
  <2> QED
    BY <2>1, <2>2 DEF TailHash
<1>8. VerdictOf(t)'
  <2> SUFFICES ASSUME Matches(seen[t].line, db)
               PROVE  VerdictOf(t)'
    BY <1>3 DEF VerdictOf
  <2>1. PICK j \in 1 .. Len(anchor.lines) :
          /\ seen[t].line.event_id = anchor.lines[j].event_id
          /\ seen[t].line.entry_hash = anchor.lines[j].entry_hash
    BY <1>1, <1>2 DEF SeenOf
  <2>2. seen[t].line.event_id = k /\ seen[t].line.entry_hash = TailHash(db)
    BY <1>7 DEF Matches
  <2>3. anchor.lines[j].event_id = j - 1
    BY DEF VaultInv, Inv, JournalInv, JournalNumbered
  <2>4. j = k + 1
    <3>1. j - 1 = k
      BY <2>1, <2>2, <2>3
    <3>2. j \in Nat
      BY <1>1
    <3> QED
      BY <1>1, <3>1, <3>2
  <2>5. Reported(t) <= k /\ (call[t].op = "verify_audit_checkpoint" => Reported(t) = k)
    BY <1>1, <1>7 DEF Reported, SeenOf
  <2>6. k \in 0 .. k /\ k < Len(anchor.lines)
    BY <1>1, <2>4
  <2> QED
    BY <1>2, <1>3, <1>7, <2>1, <2>2, <2>4, <2>5, <2>6 DEF VerdictOf
<1> QED
  BY <1>2, <1>4, <1>5, <1>6, <1>8, MoveKeeps

LEMMA ReturnsWhat ==
  ASSUME NEW t \in Task, NEW result, Returns(t, result)
  PROVE  /\ result.status = "ok"
         /\ call[t].op = "create" => result.n = 1
         /\ call[t].op = "update" => result.n = db.secrets[call[t].name].current + 1
BY DEF Returns, Result

\* The commit: the edit takes effect with its event, and nothing is lost.
LEMMA CommitKeeps ==
  ASSUME VaultInv, Inv', LinesKept, NEW t \in Task, Commit(t)
  PROVE  DataInv'
<1> DEFINE d == Edited(t)
           k == Len(db.events)
<1>1. /\ TypeOK /\ EventsNumbered /\ SecretsInv(db) /\ Explains(db)
      /\ pc \in [Task -> Stage] /\ db.events \in Seq(EventRow) /\ k \in Nat
      /\ \A u \in Task : Placed(u) /\ SeenOf(u)
  BY DEF VaultInv, Inv, TypeOK, Database, JournalInv, DataInv, CallsPlaced, SeenThere
<1>2. /\ pc[t] = "commit" /\ pc' = [pc EXCEPT ![t] = "done"] /\ db' = work
      /\ UNCHANGED <<phase, ring, call, seen, answer>>
  BY DEF Commit, processVars
<1>3. /\ call[t] \in Calls /\ Permitted(t) /\ Returns(t, answer[t])
      /\ db' = WithEvent(d, t, NameOf(t))
  BY <1>1, <1>2 DEF Placed, VaultInv, DataInv, PendingEdit, PendingOf
<1>4. PICK e \in EventRow :
        /\ db'.secret_seq = d.secret_seq
        /\ db'.secrets = d.secrets
        /\ db'.versions = d.versions
        /\ db'.events = Append(db.events, e)
        /\ e.entry_hash = t
  BY <1>1, <1>3, WhatIsCommitted
<1>5. /\ EventsKept
      /\ DOMAIN db.events = 1 .. k /\ DOMAIN db'.events = 1 .. k + 1
      /\ db'.events[k + 1].entry_hash = t
  <2>1. /\ Len(Append(db.events, e)) = k + 1 /\ Append(db.events, e)[k + 1] = e
        /\ \A i \in 1 .. k : Append(db.events, e)[i] = db.events[i]
        /\ DOMAIN Append(db.events, e) = 1 .. k + 1
    BY <1>1
  <2> QED
    BY <1>1, <1>4, <2>1 DEF EventsKept
<1>6. \A u \in Task : u # t => pc'[u] = pc[u] /\ pc[u] # "commit"
  BY <1>1, <1>2 DEF VaultInv, Inv, LockHeld
<1>7. pc'[t] = "done" /\ answer[t].status = "ok"
  BY <1>1, <1>2, <1>3, ReturnsWhat
<1>8. SecretsInv(db')
  <2>1. SecretsInv(d)
    BY <1>1, <1>3, EditKeepsSecrets
  <2> HIDE DEF d
  <2> QED
    BY <1>4, <2>1, SameRows
<1>9. Explains(db')
  BY <1>1, <1>3, CommitKeepsExplains
<1>10. AcknowledgedKept'
  <2>1. /\ \A n \in Name : db.secrets[n].sid # 0 => d.secrets[n].sid = db.secrets[n].sid
        /\ \A v \in db.versions : \E w \in d.versions :
             w.sid = v.sid /\ w.version = v.version /\ w.payload = v.payload
        /\ call[t].op \in { "create", "update" } =>
             \E w \in VersionsOf(d, call[t].name) :
               w.version = d.secrets[call[t].name].current /\ w.payload = t
    BY <1>1, <1>3, VersionsPersist
  <2> SUFFICES ASSUME NEW u \in Task, pc'[u] = "done", answer[u].status = "ok",
                      call[u].op \in { "create", "update" }
               PROVE  \E w \in d.versions : /\ w.sid = d.secrets[call[u].name].sid
                                            /\ w.version = answer[u].n /\ w.payload = u
    BY <1>2, <1>4 DEF AcknowledgedKept, VersionsOf
  <2>2. call[u] \in Calls
    BY <1>1, <1>3, <1>6 DEF Placed
  <2>3. call[u].name \in Name
    BY <2>2, CallSound DEF OnName
  <2>4. CASE u = t
    <3>1. d.secrets[call[t].name].current = answer[t].n
      <4>1. CASE call[t].op = "create"
        <5>1. d.secrets[call[t].name] = NewRow(db.secret_seq + 1)
          BY <1>1, <1>3, <2>3, <2>4, <4>1, EditedRow
        <5> HIDE DEF d
        <5> QED
          BY <1>3, <4>1, <5>1, ReturnsWhat DEF NewRow
      <4>2. CASE call[t].op = "update"
        <5>1. /\ db.secrets[call[t].name] \in SecretRow
              /\ d.secrets[call[t].name] = [db.secrets[call[t].name] EXCEPT !.current =
                                              db.secrets[call[t].name].current + 1]
          BY <1>1, <1>3, <2>3, <2>4, <4>2, EditedRow
        <5>2. answer[t].n = db.secrets[call[t].name].current + 1
          BY <1>3, <4>2, ReturnsWhat
        <5> HIDE DEF d
        <5> QED
          BY <5>1, <5>2 DEF SecretRow
      <4> QED
        BY <2>4, <4>1, <4>2
    <3> HIDE DEF d
    <3> QED
      BY <2>1, <2>4, <3>1 DEF VersionsOf
  <2>5. CASE u # t
    <3>1. Settled(u)
      BY <1>6, <2>5 DEF Settled
    <3>2. PICK v \in VersionsOf(db, call[u].name) : v.version = answer[u].n /\ v.payload = u
      BY <3>1 DEF VaultInv, DataInv, AcknowledgedKept, Settled
    <3>3. v \in db.versions /\ v.sid = db.secrets[call[u].name].sid
      BY <3>2 DEF VersionsOf
    <3>4. v.sid # 0
      <4>1. PICK n \in Name : Owns(db, n, v)
        BY <1>1, <3>3 DEF SecretsInv, Numbered
      <4> QED
        BY <4>1 DEF Owns
    <3> HIDE DEF d
    <3> QED
      BY <2>1, <2>3, <3>2, <3>3, <3>4
  <2> QED
    BY <2>4, <2>5
<1>11. LoggedIsDone'
  <2> SUFFICES ASSUME NEW u \in Task
               PROVE  (\E i \in DOMAIN db'.events : db'.events[i].entry_hash = u)
                        <=> pc'[u] = "done" /\ answer'[u].status = "ok"
    BY DEF LoggedIsDone
  <2>1. CASE u = t
    <3>1. k + 1 \in DOMAIN db'.events
      BY <1>1, <1>5
    <3> QED
      BY <1>2, <1>5, <1>7, <2>1, <3>1
  <2>2. CASE u # t
    <3>1. (\E i \in DOMAIN db.events : db.events[i].entry_hash = u)
            <=> pc[u] = "done" /\ answer[u].status = "ok"
      BY DEF VaultInv, DataInv, LoggedIsDone
    <3>2. \A i \in 1 .. k : i \in 1 .. k + 1 /\ db'.events[i] = db.events[i]
      BY <1>1, <1>5 DEF EventsKept
    <3>3. \A i \in 1 .. k + 1 : i \in 1 .. k \/ i = k + 1
      BY <1>1
    <3> HIDE DEF k
    <3> QED
      BY <1>2, <1>5, <1>6, <2>2, <3>1, <3>2, <3>3
  <2> QED
    BY <2>1, <2>2
<1>12. \A u \in Task : Placed(u)'
  <2> TAKE u \in Task
  <2>1. CASE u = t
    BY <1>1, <1>2, <1>7, <2>1 DEF Placed, Waiting
  <2>2. CASE u # t
    BY <1>1, <1>2, <1>6, <2>2 DEF Placed
  <2> QED
    BY <2>1, <2>2
<1>13. \A u \in Task : pc'[u] # "commit"
  BY <1>6, <1>7
<1>14. \A u \in Task : SeenOf(u)'
  BY <1>2, <1>5, <1>6, <1>7, SeenStays DEF Inv
<1>15. \A u \in Task : VerdictOf(u)'
  BY <1>2, <1>5, VerdictsStay DEF Inv
<1> QED
  BY <1>8, <1>9, <1>10, <1>11, <1>12, <1>13, <1>14, <1>15
  DEF DataInv, CallsPlaced, PendingEdit, SeenThere, VerdictsSound

\* While the process comes up nothing is under way.
LEMMA BootstrapKeeps ==
  ASSUME VaultInv, Inv', LinesKept, Bootstrap
  PROVE  DataInv' /\ SameData
<1>1. phase # "serving" /\ UNCHANGED <<writer, work, pc, call, seen, answer>>
  BY DEF Bootstrap, Open, StartAnchor, StartAnchorFails, KeepAnchor, Admit, taskVars
<1>2. SameData
  <2>1. CASE Open /\ db.id = None
    <3>1. PICK id : db' = [db EXCEPT !.id = id]
      BY <2>1 DEF Open
    <3>2. db \in Database
      BY DEF VaultInv, Inv, TypeOK
    <3> QED
      BY <3>1, <3>2 DEF Database, SameData
  <2>2. CASE ~(Open /\ db.id = None)
    <3>1. db' = db
      BY <2>2 DEF Bootstrap, Open, StartAnchor, StartAnchorFails, KeepAnchor, Admit
    <3> QED
      BY <3>1 DEF SameData
  <2> QED
    BY <2>1, <2>2
<1>3. EventsKept
  BY <1>2, SameDataKept DEF VaultInv, Inv
<1>4. SecretsInv(db)' /\ Explains(db)' /\ AcknowledgedKept' /\ LoggedIsDone'
  BY <1>1, <1>2, DataStays DEF Settled
<1>5. \A u \in Task : Placed(u) /\ pc[u] \notin Waiting
  BY <1>1 DEF VaultInv, DataInv, CallsPlaced, Placed
<1>6. \A u \in Task : Placed(u)' /\ pc'[u] # "commit"
  BY <1>1, <1>5 DEF Placed, Waiting
<1>7. \A u \in Task : SeenOf(u)' /\ VerdictOf(u)'
  BY <1>1, <1>3, SeenStays, VerdictsStay DEF Inv
<1> QED
  BY <1>2, <1>4, <1>6, <1>7
  DEF DataInv, CallsPlaced, PendingEdit, SeenThere, VerdictsSound

\* What is under way when the process dies is lost, and with it nothing else.
LEMMA CrashKeeps ==
  ASSUME VaultInv, Inv', LinesKept, Crash
  PROVE  DataInv'
<1>1. /\ pc \in [Task -> Stage] /\ answer \in [Task -> Answer]
      /\ \A u \in Task : Placed(u)
  BY DEF VaultInv, Inv, TypeOK, DataInv, CallsPlaced
<1>2. /\ UNCHANGED <<db, call, seen>> /\ SameData
      /\ pc' = [u \in Task |-> IF pc[u] \in Waiting THEN "lost" ELSE pc[u]]
      /\ answer' = [u \in Task |-> IF pc[u] \in Waiting THEN NoAnswer ELSE answer[u]]
  BY DEF Crash, SameData
<1>3. EventsKept
  BY <1>2, SameDataKept DEF VaultInv, Inv
<1>4. ASSUME NEW u \in Task
      PROVE  /\ pc'[u] \notin Waiting
             /\ pc'[u] # "lost" => pc'[u] = pc[u] /\ answer'[u] = answer[u]
             /\ pc'[u] = "lost" => answer'[u] = NoAnswer
  BY <1>1, <1>2 DEF Placed, Waiting
<1>5. NoAnswer.status \notin { "ok", "valid" }
  BY DEF NoAnswer, Result
<1>6. \A u \in Task : /\ Settled(u)' <=> Settled(u)
                      /\ Settled(u) => answer'[u] = answer[u] /\ call'[u] = call[u]
  BY <1>2, <1>4, <1>5 DEF Settled, Waiting
<1>7. SecretsInv(db)' /\ Explains(db)' /\ AcknowledgedKept' /\ LoggedIsDone'
  BY <1>2, <1>6, DataStays
<1>8. \A u \in Task : Placed(u)' /\ pc'[u] # "commit"
  <2> TAKE u \in Task
  <2>1. CASE pc'[u] = "lost"
    <3>1. pc[u] # "idle"
      BY <1>2, <2>1 DEF Waiting
    <3> QED
      BY <1>1, <1>2, <1>4, <2>1, <3>1 DEF Placed, Waiting
  <2>2. CASE pc'[u] # "lost"
    BY <1>1, <1>2, <1>4, <2>2 DEF Placed, Waiting
  <2> QED
    BY <2>1, <2>2
<1>9. \A u \in Task : SeenOf(u)'
  BY <1>2, <1>3, <1>4, SeenStays DEF Inv, Waiting
<1>10. \A u \in Task : VerdictOf(u)'
  BY <1>2, <1>3, <1>4, <1>5, VerdictsStay DEF Inv
<1> QED
  BY <1>7, <1>8, <1>9, <1>10
  DEF DataInv, CallsPlaced, PendingEdit, SeenThere, VerdictsSound

-----------------------------------------------------------------------------
(* The invariant holds *)

LEMMA InitData == Init => VaultInv
<1> SUFFICES ASSUME Init PROVE VaultInv
  OBVIOUS
<1> USE DEF Init
<1>1. Inv
  BY InitInv
<1>2. /\ db.events = << >> /\ db.versions = {} /\ db.secret_seq = 0
      /\ \A n \in Name : db.secrets[n] = NoSecret
      /\ DOMAIN db.events = {}
  BY DEF EmptyDatabase
<1>3. NoAnswer.status = "none"
  BY DEF NoAnswer, Result
<1>4. SecretsInv(db)
  BY <1>2 DEF SecretsInv, Identified, Numbered, NoSecret
<1>5. Explains(db)
  <2>1. \A n, actions : EventsIn(db.events, n, actions) = {}
    BY <1>2 DEF EventsIn
  <2>2. Cardinality({}) = 0
    BY FS_EmptySet
  <2>3. \A n \in Name : db.secrets[n].current = 0 /\ ~db.secrets[n].deleted
    BY <1>2 DEF NoSecret
  <2> HIDE DEF Init
  <2> QED
    BY <2>1, <2>2, <2>3 DEF Explains
<1>6. CallsPlaced
  BY DEF CallsPlaced, Placed, Waiting
<1>7. PendingEdit /\ AcknowledgedKept
  BY DEF PendingEdit, AcknowledgedKept
<1>8. LoggedIsDone
  BY <1>2 DEF LoggedIsDone
<1>9. SeenThere /\ VerdictsSound
  BY <1>2, <1>3, EmptySeq DEF SeenThere, SeenOf, NothingSeen, VerdictsSound, VerdictOf
<1> QED
  BY <1>1, <1>4, <1>5, <1>6, <1>7, <1>8, <1>9 DEF VaultInv, DataInv

LEMMA StutterKeeps ==
  ASSUME VaultInv, Inv', LinesKept, UNCHANGED vars
  PROVE  DataInv'
<1>1. SameData /\ EventsKept
  BY SameDataKept DEF vars, SameData, VaultInv, Inv
<1>2. SecretsInv(db)' /\ Explains(db)' /\ AcknowledgedKept' /\ LoggedIsDone'
  BY <1>1, DataStays DEF vars, Settled
<1>3. \A u \in Task : Placed(u)'
  BY DEF vars, VaultInv, DataInv, CallsPlaced, Placed
<1>4. \A u \in Task : pc'[u] = "commit" => PendingOf(u)'
  BY PendingStays DEF vars, VaultInv, DataInv, PendingEdit
<1>5. \A u \in Task : SeenOf(u)' /\ VerdictOf(u)'
  BY <1>1, SeenStays, VerdictsStay DEF vars, Inv
<1> QED
  BY <1>2, <1>3, <1>4, <1>5
  DEF DataInv, CallsPlaced, PendingEdit, SeenThere, VerdictsSound

LEMMA NextData == VaultInv /\ [Next]_vars => VaultInv'
<1> SUFFICES ASSUME VaultInv, [Next]_vars PROVE VaultInv'
  OBVIOUS
<1>1. Inv' /\ LinesKept
  BY NextInv, AnchorGrows DEF VaultInv
<1>2. CASE Bootstrap
  BY <1>1, <1>2, BootstrapKeeps DEF VaultInv
<1>3. CASE Crash
  BY <1>1, <1>3, CrashKeeps DEF VaultInv
<1>4. CASE UNCHANGED vars
  BY <1>1, <1>4, StutterKeeps DEF VaultInv
<1>5. ASSUME NEW t \in Task, Arrive(t) \/ Step(t)
      PROVE  DataInv'
  BY <1>1, <1>5, CallStep, ExecuteKeeps, CommitKeeps, CommitFailsKeeps, ReadKeeps,
     ReadTailKeeps DEF Step
<1> QED
  BY <1>1, <1>2, <1>3, <1>4, <1>5 DEF Next, VaultInv

\* The invariant of the data holds, whatever calls, failures, crashes and changes
\* of the key ring come in whatever order.
THEOREM DataInvariance == Spec => []VaultInv
BY InitData, NextData, PTL DEF Spec

-----------------------------------------------------------------------------
(* What a step settles *)

\* A step that neither loads keys nor commits answers no call with success.
Quiet ==
  /\ SameData /\ ring' = ring
  /\ phase = "down" => phase' = "down"
  /\ \A t \in Task : Settled(t)' => Settled(t) /\ call'[t] = call[t]

LEMMA QuietFinish ==
  ASSUME VaultInv, NEW t \in Task, NEW result, Finish(t, result), result.status # "ok",
         UNCHANGED <<db, ring, phase, call>>
  PROVE  Quiet
<1>1. pc \in [Task -> Stage] /\ answer \in [Task -> Answer]
  BY DEF VaultInv, Inv, TypeOK
<1> QED
  BY <1>1 DEF Quiet, SameData, Finish, Settled

LEMMA QuietMove ==
  ASSUME VaultInv, NEW t \in Task, NEW stage, stage # "done", pc' = [pc EXCEPT ![t] = stage],
         \A u \in Task : u # t => answer'[u] = answer[u] /\ call'[u] = call[u],
         UNCHANGED <<db, ring, phase>>
  PROVE  Quiet
<1>1. pc \in [Task -> Stage]
  BY DEF VaultInv, Inv, TypeOK
<1> QED
  BY <1>1 DEF Quiet, SameData, Settled

LEMMA StoreEffect ==
  ASSUME VaultInv, [Next]_vars
  PROVE  \/ Open \/ Quiet
         \/ \E t \in Task : Commit(t)
<1>1. /\ pc \in [Task -> Stage] /\ answer \in [Task -> Answer]
      /\ call \in [Task -> Calls \cup {NoCall}]
  BY DEF VaultInv, Inv, TypeOK
<1>2. CASE StartAnchor \/ StartAnchorFails \/ KeepAnchor \/ Admit
  BY <1>2 DEF StartAnchor, StartAnchorFails, KeepAnchor, Admit, taskVars, Quiet, SameData, Settled
<1>3. CASE Crash
  BY <1>1, <1>3 DEF Crash, Quiet, SameData, Settled
<1>4. CASE UNCHANGED vars
  BY <1>4 DEF vars, Quiet, SameData, Settled
<1>5. ASSUME NEW t \in Task, Arrive(t)
      PROVE  Quiet
  <2>1. PICK c \in Calls : /\ call' = [call EXCEPT ![t] = c]
                           /\ pc' = [pc EXCEPT ![t] = FirstStage(c.op)]
    BY <1>5 DEF Arrive
  <2>2. FirstStage(c.op) # "done"
    BY DEF FirstStage
  <2>3. \A u \in Task : u # t => answer'[u] = answer[u] /\ call'[u] = call[u]
    BY <1>1, <1>5, <2>1 DEF Arrive
  <2> QED
    BY <1>5, <2>1, <2>2, <2>3, QuietMove DEF Arrive, processVars
<1>6. ASSUME NEW t \in Task, CheckTarget(t) \/ Begin(t) \/ Busy(t)
      PROVE  Quiet
  <2>1. UNCHANGED <<db, ring, phase, call>>
    BY <1>6 DEF CheckTarget, Begin, Busy, processVars
  <2>2. \/ \E stage \in { "begin", "execute" } :
             pc' = [pc EXCEPT ![t] = stage] /\ answer' = answer
        \/ \E status \in { "not_found", "conflict", "error" } :
             Finish(t, Result(status, 0, None, {}))
    BY <1>6 DEF CheckTarget, Begin, Busy
  <2> QED
    BY <2>1, <2>2, QuietMove, QuietFinish DEF Result
<1>7. ASSUME NEW t \in Task, NEW status, status # "ok", Rollback(t, status)
      PROVE  Quiet
  <2>1. Result(status, 0, None, {}).status # "ok"
    BY <1>7 DEF Result
  <2> QED
    BY <1>7, <2>1, QuietFinish DEF Rollback, processVars
<1>8. ASSUME NEW t \in Task, Execute(t)
      PROVE  Quiet
  <2>1. call[t] \in Calls
    <3>1. pc[t] = "execute" /\ Placed(t)
      BY <1>8, ExecuteStage DEF VaultInv, DataInv, CallsPlaced
    <3> QED
      BY <3>1 DEF Placed
  <2>2. CASE Declines(t)
    BY <1>7, <2>2 DEF Declines, Refusable
  <2>3. CASE Prepares(t)
    <3>1. \A u \in Task : u # t => answer'[u] = answer[u] /\ call'[u] = call[u]
      BY <1>1, <2>3 DEF Prepares
    <3> QED
      BY <2>3, <3>1, QuietMove DEF Prepares, processVars
  <2> QED
    BY <1>8, <2>1, <2>2, <2>3, ExecuteOutcome DEF VaultInv, Inv
<1>9. ASSUME NEW t \in Task, CommitFails(t)
      PROVE  Quiet
  BY <1>7, <1>9 DEF CommitFails, Reject
<1>10. ASSUME NEW t \in Task, ReadRows(t) \/ ReadAnchor(t) \/ ReadTail(t)
       PROVE  Quiet
  <2>1. UNCHANGED <<db, ring, phase, call>>
    BY <1>10 DEF ReadRows, ReadAnchor, ReadTail, unread, processVars
  <2>2. \/ \E stage \in { "anchor", "tail" } :
             pc' = [pc EXCEPT ![t] = stage] /\ answer' = answer
        \/ \E status \in { "valid", "invalid" } : \E n, value :
             Finish(t, Result(status, n, value, {}))
    BY <1>10 DEF ReadRows, ReadAnchor, ReadTail
  <2>3. ASSUME NEW status \in { "valid", "invalid" }, NEW n, NEW value
        PROVE  Result(status, n, value, {}).status # "ok"
    BY DEF Result
  <2> QED
    BY <2>1, <2>2, <2>3, QuietMove, QuietFinish
<1> QED
  BY <1>2, <1>3, <1>4, <1>5, <1>6, <1>8, <1>9, <1>10 DEF Next, Bootstrap, Step

LEMMA CommitEffect ==
  ASSUME VaultInv, NEW t \in Task, Commit(t)
  PROVE  /\ phase = "serving" /\ UNCHANGED <<ring, phase, call>>
         /\ call[t] \in Calls /\ Permitted(t)
         /\ db'.secrets = Edited(t).secrets /\ db'.versions = Edited(t).versions
         /\ call[t].op = "rekey_all" => call[t].key = ring.active
         /\ \A u \in Task : u # t => (Settled(u)' <=> Settled(u))
<1>1. /\ pc \in [Task -> Stage] /\ TypeOK /\ EventsNumbered
      /\ Placed(t) /\ PendingEdit
  BY DEF VaultInv, Inv, JournalInv, TypeOK, DataInv, CallsPlaced
<1>2. pc[t] = "commit" /\ call[t] \in Calls /\ phase = "serving"
  BY <1>1 DEF Commit, Placed, Waiting
<1>3. work = WithEvent(Edited(t), t, NameOf(t)) /\ Permitted(t)
  BY <1>1, <1>2 DEF PendingEdit, PendingOf
<1>4. work.versions = Edited(t).versions /\ work.secrets = Edited(t).secrets
  BY <1>1, <1>2, <1>3, WhatIsCommitted
<1> QED
  BY <1>1, <1>2, <1>3, <1>4 DEF Commit, processVars, Placed, Settled

-----------------------------------------------------------------------------
(* A write is done once *)

\* What a write that was answered as done has done, for good: the name is taken,
\* its version is past the one that was expected, or it is deleted.
EffectOf(t) ==
  LET row == db.secrets[call[t].name]
  IN  Settled(t) =>
        /\ call[t].op = "create" => row.sid # 0
        /\ call[t].op = "update" => row.current > call[t].expected
        /\ call[t].op = "delete" => row.deleted

Writes == { "create", "update", "delete" }

\* So the same write does not succeed twice.
DistinctWrites ==
  \A s, t \in Task :
    s # t /\ Settled(s) /\ Settled(t) /\ call[s].op \in Writes => call[s] # call[t]

WritesInv == (\A t \in Task : EffectOf(t)) /\ DistinctWrites

\* A commit takes nothing back of what another call has done.
LEMMA RowsAdvance ==
  ASSUME VaultInv, NEW t \in Task, Commit(t), NEW n \in Name
  PROVE  LET old == db.secrets[n]
             new == db'.secrets[n]
         IN  /\ old.current \in Nat /\ new.current \in Nat
             /\ old.sid # 0 => new.sid # 0
             /\ old.current <= new.current
             /\ old.deleted => new.deleted
<1> DEFINE old == db.secrets[n]
           new == Edited(t).secrets[n]
<1>1. /\ TypeOK /\ SecretsInv(db) /\ call[t] \in Calls /\ Permitted(t)
      /\ db'.secrets = Edited(t).secrets
  BY CommitEffect DEF VaultInv, Inv, DataInv
<1>2. /\ old \in SecretRow /\ db.secret_seq \in Nat
      /\ old.sid = 0 => old.current = 0 /\ ~old.deleted
  BY <1>1 DEF TypeOK, Database, SecretsInv, Identified
<1>3. CASE call[t].op = "create" /\ n = call[t].name
  <2>1. old.sid = 0 /\ new = NewRow(db.secret_seq + 1)
    BY <1>1, <1>3, EditedRow DEF Permitted
  <2> HIDE DEF old, new
  <2>2. new.sid # 0 /\ new.current = 1
    BY <1>2, <2>1 DEF NewRow
  <2>3. old.current = 0 /\ ~old.deleted
    BY <1>2, <2>1
  <2> QED
    BY <1>1, <2>1, <2>2, <2>3 DEF old, new
<1>4. CASE call[t].op = "update" /\ n = call[t].name
  <2>1. new = [old EXCEPT !.current = old.current + 1]
    BY <1>1, <1>4, EditedRow
  <2> HIDE DEF old, new
  <2>2. /\ new.sid = old.sid /\ new.current = old.current + 1
        /\ new.deleted = old.deleted /\ old.current \in Nat
    BY <1>2, <2>1 DEF SecretRow
  <2> QED
    BY <1>1, <2>2 DEF old, new
<1>5. CASE call[t].op = "delete" /\ n = call[t].name
  <2>1. new = [old EXCEPT !.deleted = TRUE]
    BY <1>1, <1>5, EditedRow
  <2> HIDE DEF old, new
  <2>2. /\ new.sid = old.sid /\ new.current = old.current
        /\ new.deleted = TRUE /\ old.current \in Nat
    BY <1>2, <2>1 DEF SecretRow
  <2> QED
    BY <1>1, <2>2 DEF old, new
<1>6. CASE call[t].op \notin { "create", "update", "delete" } \/ n # call[t].name
  <2>1. new = old
    BY <1>1, <1>6, EditedRow
  <2> HIDE DEF old, new
  <2>2. old.current \in Nat
    BY <1>2 DEF SecretRow
  <2> QED
    BY <1>1, <2>1, <2>2 DEF old, new
<1> QED
  BY <1>3, <1>4, <1>5, <1>6

\* What has been done holds on.
LEMMA EffectStays ==
  ASSUME NEW n \in Name, NEW old, NEW new, old = db.secrets[n], new = db'.secrets[n],
         old.current \in Nat, new.current \in Nat, old.sid # 0 => new.sid # 0,
         old.current <= new.current, old.deleted => new.deleted,
         NEW t \in Task, call[t] \in Calls, call[t].name = n, call'[t] = call[t],
         Settled(t), EffectOf(t)
  PROVE  EffectOf(t)'
<1>1. call[t].expected \in Nat
  BY CallsAssumption DEF Call
<1> QED
  BY <1>1 DEF EffectOf, Settled

LEMMA CommitWrites ==
  ASSUME VaultInv, WritesInv, NEW t \in Task, Commit(t)
  PROVE  WritesInv'
<1> DEFINE n == call[t].name
<1>1. /\ call' = call /\ call[t] \in Calls /\ Permitted(t) /\ TypeOK
      /\ db'.secrets = Edited(t).secrets
      /\ \A u \in Task : u # t => (Settled(u)' <=> Settled(u))
  BY CommitEffect DEF VaultInv, Inv
<1>2. \A u \in Task : Settled(u) => call[u] \in Calls
  BY DEF VaultInv, DataInv, CallsPlaced, Placed, Settled
<1>3. \A u \in Task : Settled(u) /\ call[u].op \in Writes => call[u].name \in Name
  BY <1>2, CallSound DEF Writes, OnName
<1>4. ASSUME NEW u \in Task, u # t
      PROVE  EffectOf(u)'
  <2>1. CASE ~Settled(u)
    BY <1>1, <1>4, <2>1 DEF EffectOf
  <2>2. CASE Settled(u) /\ call[u].op \notin Writes
    BY <1>1, <2>2 DEF EffectOf, Writes
  <2>3. CASE Settled(u) /\ call[u].op \in Writes
    <3>1. EffectOf(u) /\ call[u].name \in Name /\ call[u] \in Calls /\ call'[u] = call[u]
      BY <1>1, <1>2, <1>3, <2>3 DEF WritesInv
    <3> QED
      BY <2>3, <3>1, RowsAdvance, EffectStays
  <2> QED
    BY <2>1, <2>2, <2>3
<1>R. ASSUME NEW m \in Name, m = n
      PROVE  LET row == db.secrets[m]
             IN  /\ row \in SecretRow
                 /\ call[t].op = "create" => db'.secrets[m] = NewRow(db.secret_seq + 1)
                 /\ call[t].op = "update" =>
                      db'.secrets[m] = [row EXCEPT !.current = row.current + 1]
                 /\ call[t].op = "delete" =>
                      db'.secrets[m] = [row EXCEPT !.deleted = TRUE]
  BY <1>1, <1>R, EditedRow
<1>5. EffectOf(t)'
  <2>1. CASE call[t].op = "create"
    <3>1. n \in Name
      BY <1>1, <2>1, CallSound DEF OnName
    <3>2. db.secret_seq \in Nat
      BY <1>1 DEF TypeOK, Database
    <3>3. db'.secrets[n].sid # 0
      BY <1>R, <2>1, <3>1, <3>2 DEF NewRow
    <3> QED
      BY <1>1, <2>1, <3>3 DEF EffectOf
  <2>2. CASE call[t].op = "update"
    <3>1. n \in Name
      BY <1>1, <2>2, CallSound DEF OnName
    <3>2. /\ db.secrets[n] \in SecretRow /\ db.secrets[n].current = call[t].expected
          /\ db'.secrets[n] = [db.secrets[n] EXCEPT !.current = db.secrets[n].current + 1]
      BY <1>1, <1>R, <2>2, <3>1 DEF Permitted, VersionAgrees
    <3>3. db'.secrets[n].current > call[t].expected
      BY <3>2 DEF SecretRow
    <3> QED
      BY <1>1, <2>2, <3>3 DEF EffectOf
  <2>3. CASE call[t].op = "delete"
    <3>1. n \in Name
      BY <1>1, <2>3, CallSound DEF OnName
    <3>2. /\ db.secrets[n] \in SecretRow
          /\ db'.secrets[n] = [db.secrets[n] EXCEPT !.deleted = TRUE]
      BY <1>R, <2>3, <3>1
    <3>3. db'.secrets[n].deleted
      BY <3>2 DEF SecretRow
    <3> QED
      BY <1>1, <2>3, <3>3 DEF EffectOf
  <2>4. CASE call[t].op \notin Writes
    BY <1>1, <2>4 DEF EffectOf, Writes
  <2> QED
    BY <2>1, <2>2, <2>3, <2>4 DEF Writes
<1>6. ASSUME NEW s \in Task, s # t, Settled(s), call[s].op \in Writes, call[s] = call[t]
      PROVE  FALSE
  <2>1. EffectOf(s) /\ n \in Name
    BY <1>1, <1>3, <1>6 DEF WritesInv
  <2>2. db.secrets[n] \in SecretRow /\ call[t].expected \in Nat
    BY <1>1, <2>1, CallsAssumption DEF TypeOK, Database, Call
  <2> QED
    BY <1>1, <1>6, <2>1, <2>2
    DEF EffectOf, Permitted, Live, VersionAgrees, Writes, SecretRow
<1>7. DistinctWrites'
  BY <1>1, <1>6 DEF DistinctWrites, WritesInv
<1> QED
  BY <1>4, <1>5, <1>7 DEF WritesInv

LEMMA WritesStep == VaultInv /\ WritesInv /\ [Next]_vars => WritesInv'
<1> SUFFICES ASSUME VaultInv, WritesInv, [Next]_vars PROVE WritesInv'
  OBVIOUS
<1>1. CASE Open
  <2>1. db'.secrets = db.secrets /\ UNCHANGED <<pc, call, answer>>
    BY <1>1 DEF Open, taskVars, VaultInv, Inv, TypeOK, Database
  <2> QED
    BY <2>1 DEF WritesInv, EffectOf, DistinctWrites, Settled
<1>2. CASE Quiet
  BY <1>2 DEF Quiet, SameData, WritesInv, EffectOf, DistinctWrites
<1> QED
  BY <1>1, <1>2, CommitWrites, StoreEffect

\* Nobody's write is done twice: of the writes that were answered as done, with
\* restarts and rotations in between, no two are the same call. A name is made
\* once, changed from a given version once and deleted once.
THEOREM WrittenOnce == Spec => []DistinctWrites
<1>1. Init => WritesInv
  <2> SUFFICES ASSUME Init PROVE WritesInv
    OBVIOUS
  <2>1. \A t \in Task : ~Settled(t)
    BY DEF Init, Settled
  <2> QED
    BY <2>1 DEF WritesInv, EffectOf, DistinctWrites
<1>2. WritesInv => DistinctWrites
  BY DEF WritesInv
<1> QED
  BY <1>1, <1>2, WritesStep, DataInvariance, PTL DEF Spec

-----------------------------------------------------------------------------
(* What it gives *)

\* The versions of a secret are as many as its number says.
LEMMA VersionsCounted ==
  ASSUME TypeOK, SecretsInv(db), NEW n \in Name
  PROVE  LET cur == db.secrets[n].current
         IN  /\ cur \in Nat
             /\ { v.version : v \in VersionsOf(db, n) } = 1 .. cur
             /\ Cardinality(VersionsOf(db, n)) = cur
             /\ \A v \in VersionsOf(db, n) : Owns(db, n, v)
<1> DEFINE cur == db.secrets[n].current
           rows == VersionsOf(db, n)
           g == [k \in 1 .. cur |-> CHOOSE v \in rows : v.version = k]
<1>1. cur \in Nat
  <2>1. db.secrets[n] \in SecretRow
    BY DEF TypeOK, Database
  <2> QED
    BY <2>1 DEF SecretRow
<1>2. ASSUME NEW v \in rows PROVE Owns(db, n, v)
  <2>1. v \in db.versions /\ v.sid = db.secrets[n].sid
    BY DEF VersionsOf
  <2>2. PICK m \in Name : Owns(db, m, v)
    BY <2>1 DEF SecretsInv, Numbered
  <2>3. m = n
    BY <2>1, <2>2 DEF Owns, SecretsInv, Identified
  <2> QED
    BY <2>2, <2>3
<1>3. \A k \in 1 .. cur : \E v \in rows : v.version = k
  BY DEF SecretsInv, Numbered, VersionsOf
<1>4. \A v, w \in rows : v.version = w.version => v = w
  BY DEF SecretsInv, Numbered, VersionsOf
<1>5. { v.version : v \in rows } = 1 .. cur
  <2>1. \A v \in rows : v.version \in 1 .. cur
    BY <1>2 DEF Owns
  <2> HIDE DEF rows, cur
  <2> QED
    BY <1>3, <2>1
<1> HIDE DEF rows, cur
<1>6. \A k \in 1 .. cur : g[k] \in rows /\ g[k].version = k
  BY <1>3
<1>7. \A v \in rows : v.version \in 1 .. cur /\ g[v.version] = v
  BY <1>4, <1>5, <1>6
<1> HIDE DEF g
<1>8. g \in [1 .. cur -> rows]
  BY <1>6 DEF g
<1>9. g \in Bijection(1 .. cur, rows)
  BY <1>6, <1>7, <1>8 DEF Bijection, Injection, Surjection, IsInjective
<1>10. Cardinality(rows) = cur
  BY <1>1, <1>9, FS_CountingElements DEF ExistsBijection
<1> QED
  BY <1>1, <1>2, <1>5, <1>10 DEF rows, cur

\* The rows of a secret tell one history, whatever the calls, in whatever
\* order, with whatever failures, crashes and changes of key.
THEOREM OneHistory == Spec => []SecretsSound
<1>1. VaultInv => SecretsSound
  <2> SUFFICES ASSUME VaultInv PROVE SecretsSound
    OBVIOUS
  <2>1. TypeOK /\ SecretsInv(db)
    BY DEF VaultInv, Inv, DataInv
  <2>2. \A m, n \in Name :
          m # n /\ db.secrets[m].sid # 0 => db.secrets[m].sid # db.secrets[n].sid
    BY <2>1 DEF SecretsInv, Identified
  <2> QED
    BY <2>1, <2>2, VersionsCounted DEF SecretsSound, Owns
<1> QED
  BY <1>1, DataInvariance, PTL

\* The audit log alone tells the state of every secret.
THEOREM LogExplains == Spec => []AuditExplainsData
<1>1. VaultInv => AuditExplainsData
  <2> SUFFICES ASSUME VaultInv, NEW n \in Name
               PROVE  LET deletions == EventsOn(n, {"delete"}) IN
                      /\ db.secrets[n].current
                           = Cardinality(EventsOn(n, {"create", "update"}))
                      /\ Cardinality(deletions) = IF db.secrets[n].deleted THEN 1 ELSE 0
                      /\ \A i \in deletions, j \in EventsOn(n, Op) : j <= i
    BY DEF AuditExplainsData
  <2> DEFINE deletions == EventsIn(db.events, n, {"delete"})
  <2>1. \A actions : EventsOn(n, actions) = EventsIn(db.events, n, actions)
    BY DEF EventsOn, EventsIn
  <2>2. /\ db.secrets[n].current = Cardinality(EventsIn(db.events, n, {"create", "update"}))
        /\ ~db.secrets[n].deleted => deletions = {}
        /\ db.secrets[n].deleted =>
             \E i \in DOMAIN db.events :
               deletions = {i} /\ \A j \in EventsIn(db.events, n, Op) : j <= i
    BY DEF VaultInv, DataInv, Explains
  <2> HIDE DEF deletions
  <2>3. CASE ~db.secrets[n].deleted
    BY <2>1, <2>2, <2>3, FS_EmptySet DEF deletions
  <2>4. CASE db.secrets[n].deleted
    <3>1. PICK i \in DOMAIN db.events :
            deletions = {i} /\ \A j \in EventsIn(db.events, n, Op) : j <= i
      BY <2>2, <2>4
    <3>2. Cardinality(deletions) = 1
      BY <3>1, FS_Singleton
    <3> QED
      BY <2>1, <2>2, <2>4, <3>1, <3>2 DEF deletions
  <2> QED
    BY <2>3, <2>4
<1> QED
  BY <1>1, DataInvariance, PTL

\* A write that was acknowledged is never lost.
THEOREM WritesKept == Spec => []AcknowledgedKept
<1>1. VaultInv => AcknowledgedKept
  BY DEF VaultInv, DataInv
<1> QED
  BY <1>1, DataInvariance, PTL

\* What a verification called valid stays true.
THEOREM VerdictsHold == Spec => []CheckpointSound
<1>1. VaultInv => CheckpointSound
  BY DEF VaultInv, DataInv, VerdictsSound, VerdictOf, CheckpointSound
<1> QED
  BY <1>1, DataInvariance, PTL

-----------------------------------------------------------------------------
(* The store as a ledger *)

PayloadIn(d, n, k) == (CHOOSE v \in VersionsOf(d, n) : v.version = k).payload

\* What SecretLedger's variables are of the store.
HistoryOf(d) ==
  [n \in Name |-> [k \in 1 .. d.secrets[n].current |-> PayloadIn(d, n, k)]]

DeletedIn(d) == { n \in Name : d.secrets[n].deleted }

LogOf(d) ==
  [i \in DOMAIN d.events |->
     [ by |-> d.events[i].entry_hash, action |-> d.events[i].action,
       name |-> d.events[i].name ]]

Told == [t \in Task |-> IF pc[t] = "done" THEN answer[t] ELSE NoAnswer]

LEMMA PayloadIs ==
  ASSUME NEW d, SecretsInv(d), NEW n \in Name, NEW v \in VersionsOf(d, n)
  PROVE  PayloadIn(d, n, v.version) = v.payload
<1>1. \A w \in VersionsOf(d, n) : w.version = v.version => w = v
  BY DEF SecretsInv, Numbered, VersionsOf
<1> QED
  BY <1>1 DEF PayloadIn

LEMMA HistoryFacts ==
  ASSUME NEW d \in Database, SecretsInv(d), NEW n \in Name
  PROVE  /\ d.secrets[n].current \in Nat
         /\ HistoryOf(d)[n] \in Seq(Task)
         /\ Len(HistoryOf(d)[n]) = d.secrets[n].current
         /\ \A k \in 1 .. d.secrets[n].current :
              HistoryOf(d)[n][k] = PayloadIn(d, n, k)
         /\ HistoryOf(d)[n] = << >> <=> d.secrets[n].sid = 0
<1> DEFINE cur == d.secrets[n].current
           h   == HistoryOf(d)[n]
<1>1. /\ d.secrets[n] \in SecretRow /\ d.versions \in SUBSET VersionRow
  BY DEF Database
<1>2. cur \in Nat /\ (d.secrets[n].sid = 0 <=> cur = 0)
  BY <1>1 DEF SecretRow, SecretsInv, Identified
<1>3. \A k \in 1 .. cur : PayloadIn(d, n, k) \in Task
  <2> TAKE k \in 1 .. cur
  <2>1. PICK v \in VersionsOf(d, n) : v.version = k
    BY DEF SecretsInv, Numbered, VersionsOf
  <2>2. v \in VersionRow
    BY <1>1 DEF VersionsOf
  <2> QED
    BY <2>1, <2>2, PayloadIs DEF VersionRow
<1>4. h = [k \in 1 .. cur |-> PayloadIn(d, n, k)]
  BY DEF HistoryOf
<1> HIDE DEF h, cur
<1>5. h \in [1 .. cur -> Task]
  BY <1>3, <1>4
<1>6. h \in Seq(Task) /\ Len(h) = cur
  BY <1>2, <1>5
<1>7. h = << >> <=> cur = 0
  BY <1>2, <1>6, EmptySeq
<1> QED
  BY <1>2, <1>4, <1>6, <1>7 DEF h, cur

LogRow == [ by : Task, action : Op, name : Name \cup {None} ]

LEMMA LogFacts ==
  ASSUME NEW d \in Database
  PROVE  /\ LogOf(d) \in Seq(LogRow)
         /\ Len(LogOf(d)) = Len(d.events)
         /\ \A i \in 1 .. Len(d.events) :
              /\ LogOf(d)[i].by = d.events[i].entry_hash
              /\ LogOf(d)[i].action = d.events[i].action
              /\ LogOf(d)[i].name = d.events[i].name
<1>1. d.events \in Seq(EventRow) /\ Len(d.events) \in Nat
      /\ DOMAIN d.events = 1 .. Len(d.events)
  BY DEF Database
<1>2. \A i \in 1 .. Len(d.events) : d.events[i] \in EventRow
  BY <1>1
<1>3. LogOf(d) \in [1 .. Len(d.events) -> LogRow]
  BY <1>1, <1>2 DEF LogOf, EventRow, LogRow
<1>4. \A i \in 1 .. Len(d.events) :
        /\ LogOf(d)[i].by = d.events[i].entry_hash
        /\ LogOf(d)[i].action = d.events[i].action
        /\ LogOf(d)[i].name = d.events[i].name
  BY <1>1 DEF LogOf
<1>5. LogOf(d) \in Seq(LogRow) /\ Len(LogOf(d)) = Len(d.events)
  BY <1>1, <1>3
<1> QED
  BY <1>4, <1>5

\* The variables of the ledger.
LEMMA LedgerState ==
  /\ Ledger!vars = <<HistoryOf(db), DeletedIn(db), LogOf(db), call, Told>>
  /\ Ledger!vars' = <<HistoryOf(db'), DeletedIn(db'), LogOf(db'), call', Told'>>
BY DEF Ledger!vars, HistoryOf, DeletedIn, LogOf, Told, PayloadIn, PayloadOf

LEMMA LedgerLive ==
  ASSUME VaultInv, NEW n \in Name
  PROVE  /\ Ledger!Version(n) = db.secrets[n].current
         /\ Ledger!Live(n) <=> Live(db, n)
<1>1. db \in Database /\ SecretsInv(db)
  BY DEF VaultInv, Inv, TypeOK, DataInv
<1>2. /\ Ledger!Version(n) = Len(HistoryOf(db)[n])
      /\ Ledger!Live(n) <=> HistoryOf(db)[n] # << >> /\ n \notin DeletedIn(db)
  BY DEF Ledger!Version, Ledger!Live, HistoryOf, DeletedIn, PayloadIn, PayloadOf
<1> QED
  BY <1>1, <1>2, HistoryFacts DEF Live, DeletedIn

\* The operators of the ledger, in the words of the store.
LEMMA LedgerWords ==
  ASSUME NEW t \in Task
  PROVE  /\ \A status, n, value, rows :
              Ledger!Result(status, n, value, rows) = Result(status, n, value, rows)
         /\ Ledger!NoAnswer = NoAnswer
         /\ \A op : Ledger!Asks(t, op) <=> Told[t] = NoAnswer /\ call[t].op = op
         /\ \A result : Ledger!Answer(t, result) <=>
              Told' = [Told EXCEPT ![t] = result] /\ call' = call
         /\ \A name : Ledger!Logged(t, name) <=>
              LogOf(db') = Append(LogOf(db), [ by |-> t, action |-> call[t].op,
                                               name |-> name ])
<1>1. \A status, n, value, rows :
        Ledger!Result(status, n, value, rows) = Result(status, n, value, rows)
  BY DEF Ledger!Result, Result
<1>2. Ledger!NoAnswer = NoAnswer
  BY <1>1 DEF Ledger!NoAnswer, NoAnswer
<1>3. \A op : Ledger!Asks(t, op) <=> Told[t] = NoAnswer /\ call[t].op = op
  BY <1>2 DEF Ledger!Asks, Told
<1>4. \A result : Ledger!Answer(t, result) <=>
        Told' = [Told EXCEPT ![t] = result] /\ call' = call
  BY DEF Ledger!Answer, Told
<1>5. \A name : Ledger!Logged(t, name) <=>
        LogOf(db') = Append(LogOf(db), [ by |-> t, action |-> call[t].op,
                                         name |-> name ])
  BY DEF Ledger!Logged, LogOf
<1> QED
  BY <1>1, <1>2, <1>3, <1>4, <1>5

\* Rows and log that do not change show the same ledger.
LEMMA LedgerSame ==
  ASSUME SameData
  PROVE  /\ HistoryOf(db') = HistoryOf(db)
         /\ DeletedIn(db') = DeletedIn(db)
         /\ LogOf(db') = LogOf(db)
         /\ \A n \in Name : Live(db', n) <=> Live(db, n)
<1>1. \A n, k : PayloadIn(db', n, k) = PayloadIn(db, n, k)
  BY DEF SameData, PayloadIn, VersionsOf
<1>2. HistoryOf(db') = HistoryOf(db)
  BY <1>1 DEF SameData, HistoryOf
<1> QED
  BY <1>2 DEF SameData, DeletedIn, LogOf, Live

LEMMA ToldFinish ==
  ASSUME TypeOK, NEW t \in Task, NEW result, Finish(t, result)
  PROVE  Told' = [Told EXCEPT ![t] = result]
BY DEF TypeOK, Finish, Told

LEMMA ToldSame ==
  ASSUME \A u \in Task : pc'[u] = "done" <=> pc[u] = "done",
         \A u \in Task : pc[u] = "done" => answer'[u] = answer[u]
  PROVE  Told' = Told
BY DEF Told

LEMMA LedgerStutter ==
  ASSUME SameData, call' = call,
         \A u \in Task : pc'[u] = "done" <=> pc[u] = "done",
         \A u \in Task : pc[u] = "done" => answer'[u] = answer[u]
  PROVE  UNCHANGED Ledger!vars
BY LedgerState, LedgerSame, ToldSame

\* A call whose answer comes without a commit.
Answers(t, result) ==
  /\ UNCHANGED <<db, call>>
  /\ pc[t] # "done"
  /\ call[t] \in Calls
  /\ Finish(t, result)

LEMMA AnswersSo ==
  ASSUME TypeOK, NEW t \in Task, NEW result, Answers(t, result)
  PROVE  /\ SameData
         /\ Told[t] = NoAnswer /\ Told' = [Told EXCEPT ![t] = result]
         /\ call[t] # NoCall
<1>1. SameData
  BY DEF Answers, SameData
<1>2. Told[t] = NoAnswer /\ Told' = [Told EXCEPT ![t] = result]
  BY ToldFinish DEF Answers, Told
<1> QED
  BY <1>1, <1>2, CallSound DEF Answers

LEMMA AnswerSimulated ==
  ASSUME NEW t \in Task, NEW status, NEW n, NEW value, NEW rows, call' = call,
         Told' = [Told EXCEPT ![t] = Result(status, n, value, rows)]
  PROVE  Ledger!Answer(t, Ledger!Result(status, n, value, rows))
<1>1. Ledger!Result(status, n, value, rows) = Result(status, n, value, rows)
  BY LedgerWords
<1>2. Told' = [Told EXCEPT ![t] = Ledger!Result(status, n, value, rows)]
  BY <1>1
<1> QED
  BY <1>2, LedgerWords

LEMMA FailSimulated ==
  ASSUME VaultInv, NEW t \in Task, NEW status \in { "crypto", "error" },
         Answers(t, Result(status, 0, None, {}))
  PROVE  Ledger!Fail(t)
<1>1. /\ SameData /\ call' = call /\ Told[t] = NoAnswer /\ call[t] # NoCall
      /\ Told' = [Told EXCEPT ![t] = Result(status, 0, None, {})]
  BY AnswersSo DEF VaultInv, Inv, Answers
<1>2. Ledger!Answer(t, Ledger!Result(status, 0, None, {}))
  BY <1>1, AnswerSimulated
<1>3. Told[t] = Ledger!NoAnswer
  BY <1>1, LedgerWords
<1>4. UNCHANGED <<HistoryOf(db), DeletedIn(db), LogOf(db)>>
  BY <1>1, LedgerSame
<1> QED
  BY <1>1, <1>2, <1>3, <1>4
  DEF Ledger!Fail, Told, HistoryOf, DeletedIn, LogOf, PayloadIn, PayloadOf

LEMMA InvalidSimulated ==
  ASSUME VaultInv, NEW t \in Task, call[t].op \in Verification,
         NEW n \in 0 .. Len(db.events), NEW value \in Task \cup {None},
         Answers(t, Result("invalid", n, value, {}))
  PROVE  Ledger!Fail(t)
<1>1. /\ SameData /\ call' = call /\ Told[t] = NoAnswer /\ call[t] # NoCall
      /\ Told' = [Told EXCEPT ![t] = Result("invalid", n, value, {})]
  BY AnswersSo DEF VaultInv, Inv, Answers
<1>2. Ledger!Answer(t, Ledger!Result("invalid", n, value, {}))
  BY <1>1, AnswerSimulated
<1>3. Told[t] = Ledger!NoAnswer
  BY <1>1, LedgerWords
<1>4. UNCHANGED <<HistoryOf(db), DeletedIn(db), LogOf(db)>>
  BY <1>1, LedgerSame
<1>5. n \in 0 .. Len(LogOf(db))
  BY LogFacts DEF VaultInv, Inv, TypeOK
<1>6. \E m \in 0 .. Len(LogOf(db)), x \in Task \cup {None} :
        Ledger!Answer(t, Ledger!Result("invalid", m, x, {}))
  BY <1>2, <1>5
<1> QED
  BY <1>1, <1>3, <1>4, <1>6
  DEF Ledger!Fail, Told, HistoryOf, DeletedIn, LogOf, PayloadIn, PayloadOf, Verification

LEMMA LastWriterIs ==
  ASSUME VaultInv
  PROVE  Ledger!LastWriter = TailHash(db)
<1>1. db \in Database /\ db.events \in Seq(EventRow)
  BY DEF VaultInv, Inv, TypeOK, Database
<1>2. Ledger!LastWriter = IF LogOf(db) = << >> THEN None ELSE LogOf(db)[Len(LogOf(db))].by
  BY DEF Ledger!LastWriter, LogOf
<1>3. LogOf(db) = << >> <=> db.events = << >>
  BY <1>1, LogFacts, EmptySeq
<1>4. db.events # << >> => Len(db.events) \in 1 .. Len(db.events)
  BY <1>1
<1> QED
  BY <1>1, <1>2, <1>3, <1>4, LogFacts DEF TailHash

LEMMA VerifySimulated ==
  ASSUME VaultInv, NEW t \in Task, call[t].op \in Verification,
         NEW n \in 0 .. Len(db.events),
         call[t].op = "verify_audit_checkpoint" => n = Len(db.events),
         Answers(t, Result("valid", n, TailHash(db), {}))
  PROVE  Ledger!Verify(t)
<1>1. /\ SameData /\ call' = call /\ Told[t] = NoAnswer
      /\ Told' = [Told EXCEPT ![t] = Result("valid", n, TailHash(db), {})]
  BY AnswersSo DEF VaultInv, Inv, Answers
<1>2. Ledger!LastWriter = TailHash(db)
  BY LastWriterIs
<1>3. UNCHANGED <<HistoryOf(db), DeletedIn(db), LogOf(db)>>
  BY <1>1, LedgerSame
<1>4. n \in 0 .. Len(LogOf(db)) /\ Len(LogOf(db)) = Len(db.events)
  BY LogFacts DEF VaultInv, Inv, TypeOK
<1>5. CASE call[t].op = "verify_audit_checkpoint"
  <2>1. Told[t] = Ledger!NoAnswer /\ call[t].op = "verify_audit_checkpoint"
    BY <1>1, <1>5, LedgerWords
  <2>2. Told' = [Told EXCEPT ![t] =
                   Ledger!Result("valid", Len(LogOf(db)), Ledger!LastWriter, {})]
    BY <1>1, <1>2, <1>4, <1>5 DEF Result, Ledger!Result
  <2> QED
    BY <1>1, <1>3, <2>1, <2>2
    DEF Ledger!Verify, Ledger!Asks, Ledger!Answer, Told, HistoryOf, DeletedIn, LogOf,
        PayloadIn, PayloadOf
<1>6. CASE call[t].op = "verify_audit_chain"
  <2>1. Told[t] = Ledger!NoAnswer /\ call[t].op = "verify_audit_chain"
    BY <1>1, <1>6, LedgerWords
  <2>2. Told' = [Told EXCEPT ![t] = Ledger!Result("valid", n, Ledger!LastWriter, {})]
    BY <1>1, <1>2 DEF Result, Ledger!Result
  <2>3. \E m \in 0 .. Len(LogOf(db)) :
          Told' = [Told EXCEPT ![t] = Ledger!Result("valid", m, Ledger!LastWriter, {})]
    BY <1>4, <2>2
  <2> QED
    BY <1>1, <1>3, <2>1, <2>3
    DEF Ledger!Verify, Ledger!Asks, Ledger!Answer, Told, HistoryOf, DeletedIn, LogOf,
        PayloadIn, PayloadOf
<1> QED
  BY <1>5, <1>6 DEF Verification

\* A live secret is found.
LEMMA LiveIsFound ==
  ASSUME TypeOK, SecretsInv(db), NEW n \in Name, Live(db, n)
  PROVE  \E v \in VersionsOf(db, n) : CurrentRows(db, n) = {v}
                                       /\ v.version = db.secrets[n].current
<1> DEFINE cur == db.secrets[n].current
<1>1. cur \in 1 .. cur
  <2>1. cur \in Nat /\ cur # 0
    BY DEF TypeOK, Database, SecretRow, SecretsInv, Identified, Live
  <2> QED
    BY <2>1
<1>2. PICK v \in VersionsOf(db, n) : v.version = cur
  BY <1>1 DEF SecretsInv, Numbered, VersionsOf
<1>3. \A w \in VersionsOf(db, n) : w.version = cur => w = v
  BY <1>2 DEF SecretsInv, Numbered, VersionsOf
<1> QED
  BY <1>2, <1>3 DEF CurrentRows

LEMMA RefuseSimulated ==
  ASSUME VaultInv, NEW t \in Task, NEW status \in { "not_found", "conflict" },
         Answers(t, Result(status, 0, None, {})),
         Refusable(t, status) \/ call[t].op = "rekey_all"
  PROVE  Ledger!Refuse(t)
<1> DEFINE n == call[t].name
<1>1. /\ SameData /\ call' = call /\ Told[t] = NoAnswer /\ call[t] # NoCall
      /\ Told' = [Told EXCEPT ![t] = Result(status, 0, None, {})]
  BY AnswersSo DEF VaultInv, Inv, Answers
<1>2. Ledger!Answer(t, Ledger!Result(status, 0, None, {}))
  BY <1>1, AnswerSimulated
<1>3. Told[t] = Ledger!NoAnswer
  BY <1>1, LedgerWords
<1>4. UNCHANGED <<HistoryOf(db), DeletedIn(db), LogOf(db)>>
  BY <1>1, LedgerSame
<1>5. /\ call[t] \in Calls /\ TypeOK /\ SecretsInv(db) /\ db \in Database
      /\ call[t].op \in OnName => n \in Name
  BY CallSound DEF Answers, VaultInv, Inv, TypeOK, DataInv
<1>6. \/ /\ call[t].op \in { "update", "delete", "get", "list_versions" }
         /\ ~Ledger!Live(n)
         /\ status = "not_found"
      \/ /\ status = "conflict"
         /\ \/ call[t].op = "create" /\ HistoryOf(db)[n] # << >>
            \/ /\ call[t].op \in { "update", "delete" }
               /\ Ledger!Live(n)
               /\ Ledger!Version(n) # call[t].expected
      \/ call[t].op = "rekey_all"
  <2>1. CASE status = "not_found" /\ call[t].op # "rekey_all"
    <3>1. call[t].op \in { "update", "delete", "get", "list_versions" } /\ n \in Name
      BY <1>5, <2>1 DEF Refusable, OnName
    <3>2. ~Live(db, n)
      BY <1>5, <2>1, <3>1, LiveIsFound DEF Refusable
    <3> QED
      BY <2>1, <3>1, <3>2, LedgerLive
  <2>2. CASE status = "conflict" /\ call[t].op # "rekey_all"
    <3>1. /\ call[t].op \in { "create", "update", "delete" } /\ n \in Name
          /\ call[t].op = "create" => db.secrets[n].sid # 0
          /\ call[t].op # "create" =>
               Live(db, n) /\ db.secrets[n].current # call[t].expected
      BY <1>5, <2>2 DEF Refusable, OnName, VersionAgrees
    <3>2. call[t].op = "create" => HistoryOf(db)[n] # << >>
      BY <1>5, <3>1, HistoryFacts
    <3> QED
      BY <2>2, <3>1, <3>2, LedgerLive
  <2> QED
    BY <2>1, <2>2
<1>7. \/ /\ call[t].op \in { "update", "delete", "get", "list_versions" }
         /\ ~Ledger!Live(n)
         /\ Ledger!Answer(t, Ledger!Result("not_found", 0, None, {}))
      \/ /\ \/ call[t].op = "create" /\ HistoryOf(db)[n] # << >>
            \/ /\ call[t].op \in { "update", "delete" }
               /\ Ledger!Live(n)
               /\ Ledger!Version(n) # call[t].expected
         /\ Ledger!Answer(t, Ledger!Result("conflict", 0, None, {}))
      \/ /\ call[t].op = "rekey_all"
         /\ \E s \in { "not_found", "conflict" } :
              Ledger!Answer(t, Ledger!Result(s, 0, None, {}))
  BY <1>2, <1>6
<1> QED
  BY <1>1, <1>3, <1>4, <1>7
  DEF Ledger!Refuse, Told, HistoryOf, DeletedIn, LogOf, PayloadIn, PayloadOf

-----------------------------------------------------------------------------
(* A commit, as the ledger sees it *)

\* Sequences that agree everywhere are the same.
LEMMA SameSequence ==
  ASSUME NEW S, NEW r \in Seq(S), NEW s \in Seq(S), Len(r) = Len(s),
         \A i \in 1 .. Len(s) : r[i] = s[i]
  PROVE  r = s
OBVIOUS

LEMMA CommitShape ==
  ASSUME VaultInv, Inv', NEW t \in Task, Commit(t)
  PROVE  /\ TypeOK /\ db \in Database /\ SecretsInv(db)
         /\ db' \in Database /\ SecretsInv(db')
         /\ call[t] \in Calls /\ Permitted(t) /\ Returns(t, answer[t])
         /\ db'.secrets = Edited(t).secrets
         /\ db'.versions = Edited(t).versions
         /\ LogOf(db') = Append(LogOf(db), [ by |-> t, action |-> call[t].op,
                                             name |-> NameOf(t) ])
         /\ Told[t] = NoAnswer /\ Told' = [Told EXCEPT ![t] = answer[t]]
         /\ call' = call
<1> DEFINE d == Edited(t)
           k == Len(db.events)
           row == [ by |-> t, action |-> call[t].op, name |-> NameOf(t) ]
<1>1. /\ TypeOK /\ EventsNumbered /\ SecretsInv(db) /\ db \in Database
      /\ pc \in [Task -> Stage] /\ db.events \in Seq(EventRow) /\ k \in Nat
      /\ Placed(t)
  BY DEF VaultInv, Inv, TypeOK, Database, JournalInv, DataInv, CallsPlaced
<1>2. /\ pc[t] = "commit" /\ pc' = [pc EXCEPT ![t] = "done"] /\ db' = work
      /\ UNCHANGED <<phase, ring, call, seen, answer>>
  BY DEF Commit, processVars
<1>3. /\ call[t] \in Calls /\ Permitted(t) /\ Returns(t, answer[t])
      /\ db' = WithEvent(d, t, NameOf(t))
  BY <1>1, <1>2 DEF Placed, VaultInv, DataInv, PendingEdit, PendingOf
<1>4. PICK e \in EventRow :
        /\ db'.secret_seq = d.secret_seq
        /\ db'.secrets = d.secrets
        /\ db'.versions = d.versions
        /\ db'.events = Append(db.events, e)
        /\ e.action = call[t].op
        /\ e.name = NameOf(t)
        /\ e.entry_hash = t
  BY <1>1, <1>3, WhatIsCommitted
<1>5. db' \in Database
  BY DEF Inv, TypeOK
<1>6. SecretsInv(db')
  <2>1. SecretsInv(d)
    BY <1>1, <1>3, EditKeepsSecrets
  <2> HIDE DEF d
  <2> QED
    BY <1>4, <2>1, SameRows
<1>7. row \in LogRow
  BY <1>3, CallSound DEF LogRow
<1>8. LogOf(db') = Append(LogOf(db), row)
  <2>1. /\ LogOf(db) \in Seq(LogRow) /\ Len(LogOf(db)) = k
        /\ \A i \in 1 .. k : /\ LogOf(db)[i].by = db.events[i].entry_hash
                             /\ LogOf(db)[i].action = db.events[i].action
                             /\ LogOf(db)[i].name = db.events[i].name
    BY <1>1, LogFacts
  <2>2. /\ Len(db'.events) = k + 1 /\ db'.events[k + 1] = e
        /\ \A i \in 1 .. k : db'.events[i] = db.events[i]
    BY <1>1, <1>4
  <2>3. /\ LogOf(db') \in Seq(LogRow) /\ Len(LogOf(db')) = k + 1
        /\ \A i \in 1 .. k + 1 : /\ LogOf(db')[i].by = db'.events[i].entry_hash
                                 /\ LogOf(db')[i].action = db'.events[i].action
                                 /\ LogOf(db')[i].name = db'.events[i].name
    BY <1>5, <2>2, LogFacts
  <2>4. \A x, y \in LogRow :
          x.by = y.by /\ x.action = y.action /\ x.name = y.name => x = y
    BY DEF LogRow
  <2> HIDE DEF k, row
  <2>5. /\ Append(LogOf(db), row) \in Seq(LogRow)
        /\ Len(Append(LogOf(db), row)) = k + 1
        /\ Append(LogOf(db), row)[k + 1] = row
        /\ \A i \in 1 .. k : Append(LogOf(db), row)[i] = LogOf(db)[i]
    BY <1>7, <2>1
  <2>6. \A i \in 1 .. k + 1 : i \in 1 .. k \/ i = k + 1
    BY <1>1
  <2>7. k + 1 \in 1 .. k + 1 /\ \A i \in 1 .. k : i \in 1 .. k + 1
    BY <1>1
  <2>8. LogOf(db')[k + 1] = row
    <3>1. LogOf(db')[k + 1] \in LogRow
      BY <2>3, <2>7
    <3>2. /\ LogOf(db')[k + 1].by = t /\ LogOf(db')[k + 1].action = call[t].op
          /\ LogOf(db')[k + 1].name = NameOf(t)
      BY <1>4, <2>2, <2>3, <2>7
    <3>3. row.by = t /\ row.action = call[t].op /\ row.name = NameOf(t)
      BY DEF row
    <3> QED
      BY <1>7, <2>4, <3>1, <3>2, <3>3
  <2>9. \A i \in 1 .. k : LogOf(db')[i] = LogOf(db)[i]
    <3> TAKE i \in 1 .. k
    <3>1. LogOf(db')[i] \in LogRow /\ LogOf(db)[i] \in LogRow
      BY <2>1, <2>3, <2>7
    <3>2. /\ LogOf(db')[i].by = LogOf(db)[i].by
          /\ LogOf(db')[i].action = LogOf(db)[i].action
          /\ LogOf(db')[i].name = LogOf(db)[i].name
      BY <2>1, <2>2, <2>3, <2>7
    <3> QED
      BY <2>4, <3>1, <3>2
  <2>10. \A i \in 1 .. k + 1 : LogOf(db')[i] = Append(LogOf(db), row)[i]
    BY <2>5, <2>6, <2>8, <2>9
  <2> QED
    BY <2>3, <2>5, <2>10, SameSequence
<1>9. Told[t] = NoAnswer /\ Told' = [Told EXCEPT ![t] = answer[t]]
  BY <1>1, <1>2 DEF Told
<1> QED
  BY <1>1, <1>2, <1>3, <1>4, <1>5, <1>6, <1>8, <1>9

\* What a secret has held it still holds.
LEMMA HistoryKept ==
  ASSUME VaultInv, Inv', NEW t \in Task, Commit(t), NEW n \in Name,
         NEW k \in 1 .. db.secrets[n].current, k <= db'.secrets[n].current
  PROVE  HistoryOf(db')[n][k] = HistoryOf(db)[n][k]
<1>1. /\ TypeOK /\ db \in Database /\ SecretsInv(db)
      /\ db' \in Database /\ SecretsInv(db')
      /\ call[t] \in Calls /\ Permitted(t)
      /\ db'.secrets = Edited(t).secrets
      /\ db'.versions = Edited(t).versions
  BY CommitShape
<1>2. /\ db.secrets[n].current \in Nat /\ db'.secrets[n].current \in Nat
      /\ HistoryOf(db)[n][k] = PayloadIn(db, n, k)
  BY <1>1, HistoryFacts
<1>3. HistoryOf(db')[n][k] = PayloadIn(db', n, k)
  BY <1>1, <1>2, HistoryFacts
<1>4. PICK v \in VersionsOf(db, n) : v.version = k
  BY <1>1 DEF SecretsInv, Numbered, VersionsOf
<1>5. v \in db.versions /\ v.sid = db.secrets[n].sid
  BY <1>4 DEF VersionsOf
<1>6. db.secrets[n].sid # 0
  <2>1. PICK m \in Name : Owns(db, m, v)
    BY <1>1, <1>5 DEF SecretsInv, Numbered
  <2> QED
    BY <1>5, <2>1 DEF Owns
<1>7. PICK w \in db'.versions :
        w.sid = v.sid /\ w.version = v.version /\ w.payload = v.payload
  BY <1>1, <1>5, VersionsPersist
<1>8. db'.secrets[n].sid = db.secrets[n].sid
  BY <1>1, <1>6, VersionsPersist
<1>9. w \in VersionsOf(db', n)
  BY <1>5, <1>7, <1>8 DEF VersionsOf
<1>10. PayloadIn(db', n, w.version) = w.payload
  BY <1>1, <1>9, PayloadIs
<1>11. PayloadIn(db, n, v.version) = v.payload
  BY <1>1, <1>4, PayloadIs
<1> QED
  BY <1>2, <1>3, <1>4, <1>7, <1>10, <1>11

LEMMA SameHistory ==
  ASSUME VaultInv, Inv', NEW t \in Task, Commit(t), NEW n \in Name,
         db'.secrets[n].current = db.secrets[n].current
  PROVE  HistoryOf(db')[n] = HistoryOf(db)[n]
<1> DEFINE cur == db.secrets[n].current
           old == HistoryOf(db)[n]
           new == HistoryOf(db')[n]
<1>1. /\ db \in Database /\ SecretsInv(db)
      /\ db' \in Database /\ SecretsInv(db')
  BY CommitShape
<1>2. /\ cur \in Nat /\ old \in Seq(Task) /\ Len(old) = cur
  BY <1>1, HistoryFacts
<1>3. /\ new \in Seq(Task) /\ Len(new) = cur
  BY <1>1, HistoryFacts
<1>4. \A k \in 1 .. cur : new[k] = old[k]
  BY <1>2, HistoryKept
<1> HIDE DEF cur, old, new
<1> QED
  BY <1>2, <1>3, <1>4, SameSequence DEF old, new

\* Histories are functions on the names: they are told apart by name.
LEMMA HistoryIs ==
  ASSUME NEW d, NEW h, h = [n \in Name |-> h[n]],
         \A n \in Name : HistoryOf(d)[n] = h[n]
  PROVE  HistoryOf(d) = h
<1>1. HistoryOf(d) = [n \in Name |-> HistoryOf(d)[n]]
  BY DEF HistoryOf
<1> QED
  BY <1>1

\* A creation starts the history of its name, an update adds to it, a deletion
\* marks it; nothing else that commits touches either.
LEMMA HistoryStep ==
  ASSUME VaultInv, Inv', NEW t \in Task, Commit(t)
  PROVE  LET n == call[t].name
         IN  /\ call[t].op = "create" =>
                  /\ HistoryOf(db') = [HistoryOf(db) EXCEPT ![n] = <<t>>]
                  /\ DeletedIn(db') = DeletedIn(db)
             /\ call[t].op = "update" =>
                  /\ HistoryOf(db') = [HistoryOf(db) EXCEPT ![n] = Append(@, t)]
                  /\ DeletedIn(db') = DeletedIn(db)
             /\ call[t].op = "delete" =>
                  /\ HistoryOf(db') = HistoryOf(db)
                  /\ DeletedIn(db') = DeletedIn(db) \cup {n}
             /\ call[t].op \notin { "create", "update", "delete" } =>
                  /\ HistoryOf(db') = HistoryOf(db)
                  /\ DeletedIn(db') = DeletedIn(db)
<1> DEFINE n == call[t].name
           H == HistoryOf(db)
<1>1. /\ TypeOK /\ db \in Database /\ SecretsInv(db)
      /\ db' \in Database /\ SecretsInv(db')
      /\ call[t] \in Calls /\ Permitted(t)
      /\ db'.secrets = Edited(t).secrets
      /\ db'.versions = Edited(t).versions
  BY CommitShape
<1>2. /\ H = [m \in Name |-> H[m]]
      /\ call[t].op \in OnName => n \in Name
  BY <1>1, CallSound DEF HistoryOf
<1>3. \A m \in Name : db.secrets[m] \in SecretRow /\ db.secrets[m].current \in Nat
  BY <1>1 DEF Database, SecretRow
<1>4. ASSUME NEW m \in Name,
             call[t].op \notin { "create", "update", "delete" } \/ m # n
      PROVE  /\ db'.secrets[m].deleted = db.secrets[m].deleted
             /\ HistoryOf(db')[m] = H[m]
  <2>1. Edited(t).secrets[m] = db.secrets[m]
    BY <1>1, <1>4, EditedRow
  <2>2. db'.secrets[m] = db.secrets[m]
    BY <1>1, <2>1
  <2> QED
    BY <2>2, SameHistory
<1>5. ASSUME NEW ver \in Nat, n \in Name, db'.secrets[n].current = ver,
             call[t].op \in { "create", "update" }
      PROVE  /\ HistoryOf(db')[n] \in Seq(Task) /\ Len(HistoryOf(db')[n]) = ver
             /\ ver # 0 => HistoryOf(db')[n][ver] = t
  <2>1. PICK w \in VersionsOf(Edited(t), n) :
          w.version = Edited(t).secrets[n].current /\ w.payload = t
    BY <1>1, <1>5, VersionsPersist
  <2>2. w \in VersionsOf(db', n) /\ w.version = ver
    BY <1>1, <1>5, <2>1 DEF VersionsOf
  <2>3. PayloadIn(db', n, ver) = t
    BY <1>1, <1>5, <2>1, <2>2, PayloadIs
  <2>4. /\ HistoryOf(db')[n] \in Seq(Task) /\ Len(HistoryOf(db')[n]) = ver
        /\ \A k \in 1 .. ver : HistoryOf(db')[n][k] = PayloadIn(db', n, k)
    BY <1>1, <1>5, HistoryFacts
  <2> QED
    BY <2>3, <2>4
<1>6. CASE call[t].op = "create"
  <2>1. n \in Name
    BY <1>2, <1>6 DEF OnName
  <2>2. Edited(t).secrets[n] = NewRow(db.secret_seq + 1)
    BY <1>1, <1>6, <2>1, EditedRow
  <2>3. db'.secrets[n].current = 1 /\ ~db'.secrets[n].deleted
    BY <1>1, <2>2 DEF NewRow
  <2>4. HistoryOf(db')[n] = <<t>>
    <3>1. 1 \in Nat /\ 1 # 0
      OBVIOUS
    <3>2. /\ HistoryOf(db')[n] \in Seq(Task) /\ Len(HistoryOf(db')[n]) = 1
          /\ HistoryOf(db')[n][1] = t
      BY <1>5, <1>6, <2>1, <2>3, <3>1
    <3> QED
      BY <3>2
  <2>5. ~db.secrets[n].deleted
    BY <1>1, <1>6, <2>1 DEF Permitted, SecretsInv, Identified
  <2>6. \A m \in Name : HistoryOf(db')[m] = [H EXCEPT ![n] = <<t>>][m]
    BY <1>2, <1>4, <2>4
  <2>7. [H EXCEPT ![n] = <<t>>] = [m \in Name |-> [H EXCEPT ![n] = <<t>>][m]]
    BY <1>2
  <2>8. HistoryOf(db') = [H EXCEPT ![n] = <<t>>]
    BY <2>6, <2>7, HistoryIs
  <2>9. DeletedIn(db') = DeletedIn(db)
    BY <1>4, <2>3, <2>5 DEF DeletedIn
  <2> QED
    BY <1>6, <2>8, <2>9
<1>7. CASE call[t].op = "update"
  <2> DEFINE cur == db.secrets[n].current
  <2>1. n \in Name /\ cur \in Nat /\ cur + 1 \in Nat
    BY <1>2, <1>3, <1>7 DEF OnName
  <2>2. Edited(t).secrets[n] = [db.secrets[n] EXCEPT !.current = cur + 1]
    BY <1>1, <1>7, <2>1, EditedRow
  <2>3. /\ db'.secrets[n].current = cur + 1
        /\ db'.secrets[n].deleted = db.secrets[n].deleted
    BY <1>1, <1>3, <2>1, <2>2 DEF SecretRow
  <2>4. HistoryOf(db')[n] = Append(H[n], t)
    <3>1. /\ HistoryOf(db')[n] \in Seq(Task) /\ Len(HistoryOf(db')[n]) = cur + 1
          /\ HistoryOf(db')[n][cur + 1] = t
      BY <1>5, <1>7, <2>1, <2>3
    <3>2. H[n] \in Seq(Task) /\ Len(H[n]) = cur
      BY <1>1, <2>1, HistoryFacts
    <3>3. \A k \in 1 .. cur : k <= cur + 1
      BY <2>1
    <3>4. \A k \in 1 .. cur : HistoryOf(db')[n][k] = H[n][k]
      BY <2>1, <2>3, <3>3, HistoryKept
    <3> HIDE DEF H, cur, n
    <3> DEFINE r == HistoryOf(db')[n]
               s == Append(H[n], t)
    <3>5. s \in Seq(Task) /\ Len(s) = cur + 1 /\ s[cur + 1] = t
          /\ \A k \in 1 .. cur : s[k] = H[n][k]
      BY <2>1, <3>2
    <3> HIDE DEF s
    <3>6. \A k \in 1 .. cur + 1 : k \in 1 .. cur \/ k = cur + 1
      BY <2>1
    <3>7. \A k \in 1 .. cur + 1 : r[k] = s[k]
      BY <3>1, <3>4, <3>5, <3>6
    <3>8. r = s
      BY <3>1, <3>5, <3>7, SameSequence
    <3> QED
      BY <3>8 DEF s
  <2>5. \A m \in Name : HistoryOf(db')[m] = [H EXCEPT ![n] = Append(@, t)][m]
    BY <1>2, <1>4, <2>4
  <2>6. [H EXCEPT ![n] = Append(@, t)] = [m \in Name |-> [H EXCEPT ![n] = Append(@, t)][m]]
    BY <1>2
  <2>7. HistoryOf(db') = [H EXCEPT ![n] = Append(@, t)]
    BY <2>5, <2>6, HistoryIs
  <2>8. DeletedIn(db') = DeletedIn(db)
    BY <1>4, <2>3 DEF DeletedIn
  <2> QED
    BY <1>7, <2>7, <2>8
<1>8. CASE call[t].op = "delete"
  <2>1. n \in Name
    BY <1>2, <1>8 DEF OnName
  <2>2. Edited(t).secrets[n] = [db.secrets[n] EXCEPT !.deleted = TRUE]
    BY <1>1, <1>8, <2>1, EditedRow
  <2>3. /\ db'.secrets[n].current = db.secrets[n].current
        /\ db'.secrets[n].deleted
    BY <1>1, <1>3, <2>1, <2>2 DEF SecretRow
  <2>4. HistoryOf(db')[n] = H[n]
    BY <2>1, <2>3, SameHistory
  <2>5. HistoryOf(db') = H
    BY <1>2, <1>4, <2>4, HistoryIs
  <2>6. DeletedIn(db') = DeletedIn(db) \cup {n}
    BY <1>4, <2>1, <2>3 DEF DeletedIn
  <2> QED
    BY <1>8, <2>5, <2>6
<1>9. CASE call[t].op \notin { "create", "update", "delete" }
  <2>1. HistoryOf(db') = H
    BY <1>2, <1>4, <1>9, HistoryIs
  <2>2. DeletedIn(db') = DeletedIn(db)
    BY <1>4, <1>9 DEF DeletedIn
  <2> QED
    BY <1>9, <2>1, <2>2
<1> QED
  BY <1>6, <1>7, <1>8, <1>9

\* What the call of t tells and logs as it commits.
Does(t, op, name, result) ==
  /\ Ledger!Asks(t, op)
  /\ Told' = [Told EXCEPT ![t] = result]
  /\ LogOf(db') = Append(LogOf(db), [ by |-> t, action |-> call[t].op, name |-> name ])
  /\ call' = call

SameSecrets == HistoryOf(db') = HistoryOf(db) /\ DeletedIn(db') = DeletedIn(db)

\* The ledger's steps, in the words of the store.
LEMMA CreateShown ==
  ASSUME NEW t \in Task
  PROVE  /\ HistoryOf(db)[call[t].name] = << >>
         /\ HistoryOf(db') = [HistoryOf(db) EXCEPT ![call[t].name] = <<t>>]
         /\ DeletedIn(db') = DeletedIn(db)
         /\ Does(t, "create", call[t].name, Ledger!Result("ok", 1, None, {}))
         => Ledger!Create(t)
BY DEF Does, Ledger!Create, Ledger!Answer, Ledger!Logged, Told,
       HistoryOf, DeletedIn, LogOf, PayloadIn, PayloadOf

LEMMA UpdateShown ==
  ASSUME NEW t \in Task
  PROVE  /\ Ledger!Agrees(t)
         /\ HistoryOf(db') = [HistoryOf(db) EXCEPT ![call[t].name] = Append(@, t)]
         /\ DeletedIn(db') = DeletedIn(db)
         /\ Does(t, "update", call[t].name, Ledger!Result("ok", call[t].expected + 1, None, {}))
         => Ledger!Update(t)
BY DEF Does, Ledger!Update, Ledger!Answer, Ledger!Logged, Told,
       HistoryOf, DeletedIn, LogOf, PayloadIn, PayloadOf

LEMMA DeleteShown ==
  ASSUME NEW t \in Task
  PROVE  /\ Ledger!Agrees(t)
         /\ HistoryOf(db') = HistoryOf(db)
         /\ DeletedIn(db') = DeletedIn(db) \cup {call[t].name}
         /\ Does(t, "delete", call[t].name, Ledger!Result("ok", call[t].expected, None, {}))
         => Ledger!Delete(t)
BY DEF Does, Ledger!Delete, Ledger!Answer, Ledger!Logged, Told,
       HistoryOf, DeletedIn, LogOf, PayloadIn, PayloadOf

LEMMA GetShown ==
  ASSUME NEW t \in Task
  PROVE  /\ Ledger!Live(call[t].name)
         /\ SameSecrets
         /\ Does(t, "get", call[t].name,
               Ledger!Result("ok", Ledger!Version(call[t].name),
                 HistoryOf(db)[call[t].name][Ledger!Version(call[t].name)], {}))
         => Ledger!Get(t)
BY DEF Does, SameSecrets, Ledger!Get, Ledger!Answer, Ledger!Logged, Told,
       HistoryOf, DeletedIn, LogOf, PayloadIn, PayloadOf

LEMMA ListVersionsShown ==
  ASSUME NEW t \in Task
  PROVE  /\ Ledger!Live(call[t].name)
         /\ SameSecrets
         /\ Does(t, "list_versions", call[t].name,
               Ledger!Result("ok", 0, None,
                 {call[t].name} \X (1 .. Ledger!Version(call[t].name))))
         => Ledger!ListVersions(t)
BY DEF Does, SameSecrets, Ledger!ListVersions, Ledger!Answer, Ledger!Logged, Told,
       HistoryOf, DeletedIn, LogOf, PayloadIn, PayloadOf

LEMMA ListMetadataShown ==
  ASSUME NEW t \in Task
  PROVE  /\ SameSecrets
         /\ Does(t, "list_metadata", None,
               Ledger!Result("ok", 0, None,
                 { <<m, Ledger!Version(m)>> : m \in { x \in Name : Ledger!Live(x) } }))
         => Ledger!ListMetadata(t)
BY DEF Does, SameSecrets, Ledger!ListMetadata, Ledger!Answer, Ledger!Logged, Told,
       HistoryOf, DeletedIn, LogOf, PayloadIn, PayloadOf

LEMMA RekeyAllShown ==
  ASSUME NEW t \in Task
  PROVE  /\ SameSecrets
         /\ Does(t, "rekey_all", None, Ledger!Result("ok", 0, None, {}))
         => Ledger!RekeyAll(t)
BY DEF Does, SameSecrets, Ledger!RekeyAll, Ledger!Answer, Ledger!Logged, Told,
       HistoryOf, DeletedIn, LogOf, PayloadIn, PayloadOf

LEMMA RecordSecurityEventShown ==
  ASSUME NEW t \in Task
  PROVE  /\ SameSecrets
         /\ Does(t, "record_security_event", None, Ledger!Result("ok", 0, None, {}))
         => Ledger!RecordSecurityEvent(t)
BY DEF Does, SameSecrets, Ledger!RecordSecurityEvent, Ledger!Answer, Ledger!Logged, Told,
       HistoryOf, DeletedIn, LogOf, PayloadIn, PayloadOf

\* A call that commits takes effect in the ledger, with its event and its
\* answer, at once.
LEMMA CommitSimulated ==
  ASSUME VaultInv, Inv', NEW t \in Task, Commit(t)
  PROVE  Ledger!Next
<1> DEFINE n == call[t].name
           cur == db.secrets[n].current
<1>1. /\ TypeOK /\ db \in Database /\ SecretsInv(db)
      /\ db' \in Database /\ SecretsInv(db')
      /\ call[t] \in Calls /\ Permitted(t) /\ Returns(t, answer[t])
      /\ LogOf(db') = Append(LogOf(db), [ by |-> t, action |-> call[t].op,
                                          name |-> NameOf(t) ])
      /\ Told[t] = NoAnswer /\ Told' = [Told EXCEPT ![t] = answer[t]]
      /\ call' = call
  BY CommitShape
<1>2. Told[t] = Ledger!NoAnswer
  BY <1>1, LedgerWords
<1>4. /\ call[t].op \in OnName => n \in Name /\ NameOf(t) = n
      /\ call[t].op \notin OnName => NameOf(t) = None
  BY <1>1, CallSound DEF NameOf
<1>5. CASE call[t].op = "create"
  <2>1. /\ HistoryOf(db') = [HistoryOf(db) EXCEPT ![n] = <<t>>]
        /\ DeletedIn(db') = DeletedIn(db)
    BY <1>5, HistoryStep
  <2>2. n \in Name /\ NameOf(t) = n
    BY <1>4, <1>5 DEF OnName
  <2>3. HistoryOf(db)[n] = << >>
    BY <1>1, <1>5, <2>2, HistoryFacts DEF Permitted
  <2>4. answer[t] = Result("ok", 1, None, {})
    BY <1>1, <1>5 DEF Returns
  <2>5. Does(t, "create", n, Ledger!Result("ok", 1, None, {}))
    BY <1>1, <1>2, <1>5, <2>2, <2>4, LedgerWords DEF Does, Result, Ledger!Result
  <2> QED
    BY <1>5, <2>1, <2>3, <2>5, CreateShown DEF Ledger!Next
<1>6. CASE call[t].op = "update"
  <2>1. /\ HistoryOf(db') = [HistoryOf(db) EXCEPT ![n] = Append(@, t)]
        /\ DeletedIn(db') = DeletedIn(db)
    BY <1>6, HistoryStep
  <2>2. n \in Name /\ NameOf(t) = n
    BY <1>4, <1>6 DEF OnName
  <2>3. Live(db, n) /\ cur = call[t].expected
    BY <1>1, <1>6 DEF Permitted, VersionAgrees
  <2>4. Ledger!Agrees(t)
    BY <2>2, <2>3, LedgerLive DEF Ledger!Agrees
  <2>5. answer[t] = Result("ok", call[t].expected + 1, None, {})
    BY <1>1, <1>6, <2>3 DEF Returns
  <2>6. Does(t, "update", n, Ledger!Result("ok", call[t].expected + 1, None, {}))
    BY <1>1, <1>2, <1>6, <2>2, <2>5, LedgerWords DEF Does, Result, Ledger!Result
  <2> QED
    BY <1>6, <2>1, <2>4, <2>6, UpdateShown DEF Ledger!Next
<1>7. CASE call[t].op = "delete"
  <2>1. /\ HistoryOf(db') = HistoryOf(db)
        /\ DeletedIn(db') = DeletedIn(db) \cup {n}
    BY <1>7, HistoryStep
  <2>2. n \in Name /\ NameOf(t) = n
    BY <1>4, <1>7 DEF OnName
  <2>3. Live(db, n) /\ cur = call[t].expected
    BY <1>1, <1>7 DEF Permitted, VersionAgrees
  <2>4. Ledger!Agrees(t)
    BY <2>2, <2>3, LedgerLive DEF Ledger!Agrees
  <2>5. answer[t] = Result("ok", call[t].expected, None, {})
    BY <1>1, <1>7, <2>3 DEF Returns
  <2>6. Does(t, "delete", n, Ledger!Result("ok", call[t].expected, None, {}))
    BY <1>1, <1>2, <1>7, <2>2, <2>5, LedgerWords DEF Does, Result, Ledger!Result
  <2> QED
    BY <1>7, <2>1, <2>4, <2>6, DeleteShown DEF Ledger!Next
<1>8. call[t].op \notin { "create", "update", "delete" } =>
        HistoryOf(db') = HistoryOf(db) /\ DeletedIn(db') = DeletedIn(db)
  BY HistoryStep
<1>9. CASE call[t].op = "get"
  <2>1. /\ n \in Name /\ NameOf(t) = n /\ Live(db, n)
        /\ HistoryOf(db') = HistoryOf(db) /\ DeletedIn(db') = DeletedIn(db)
    BY <1>1, <1>4, <1>8, <1>9 DEF OnName, Permitted
  <2>2. Ledger!Live(n) /\ Ledger!Version(n) = cur
    BY <2>1, LedgerLive
  <2>3. PICK v \in CurrentRows(db, n) : answer[t] = Result("ok", v.version, v.payload, {})
    BY <1>1, <1>9 DEF Returns
  <2>4. v \in VersionsOf(db, n) /\ v.version = cur
    BY <2>3 DEF CurrentRows
  <2>5. HistoryOf(db)[n][cur] = v.payload
    <3>1. cur \in 1 .. cur
      <4>1. cur \in Nat /\ cur # 0
        BY <1>1, <2>1 DEF Database, SecretRow, SecretsInv, Identified, Live
      <4> QED
        BY <4>1
    <3>2. HistoryOf(db)[n][cur] = PayloadIn(db, n, cur)
      BY <1>1, <2>1, <3>1, HistoryFacts
    <3>3. PayloadIn(db, n, v.version) = v.payload
      BY <1>1, <2>1, <2>4, PayloadIs
    <3> QED
      BY <2>4, <3>2, <3>3
  <2>6. answer[t] = Result("ok", Ledger!Version(n),
                           HistoryOf(db)[n][Ledger!Version(n)], {})
    BY <2>2, <2>3, <2>4, <2>5
  <2>7. Does(t, "get", n, Ledger!Result("ok", Ledger!Version(n),
                                       HistoryOf(db)[n][Ledger!Version(n)], {}))
    BY <1>1, <1>2, <1>9, <2>1, <2>6, LedgerWords DEF Does, Result, Ledger!Result
  <2> QED
    BY <1>9, <2>1, <2>2, <2>7, GetShown DEF SameSecrets, Ledger!Next
<1>10. CASE call[t].op = "list_versions"
  <2>1. /\ n \in Name /\ NameOf(t) = n /\ Live(db, n)
        /\ HistoryOf(db') = HistoryOf(db) /\ DeletedIn(db') = DeletedIn(db)
    BY <1>1, <1>4, <1>8, <1>10 DEF OnName, Permitted
  <2>2. Ledger!Live(n) /\ Ledger!Version(n) = cur
    BY <2>1, LedgerLive
  <2>3. answer[t] = Result("ok", 0, None, { <<n, v.version>> : v \in VersionsOf(db, n) })
    BY <1>1, <1>10 DEF Returns
  <2>4. { v.version : v \in VersionsOf(db, n) } = 1 .. cur
    BY <1>1, <2>1, VersionsCounted
  <2>5. { <<n, v.version>> : v \in VersionsOf(db, n) } = {n} \X (1 .. cur)
    <3> HIDE DEF cur, n
    <3> QED
      BY <2>4
  <2>6. answer[t] = Result("ok", 0, None, {n} \X (1 .. Ledger!Version(n)))
    BY <2>2, <2>3, <2>5
  <2>7. Does(t, "list_versions", n, Ledger!Result("ok", 0, None, {n} \X (1 .. Ledger!Version(n))))
    BY <1>1, <1>2, <1>10, <2>1, <2>6, LedgerWords DEF Does, Result, Ledger!Result
  <2> QED
    BY <1>10, <2>1, <2>2, <2>7, ListVersionsShown DEF SameSecrets, Ledger!Next
<1>11. CASE call[t].op = "list_metadata"
  <2> DEFINE listed == { <<m, db.secrets[m].current>> :
                           m \in { x \in Name : Live(db, x) /\ CurrentRows(db, x) # {} } }
             told   == { <<m, Ledger!Version(m)>> : m \in { x \in Name : Ledger!Live(x) } }
  <2>1. /\ NameOf(t) = None
        /\ HistoryOf(db') = HistoryOf(db) /\ DeletedIn(db') = DeletedIn(db)
    BY <1>4, <1>8, <1>11 DEF OnName
  <2>2. answer[t] = Result("ok", 0, None, listed)
    BY <1>1, <1>11 DEF Returns
  <2>3. \A x \in Name : /\ Live(db, x) /\ CurrentRows(db, x) # {} <=> Ledger!Live(x)
                        /\ Ledger!Version(x) = db.secrets[x].current
    BY <1>1, LiveIsFound, LedgerLive
  <2>4. listed = told
    BY <2>3
  <2>5. answer[t] = Result("ok", 0, None, told)
    BY <2>2, <2>4
  <2> HIDE DEF listed, told
  <2>6. Does(t, "list_metadata", None, Ledger!Result("ok", 0, None, told))
    BY <1>1, <1>2, <1>11, <2>1, <2>5, LedgerWords DEF Does, Result, Ledger!Result
  <2> QED
    BY <1>11, <2>1, <2>6, ListMetadataShown DEF SameSecrets, told, Ledger!Next
<1>12. CASE call[t].op \in { "rekey_all", "record_security_event" }
  <2>1. /\ NameOf(t) = None
        /\ HistoryOf(db') = HistoryOf(db) /\ DeletedIn(db') = DeletedIn(db)
    BY <1>4, <1>8, <1>12 DEF OnName
  <2>2. answer[t] = Result("ok", 0, None, {})
    BY <1>1, <1>12 DEF Returns
  <2>3. Does(t, call[t].op, None, Ledger!Result("ok", 0, None, {}))
    BY <1>1, <1>2, <1>12, <2>1, <2>2, LedgerWords DEF Does, Result, Ledger!Result
  <2> QED
    BY <1>12, <2>1, <2>3, RekeyAllShown, RecordSecurityEventShown DEF SameSecrets, Ledger!Next
<1>13. call[t].op \in Op \ Verification
  <2>1. pc[t] = "commit" /\ Placed(t)
    BY DEF Commit, VaultInv, DataInv, CallsPlaced
  <2> QED
    BY <1>1, <2>1, CallSound DEF Placed
<1> QED
  BY <1>5, <1>6, <1>7, <1>9, <1>10, <1>11, <1>12, <1>13 DEF Op, Verification

-----------------------------------------------------------------------------
(* Every step, as the ledger sees it *)

\* A call that is turned away, or fails, tells the truth and leaves no trace.
LEMMA DeclineSimulated ==
  ASSUME VaultInv, NEW t \in Task, pc[t] # "done", call[t] \in Calls, NEW status,
         Refusable(t, status), Finish(t, Result(status, 0, None, {})),
         UNCHANGED <<db, call>>
  PROVE  Ledger!Next
<1>1. Answers(t, Result(status, 0, None, {}))
  BY DEF Answers
<1>2. CASE status \in { "crypto", "error" }
  BY <1>1, <1>2, FailSimulated DEF Ledger!Next
<1>3. CASE status \in { "not_found", "conflict" }
  BY <1>1, <1>3, RefuseSimulated DEF Ledger!Next
<1> QED
  BY <1>2, <1>3 DEF Refusable

\* A step of the task t that answers nothing and commits nothing.
LEMMA QuietStutter ==
  ASSUME TypeOK, NEW t \in Task, NEW stage \in Stage \ {"done"}, pc[t] # "done",
         pc' = [pc EXCEPT ![t] = stage], UNCHANGED <<db, call>>,
         \A u \in Task : u # t => answer'[u] = answer[u]
  PROVE  UNCHANGED Ledger!vars
<1>1. SameData
  BY DEF SameData
<1>2. \A u \in Task : pc'[u] = "done" <=> pc[u] = "done"
  BY DEF TypeOK
<1> QED
  BY <1>1, <1>2, LedgerStutter

LEMMA ArriveSimulated ==
  ASSUME VaultInv, NEW t \in Task, Arrive(t)
  PROVE  Ledger!Next
<1>1. /\ TypeOK /\ Placed(t)
      /\ pc[t] = "idle" /\ UNCHANGED <<db, answer>>
  BY DEF Arrive, VaultInv, Inv, DataInv, CallsPlaced
<1>2. PICK c \in Calls : /\ call' = [call EXCEPT ![t] = c]
                         /\ pc' = [pc EXCEPT ![t] = FirstStage(c.op)]
  BY DEF Arrive
<1>3. call[t] = NoCall
  BY <1>1 DEF Placed
<1>4. SameData
  BY <1>1 DEF SameData
<1>5. \A u \in Task : pc'[u] = "done" <=> pc[u] = "done"
  BY <1>1, <1>2 DEF TypeOK, FirstStage
<1>6. Told' = Told
  BY <1>1, <1>5, ToldSame
<1>7. UNCHANGED <<HistoryOf(db), DeletedIn(db), LogOf(db), Told>>
  BY <1>4, <1>6, LedgerSame
<1>8. Ledger!Invoke(t)
  BY <1>2, <1>3, <1>7
  DEF Ledger!Invoke, Told, HistoryOf, DeletedIn, LogOf, PayloadIn, PayloadOf
<1> QED
  BY <1>8 DEF Ledger!Next

LEMMA TransactionSimulated ==
  ASSUME VaultInv, NEW t \in Task,
         CheckTarget(t) \/ Begin(t) \/ Busy(t) \/ Execute(t) \/ CommitFails(t)
  PROVE  Ledger!Next \/ UNCHANGED Ledger!vars
<1>1. /\ TypeOK /\ Placed(t)
      /\ pc[t] \in { "target", "begin", "execute", "commit" }
  BY DEF CheckTarget, Begin, Busy, Execute, Executing, Create, Update, Delete, Get,
         ListMetadata, ListVersions, RekeyAll, RecordSecurityEvent, CommitFails,
         VaultInv, Inv, DataInv, CallsPlaced
<1>2. call[t] \in Calls /\ pc[t] # "done"
  BY <1>1 DEF Placed
<1>3. CASE CheckTarget(t)
  <2>1. UNCHANGED <<db, call>>
    BY <1>3 DEF CheckTarget
  <2>2. CASE pc' = [pc EXCEPT ![t] = "begin"] /\ UNCHANGED answer
    BY <1>1, <1>2, <2>1, <2>2, QuietStutter DEF Stage, Waiting
  <2>3. ASSUME NEW status \in { "not_found", "conflict" },
               Finish(t, Result(status, 0, None, {}))
        PROVE  Ledger!Next
    <3>1. Answers(t, Result(status, 0, None, {}))
      BY <1>2, <2>1, <2>3 DEF Answers
    <3>2. call[t].op = "rekey_all"
      BY <1>1, <1>3 DEF CheckTarget, Placed
    <3> QED
      BY <3>1, <3>2, RefuseSimulated DEF Ledger!Next
  <2> QED
    BY <1>3, <2>2, <2>3 DEF CheckTarget
<1>4. CASE Begin(t)
  BY <1>1, <1>2, <1>4, QuietStutter DEF Begin, Stage, Waiting
<1>5. CASE Busy(t)
  BY <1>2, <1>5, DeclineSimulated DEF Busy, Refusable
<1>6. CASE Execute(t)
  <2>1. CASE Declines(t)
    BY <1>2, <2>1, DeclineSimulated DEF Declines, Rollback
  <2>2. CASE Prepares(t)
    <3>1. \A u \in Task : u # t => answer'[u] = answer[u]
      BY <1>1, <2>2 DEF Prepares
    <3> QED
      BY <1>1, <1>2, <2>2, <3>1, QuietStutter DEF Prepares, Stage, Waiting
  <2> QED
    BY <1>1, <1>2, <1>6, <2>1, <2>2, ExecuteOutcome
<1>7. CASE CommitFails(t)
  BY <1>2, <1>7, DeclineSimulated DEF CommitFails, Reject, Rollback, Refusable
<1> QED
  BY <1>3, <1>4, <1>5, <1>6, <1>7

LEMMA VerificationSimulated ==
  ASSUME VaultInv, NEW t \in Task, ReadRows(t) \/ ReadAnchor(t) \/ ReadTail(t)
  PROVE  Ledger!Next \/ UNCHANGED Ledger!vars
<1> DEFINE k == Len(db.events)
<1>1. /\ TypeOK /\ Placed(t) /\ SeenOf(t) /\ EventsNumbered
      /\ pc[t] \in { "rows", "anchor", "tail" }
      /\ UNCHANGED <<db, call>> /\ db \in Database
      /\ db.events \in Seq(EventRow) /\ k \in Nat /\ seen[t] \in Seen
  BY DEF ReadRows, ReadAnchor, ReadTail, unread, VaultInv, Inv, TypeOK, Database,
         JournalInv, DataInv, CallsPlaced, SeenThere
<1>2. call[t] \in Calls /\ pc[t] # "done" /\ call[t].op \in Verification
  BY <1>1 DEF Placed, Verification
<1>3. k \in 0 .. k /\ seen[t].events \in 0 .. k
  BY <1>1 DEF SeenOf, Seen
<1>4. TailId(db) = k /\ TailHash(db) \in Task \cup {None}
  BY <1>1, TailOfLog DEF EventsNumbered
<1>5. CASE ReadRows(t)
  <2>1. CASE pc' = [pc EXCEPT ![t] = "anchor"] /\ UNCHANGED answer
    BY <1>1, <1>2, <2>1, QuietStutter DEF Stage, Waiting
  <2>2. CASE Finish(t, Result("invalid", k, None, {}))
    BY <1>1, <1>2, <1>3, <2>2, InvalidSimulated DEF Answers, Ledger!Next
  <2> QED
    BY <1>5, <2>1, <2>2 DEF ReadRows
<1>6. CASE ReadAnchor(t)
  <2>1. CASE pc' = [pc EXCEPT ![t] = "tail"] /\ UNCHANGED answer
    BY <1>1, <1>2, <2>1, QuietStutter DEF Stage, Waiting
  <2>2. CASE Finish(t, Result("invalid", seen[t].events, None, {}))
    BY <1>1, <1>2, <1>3, <2>2, InvalidSimulated DEF Answers, Ledger!Next
  <2> QED
    BY <1>6, <2>1, <2>2 DEF ReadAnchor
<1>7. CASE ReadTail(t)
  <2>1. /\ Reported(t) \in 0 .. k
        /\ call[t].op = "verify_audit_checkpoint" => Reported(t) = k
    BY <1>3, <1>4 DEF Reported
  <2>2. CASE Matches(seen[t].line, db)
    <3>1. Answers(t, Result("valid", Reported(t), TailHash(db), {}))
      BY <1>1, <1>2, <1>7, <2>2 DEF ReadTail, Answers
    <3> QED
      BY <1>2, <2>1, <3>1, VerifySimulated DEF Ledger!Next
  <2>3. CASE ~Matches(seen[t].line, db)
    <3>1. Answers(t, Result("invalid", Reported(t), TailHash(db), {}))
      BY <1>1, <1>2, <1>7, <2>3 DEF ReadTail, Answers
    <3> QED
      BY <1>2, <1>4, <2>1, <3>1, InvalidSimulated DEF Ledger!Next
  <2> QED
    BY <2>2, <2>3
<1> QED
  BY <1>5, <1>6, <1>7

LEMMA StepSimulated == VaultInv /\ VaultInv' /\ [Next]_vars => [Ledger!Next]_(Ledger!vars)
<1> SUFFICES ASSUME VaultInv, VaultInv', [Next]_vars
             PROVE  Ledger!Next \/ UNCHANGED Ledger!vars
  OBVIOUS
<1>1. Inv' /\ LinesKept
  BY NextInv, AnchorGrows DEF VaultInv
<1>2. CASE Bootstrap
  <2>1. SameData
    BY <1>1, <1>2, BootstrapKeeps
  <2>2. UNCHANGED <<pc, call, answer>>
    BY <1>2 DEF Bootstrap, Open, StartAnchor, StartAnchorFails, KeepAnchor, Admit, taskVars
  <2> QED
    BY <2>1, <2>2, LedgerStutter
<1>3. CASE Crash
  <2>1. SameData
    BY <1>3 DEF Crash, SameData
  <2>2. /\ call' = call
        /\ \A u \in Task : pc'[u] = "done" <=> pc[u] = "done"
        /\ \A u \in Task : pc[u] = "done" => answer'[u] = answer[u]
    BY <1>3 DEF Crash, Waiting
  <2> QED
    BY <2>1, <2>2, LedgerStutter
<1>4. CASE UNCHANGED vars
  BY <1>4, LedgerStutter DEF vars, SameData
<1>5. ASSUME NEW t \in Task, Arrive(t) \/ Step(t)
      PROVE  Ledger!Next \/ UNCHANGED Ledger!vars
  BY <1>1, <1>5, ArriveSimulated, TransactionSimulated, CommitSimulated,
     VerificationSimulated DEF Step
<1> QED
  BY <1>2, <1>3, <1>4, <1>5 DEF Next

LEMMA InitSimulated == Init => Ledger!Init
<1> SUFFICES ASSUME Init PROVE Ledger!Init
  OBVIOUS
<1>1. /\ db = EmptyDatabase /\ call = [t \in Task |-> NoCall]
      /\ \A t \in Task : pc[t] = "idle" /\ answer[t] = NoAnswer
      /\ db \in Database /\ SecretsInv(db)
  BY InitData DEF Init, VaultInv, Inv, TypeOK, DataInv
<1>2. HistoryOf(db) = [n \in Name |-> << >>]
  <2>1. \A n \in Name : HistoryOf(db)[n] = << >>
    BY <1>1, HistoryFacts DEF EmptyDatabase, NoSecret
  <2> QED
    BY <2>1 DEF HistoryOf
<1>3. DeletedIn(db) = {}
  BY <1>1 DEF DeletedIn, EmptyDatabase, NoSecret
<1>4. LogOf(db) = << >>
  <2>1. Len(LogOf(db)) = Len(db.events) /\ LogOf(db) \in Seq(LogRow)
    BY <1>1, LogFacts
  <2>2. db.events = << >>
    BY <1>1 DEF EmptyDatabase
  <2> QED
    BY <2>1, <2>2, EmptySeq
<1>5. Told = [t \in Task |-> Ledger!NoAnswer]
  BY <1>1 DEF Told, NoAnswer, Result, Ledger!NoAnswer, Ledger!Result
<1> QED
  BY <1>1, <1>2, <1>3, <1>4, <1>5
  DEF Ledger!Init, HistoryOf, DeletedIn, LogOf, Told, PayloadIn, PayloadOf

\* The store implements SecretLedger: to whoever calls it, every call happens
\* in one step, at its commit, with its event, or not at all.
THEOREM Implements == Spec => ImplementsLedger
BY InitSimulated, StepSimulated, DataInvariance, PTL DEF Spec, ImplementsLedger, Ledger!Spec

=============================================================================
