----------------------------- MODULE VaultStore -----------------------------
(***************************************************************************)
(* The storage engine of Echo Vault (src/echo_vault/store.py with the key  *)
(* ring of crypto.py): versioned, encrypted secrets and a hash-chained     *)
(* audit log in one SQLite database, and a signed append-only anchor file  *)
(* beside it.  Every mutating or reading operation of a secret is one      *)
(* BEGIN IMMEDIATE transaction that inserts an audit row and, BEFORE it    *)
(* commits, appends that row's signed record to the anchor file.           *)
(*                                                                         *)
(* The two stores share no transaction, so the interesting behaviours are  *)
(* the steps between them: a failed or short write of the anchor, a commit *)
(* that fails after the anchor has grown, a crash between the two, and     *)
(* the checkpoint, which reads the two stores one after the other without  *)
(* the lock.  All of them are always possible here; nothing bounds them    *)
(* but the number of tasks, each of which makes one call in its life.      *)
(*                                                                         *)
(* Abstractions                                                            *)
(*  - Name is the set of secret names of one namespace; tags, timestamps   *)
(*    and actors are left out.                                             *)
(*  - A task writes at most one payload and one audit row in its life, so  *)
(*    the payload it writes, the content of the row and the keyed hash of  *)
(*    the row (collision-free) are all named by the task.  None is the     *)
(*    all-zero hash that precedes the first event.                         *)
(*  - A ciphertext is the payload with the key and the associated data it  *)
(*    was sealed with; it opens only under both.                           *)
(*  - The nonce table is the business of Admission; its transaction meets  *)
(*    this one only at the write lock.                                     *)
(*  - Reading a file or a table does not fail by itself; writing may.      *)
(*  - A definition marked (slip) is used nowhere: it is the definition    *)
(*    after it as a plausible mistake would have it, and some property    *)
(*    fails when it takes that definition's place.                         *)
(*  - `rowcount != 1' after the guarded UPDATEs and the UNIQUE constraint  *)
(*    on (namespace, name) cannot fire under the write lock.               *)
(***************************************************************************)
EXTENDS Naturals, Sequences, FiniteSets

CONSTANTS
  Task,        \* requests; each makes one call of a VaultStore method
  Name,        \* the secret names of a namespace
  Key,         \* the encryption key identifiers an operator may configure
  DatabaseId,  \* the identities uuid4 may draw
  Calls,       \* the calls a task may make
  None         \* SQL NULL, the all-zero hash, no writer

Op == { "create", "update", "delete", "get", "list_metadata", "list_versions",
        "rekey_all", "record_security_event",
        "verify_audit_checkpoint", "verify_audit_chain" }

Call == [ op : Op, name : Name \cup {None},
          expected : Nat, key : Key \cup {None} ]

OnName   == { "create", "update", "delete", "get", "list_versions" }

\* models.py validates the request before the store sees it.
ASSUME CallsAssumption ==
  /\ Calls \subseteq Call
  /\ \A c \in Calls : /\ c.op \in OnName => c.name \in Name
                      /\ c.op = "rekey_all" => c.key \in Key

ASSUME NoneAssumption == None \notin Task \cup Name \cup Key \cup DatabaseId

VARIABLES
  db,      \* the committed contents of the SQLite database
  anchor,  \* the anchor file
  phase,   \* the process: down, bootstrapping or serving
  ring,    \* the key ring loaded at startup
  writer,  \* the task that holds SQLite's write lock, or None
  work,    \* the writer's uncommitted database, meaningful at "commit"
  pc,      \* where each task is
  call,    \* the call each task makes
  seen,    \* what a verification has read so far
  answer   \* what each call returned, or is about to return if it commits

vars == <<db, anchor, phase, ring, writer, work, pc, call, seen, answer>>

-----------------------------------------------------------------------------
(* The database *)

\* A row of `secrets'; sid = 0 stands for the absence of a row.
SecretRow  == [ sid : Nat, current : Nat, deleted : BOOLEAN ]
NoSecret   == [ sid |-> 0, current |-> 0, deleted |-> FALSE ]

Context    == [ sid : Nat, name : Name, version : Nat ]
VersionRow == [ sid : Nat, version : Nat, key : Key, payload : Task,
                aad : Context ]
EventRow   == [ id : Nat, action : Op, name : Name \cup {None},
                previous_hash : Task \cup {None}, entry_hash : Task ]

Database == [ id         : DatabaseId \cup {None},
              secret_seq : Nat,              \* AUTOINCREMENT of secrets
              audit_seq  : Nat,              \* AUTOINCREMENT of audit_events
              secrets    : [Name -> SecretRow],
              versions   : SUBSET VersionRow,
              events     : Seq(EventRow) ]   \* ORDER BY id

EmptyDatabase ==
  [ id |-> None, secret_seq |-> 0, audit_seq |-> 0,
    secrets |-> [n \in Name |-> NoSecret], versions |-> {}, events |-> << >> ]

\* (slip) `deleted_at IS NULL' left out.
LiveOrDeleted(d, n) == d.secrets[n].sid # 0

Live(d, n) == d.secrets[n].sid # 0 /\ ~d.secrets[n].deleted

VersionsOf(d, n) == { v \in d.versions : v.sid = d.secrets[n].sid }

\* The rows the JOIN on the current version finds for a live name.
CurrentRows(d, n) ==
  { v \in VersionsOf(d, n) : v.version = d.secrets[n].current }

TailId(d)   == IF d.events = << >> THEN 0 ELSE d.events[Len(d.events)].id
TailHash(d) == IF d.events = << >> THEN None
               ELSE d.events[Len(d.events)].entry_hash

-----------------------------------------------------------------------------
(* Sealing and opening a version under the loaded ring *)

Rings == { r \in [ active : Key, keys : SUBSET Key ] : r.active \in r.keys }

Seal(key, payload, sid, name, version) ==
  [ sid |-> sid, version |-> version, key |-> key, payload |-> payload,
    aad |-> [ sid |-> sid, name |-> name, version |-> version ] ]

Opens(v, sid, name, version) ==
  /\ v.key \in ring.keys
  /\ v.aad = [ sid |-> sid, name |-> name, version |-> version ]

-----------------------------------------------------------------------------
(* The anchor file: one signed record to a line.  How much of a record the *)
(* write left behind: all of it, all but the final newline (it still       *)
(* parses), or less.                                                       *)

Extent == { "whole", "unended", "torn" }
Line   == [ database_id : DatabaseId, event_id : Nat,
            entry_hash : Task \cup {None}, extent : Extent ]

AnchorFile == [ exists : BOOLEAN, lines : Seq(Line) ]
NoFile     == [ exists |-> FALSE, lines |-> << >> ]

\* (slip) The oldest record where the newest is meant.
FirstLine(a) == a.lines[1]

LastLine(a) == a.lines[Len(a.lines)]

\* _read_anchor returns a record rather than raising VaultCryptoError.
Readable(a) == a.exists /\ a.lines # << >> /\ LastLine(a).extent # "torn"

Record(id, event_id, hash) ==
  [ database_id |-> id, event_id |-> event_id, entry_hash |-> hash,
    extent |-> "whole" ]

\* (slip) O_TRUNC where O_APPEND is meant.
Truncated(a, record, extent) ==
  [ exists |-> TRUE, lines |-> <<[record EXCEPT !.extent = extent]>> ]

\* O_APPEND of the part `extent' of a record.  After a record that lacks its
\* newline the two run together on one line, which parses as neither.
Appended(a, record, extent) ==
  LET runsOn == a.lines # << >> /\ LastLine(a).extent = "unended"
      old    == IF runsOn
                THEN [ a.lines EXCEPT ![Len(a.lines)].extent = "torn" ]
                ELSE a.lines
  IN  [ exists |-> TRUE,
        lines  |-> Append(old, [ record EXCEPT
                     !.extent = IF runsOn THEN "torn" ELSE extent ]) ]

\* What the code can leave behind when it raises out of _append_anchor: the
\* file as it was (os.open or os.write failed), a part of the record, or all
\* of it (os.fsync failed, or the permission check after it).
Remnants(a, record) == {a} \cup { Appended(a, record, e) : e \in Extent }

\* (slip) The anchor's tail is not compared.
ContinuousAnyTail(a, d) == Readable(a) /\ LastLine(a).database_id = d.id

\* The test _append_anchor makes before it adds event TailId(d) + 1.
Continuous(a, d) ==
  /\ Readable(a)
  /\ LastLine(a).database_id = d.id
  /\ LastLine(a).event_id = TailId(d)
  /\ LastLine(a).entry_hash = TailHash(d)

\* The verdict of a checkpoint that read `line' and then the tail of d.
Matches(line, d) ==
  /\ line.database_id = d.id
  /\ line.event_id = TailId(d)
  /\ line.entry_hash = TailHash(d)

\* The chain as verify_audit_chain recomputes it.
ChainLinked(events) ==
  \A i \in DOMAIN events :
    /\ events[i].id = i
    /\ events[i].previous_hash =
         IF i = 1 THEN None ELSE events[i - 1].entry_hash

-----------------------------------------------------------------------------
(* Tasks *)

Status == { "none", "ok", "not_found", "conflict", "crypto", "error",
            "valid", "invalid" }
Answer == [ status : Status, n : Nat, value : Task \cup {None},
            rows : SUBSET (Name \X Nat) ]

Result(status, n, value, rows) ==
  [ status |-> status, n |-> n, value |-> value, rows |-> rows ]
NoAnswer == Result("none", 0, None, {})

\* The anchor record a verification holds, and the length of the log it read.
NoLine == [ database_id |-> None, event_id |-> 0, entry_hash |-> None,
            extent |-> "torn" ]
Seen   == [ line : Line \cup {NoLine}, events : Nat ]
NothingSeen == [ line |-> NoLine, events |-> 0 ]

NoCall == [ op |-> "none", name |-> None,
            expected |-> 0, key |-> None ]

Waiting   == { "target", "begin", "execute", "commit", "rows", "anchor", "tail" }
Stage     == Waiting \cup { "idle", "done", "lost" }

TypeOK ==
  /\ db \in Database
  /\ anchor \in AnchorFile
  /\ phase \in { "down", "opened", "anchored", "serving" }
  /\ ring \in Rings
  /\ writer \in Task \cup {None}
  /\ work \in Database
  /\ pc \in [Task -> Stage]
  /\ call \in [Task -> Calls \cup {NoCall}]
  /\ seen \in [Task -> Seen]
  /\ answer \in [Task -> Answer]

Init ==
  /\ db = EmptyDatabase
  /\ anchor = NoFile
  /\ phase = "down"
  /\ ring \in Rings
  /\ writer = None
  /\ work = EmptyDatabase
  /\ pc = [t \in Task |-> "idle"]
  /\ call = [t \in Task |-> NoCall]
  /\ seen = [t \in Task |-> NothingSeen]
  /\ answer = [t \in Task |-> NoAnswer]

-----------------------------------------------------------------------------
(* The process: startup (lifespan and bootstrap), and its end *)

taskVars == <<writer, work, pc, call, seen, answer>>

\* (slip) The insertion of the identity left out.
OpenNameless ==
  /\ phase = "down"
  /\ phase' = "opened"
  /\ ring' \in Rings
  /\ UNCHANGED <<db, anchor, taskVars>>

FreshIds == DatabaseId \ { anchor.lines[i].database_id : i \in DOMAIN anchor.lines }

\* KeyRing.load, the schema, and the identity of a new database.  The
\* operator may have edited the key file while the vault was down.
Open ==
  /\ phase = "down"
  /\ phase' = "opened"
  /\ ring' \in Rings
  /\ db' \in IF db.id = None THEN { [db EXCEPT !.id = id] : id \in FreshIds }
                             ELSE {db}
  /\ UNCHANGED <<anchor, taskVars>>

\* bootstrap starts the anchor of a database that has no event yet with a
\* genesis record, or as much of it as the write takes.
Genesis == Record(db.id, 0, None)

StartAnchor ==
  /\ phase = "opened"
  /\ ~anchor.exists
  /\ db.events = << >>
  /\ anchor' \in { Appended(anchor, Genesis, e) : e \in Extent }
  /\ phase' = "anchored"
  /\ UNCHANGED <<db, ring, taskVars>>

\* It may fail on the way, and may have created the file by then.
StartAnchorFails ==
  /\ phase = "opened"
  /\ ~anchor.exists
  /\ db.events = << >>
  /\ anchor' \in Remnants(anchor, Genesis) \cup { [exists |-> TRUE, lines |-> << >>] }
  /\ phase' = "down"
  /\ UNCHANGED <<db, ring, taskVars>>

\* With events and no anchor it refuses: RefuseAnchor of VaultCustody, where the
\* anchor can be lost.  The store by itself starts the anchor before any event.
KeepAnchor ==
  /\ phase = "opened"
  /\ anchor.exists
  /\ phase' = "anchored"
  /\ UNCHANGED <<db, anchor, ring, taskVars>>

\* What verify_audit_checkpoint finds when nothing moves between its reads.
CheckpointHolds(a, d) == Readable(a) /\ Matches(LastLine(a), d)

\* (slips) The verdict ignored; a log with no row taken for a bad one.
AdmitUnchecked ==
  /\ phase = "anchored"
  /\ phase' = "serving"
  /\ UNCHANGED <<db, anchor, ring, taskVars>>

AdmitNonEmpty ==
  /\ phase = "anchored"
  /\ phase' = IF CheckpointHolds(anchor, db) /\ db.events # << >>
              THEN "serving" ELSE "down"
  /\ UNCHANGED <<db, anchor, ring, taskVars>>

\* The last act of bootstrap: serve only if the checkpoint is valid.
Admit ==
  /\ phase = "anchored"
  /\ phase' = IF CheckpointHolds(anchor, db) THEN "serving" ELSE "down"
  /\ UNCHANGED <<db, anchor, ring, taskVars>>

\* The process dies at any point: what was not committed is gone, the anchor
\* file stays as it is.
Crash ==
  /\ phase # "down"
  /\ phase' = "down"
  /\ writer' = None
  /\ work' = EmptyDatabase
  /\ pc' = [t \in Task |-> IF pc[t] \in Waiting THEN "lost" ELSE pc[t]]
  /\ answer' = [t \in Task |-> IF pc[t] \in Waiting THEN NoAnswer ELSE answer[t]]
  /\ UNCHANGED <<db, anchor, ring, call, seen>>

-----------------------------------------------------------------------------
(* The life of a call *)

processVars == <<phase, ring>>

FirstStage(op) ==
  IF op = "verify_audit_chain" THEN "rows"
  ELSE IF op = "verify_audit_checkpoint" THEN "anchor"
  ELSE IF op = "rekey_all" THEN "target"
  ELSE "begin"

Finish(t, result) ==
  /\ pc' = [pc EXCEPT ![t] = "done"]
  /\ answer' = [answer EXCEPT ![t] = result]

Arrive(t) ==
  /\ phase = "serving"
  /\ pc[t] = "idle"
  /\ \E c \in Calls : /\ call' = [call EXCEPT ![t] = c]
                     /\ pc' = [pc EXCEPT ![t] = FirstStage(c.op)]
  /\ UNCHANGED <<db, anchor, processVars, writer, work, seen, answer>>

\* (slip) Any loaded target will do.
CheckTargetLoaded(t) ==
  /\ pc[t] = "target"
  /\ \/ /\ call[t].key \notin ring.keys
        /\ Finish(t, Result("not_found", 0, None, {}))
     \/ /\ call[t].key \in ring.keys
        /\ pc' = [pc EXCEPT ![t] = "begin"]
        /\ UNCHANGED answer
  /\ UNCHANGED <<db, anchor, processVars, writer, work, call, seen>>

\* rekey_all checks its target against the ring before it opens a connection.
CheckTarget(t) ==
  /\ pc[t] = "target"
  /\ LET target == call[t].key
     IN  \/ /\ target \notin ring.keys
            /\ Finish(t, Result("not_found", 0, None, {}))
         \/ /\ target \in ring.keys \ {ring.active}
            /\ Finish(t, Result("conflict", 0, None, {}))
         \/ /\ target = ring.active
            /\ pc' = [pc EXCEPT ![t] = "begin"]
            /\ UNCHANGED answer
  /\ UNCHANGED <<db, anchor, processVars, writer, work, call, seen>>

\* BEGIN IMMEDIATE takes the write lock, or gives up after the busy timeout.
Begin(t) ==
  /\ pc[t] = "begin"
  /\ writer = None
  /\ writer' = t
  /\ pc' = [pc EXCEPT ![t] = "execute"]
  /\ UNCHANGED <<db, anchor, processVars, work, call, seen, answer>>

Busy(t) ==
  /\ pc[t] = "begin"
  /\ writer # None
  /\ Finish(t, Result("error", 0, None, {}))
  /\ UNCHANGED <<db, anchor, processVars, writer, work, call, seen>>

\* The connection closes without a commit: an explicit rollback, or an
\* exception on its way out of _connection.
Rollback(t, status) ==
  /\ Finish(t, Result(status, 0, None, {}))
  /\ writer' = None
  /\ work' = EmptyDatabase
  /\ UNCHANGED <<db, processVars, call, seen>>

\* (slip) Raising past an open transaction on a connection that stays open.
RejectHolding(t, status) ==
  /\ Finish(t, Result(status, 0, None, {}))
  /\ UNCHANGED <<db, anchor, processVars, writer, work, call, seen>>

Reject(t, status) == Rollback(t, status) /\ UNCHANGED anchor

\* Why _append_audit refuses to add an event to d, if it does.
AppendRefusal(d) ==
  IF d.audit_seq # TailId(d) THEN "error"
  ELSE IF ~Continuous(anchor, d) THEN "crypto"
  ELSE "none"

WithEvent(d, t, name) ==
  [ d EXCEPT
      !.audit_seq = @ + 1,
      !.events = Append(@, [ id |-> d.audit_seq + 1, action |-> call[t].op,
                             name |-> name, previous_hash |-> TailHash(d),
                             entry_hash |-> t ]) ]

\* _append_audit on the working copy d, as the last step before the commit:
\* the anchor takes as much of the record as the write does (a short write
\* goes unnoticed), or the write fails and the transaction with it.
AppendAudit(t, d, name, result) ==
  LET record == Record(d.id, TailId(d) + 1, t)
  IN  \/ /\ AppendRefusal(d) # "none"
         /\ Reject(t, AppendRefusal(d))
      \/ /\ AppendRefusal(d) = "none"
         /\ anchor' \in { Appended(anchor, record, e) : e \in Extent }
         /\ work' = WithEvent(d, t, name)
         /\ answer' = [answer EXCEPT ![t] = result]
         /\ pc' = [pc EXCEPT ![t] = "commit"]
         /\ UNCHANGED <<db, processVars, writer, call, seen>>
      \/ /\ AppendRefusal(d) = "none"
         /\ anchor' \in Remnants(anchor, record)
         /\ \E status \in { "error", "crypto" } : Rollback(t, status)

Executing(t, op) == pc[t] = "execute" /\ call[t].op = op

\* (slip) INSERT OR REPLACE: no name is ever taken.
NeverTaken(n) == FALSE

\* Names are unique in `secrets' whether or not the secret was deleted.
Taken(n) == db.secrets[n].sid # 0

Create(t) ==
  /\ Executing(t, "create")
  /\ LET n   == call[t].name
         sid == db.secret_seq + 1
     IN  \/ /\ Taken(n)
            /\ Reject(t, "conflict")
         \/ /\ ~Taken(n)
            /\ AppendAudit(t,
                 [db EXCEPT
                    !.secret_seq = sid,
                    !.secrets[n] = [ sid |-> sid, current |-> 1,
                                     deleted |-> FALSE ],
                    !.versions = @ \cup {Seal(ring.active, t, sid, n, 1)}],
                 n, Result("ok", 1, None, {}))

\* The compare-and-set of update and delete.
VersionAgrees(n, expected) == db.secrets[n].current = expected

Update(t) ==
  /\ Executing(t, "update")
  /\ LET n   == call[t].name
         sid == db.secrets[n].sid
         ver == db.secrets[n].current + 1
     IN  \/ /\ ~Live(db, n)
            /\ Reject(t, "not_found")
         \/ /\ Live(db, n)
            /\ ~VersionAgrees(n, call[t].expected)
            /\ Reject(t, "conflict")
         \/ /\ Live(db, n)
            /\ VersionAgrees(n, call[t].expected)
            /\ AppendAudit(t,
                 [db EXCEPT
                    !.secrets[n].current = ver,
                    !.versions = @ \cup {Seal(ring.active, t, sid, n, ver)}],
                 n, Result("ok", ver, None, {}))

Delete(t) ==
  /\ Executing(t, "delete")
  /\ LET n == call[t].name
     IN  \/ /\ ~Live(db, n)
            /\ Reject(t, "not_found")
         \/ /\ Live(db, n)
            /\ ~VersionAgrees(n, call[t].expected)
            /\ Reject(t, "conflict")
         \/ /\ Live(db, n)
            /\ VersionAgrees(n, call[t].expected)
            /\ AppendAudit(t, [db EXCEPT !.secrets[n].deleted = TRUE],
                 n, Result("ok", db.secrets[n].current, None, {}))

\* A read commits too: its audit event.
Get(t) ==
  /\ Executing(t, "get")
  /\ LET n     == call[t].name
         found == IF Live(db, n) THEN CurrentRows(db, n) ELSE {}
     IN  \/ /\ found = {}
            /\ Reject(t, "not_found")
         \/ \E v \in found :
              /\ ~Opens(v, v.sid, n, v.version)
              /\ Reject(t, "crypto")
         \/ \E v \in found :
              /\ Opens(v, v.sid, n, v.version)
              /\ AppendAudit(t, db, n, Result("ok", v.version, v.payload, {}))

ListMetadata(t) ==
  /\ Executing(t, "list_metadata")
  /\ LET listed == { n \in Name : Live(db, n) /\ CurrentRows(db, n) # {} }
     IN  AppendAudit(t, db, None,
           Result("ok", 0, None,
                  { <<n, db.secrets[n].current>> : n \in listed }))

ListVersions(t) ==
  /\ Executing(t, "list_versions")
  /\ LET n == call[t].name
     IN  \/ /\ ~Live(db, n)
            /\ Reject(t, "not_found")
         \/ /\ Live(db, n)
            /\ AppendAudit(t, db, n,
                 Result("ok", 0, None,
                        { <<n, v.version>> : v \in VersionsOf(db, n) }))

\* The versions under another key than `target', each with its secret's name.
JoinedOld(target) ==
  { row \in db.versions \X Name :
      row[1].key # target /\ db.secrets[row[2]].sid = row[1].sid }

\* (slip) Sealed for the secret's current version, not the row's.
ResealedAsCurrent(row, target) ==
  Seal(target, row[1].payload, row[1].sid, row[2], db.secrets[row[2]].current)

Resealed(row, target) ==
  Seal(target, row[1].payload, row[1].sid, row[2], row[1].version)

\* All of them are opened and sealed again, or none: one that does not open
\* aborts the transaction.
RekeyAll(t) ==
  /\ Executing(t, "rekey_all")
  /\ LET target == call[t].key
         old    == JoinedOld(target)
     IN  \/ /\ \E row \in old : ~Opens(row[1], row[1].sid, row[2], row[1].version)
            /\ Reject(t, "crypto")
         \/ /\ \A row \in old : Opens(row[1], row[1].sid, row[2], row[1].version)
            /\ AppendAudit(t,
                 [db EXCEPT !.versions = (@ \ { row[1] : row \in old })
                                           \cup { Resealed(row, target) : row \in old }],
                 None, Result("ok", 0, None, {}))

RecordSecurityEvent(t) ==
  /\ Executing(t, "record_security_event")
  /\ AppendAudit(t, db, None, Result("ok", 0, None, {}))

Commit(t) ==
  /\ pc[t] = "commit"
  /\ db' = work
  /\ writer' = None
  /\ work' = EmptyDatabase
  /\ pc' = [pc EXCEPT ![t] = "done"]
  /\ UNCHANGED <<anchor, processVars, call, seen, answer>>

\* (slip) The failure of the commit is swallowed.
CommitFailsUnseen(t) ==
  /\ pc[t] = "commit"
  /\ writer' = None
  /\ work' = EmptyDatabase
  /\ pc' = [pc EXCEPT ![t] = "done"]
  /\ UNCHANGED <<db, anchor, processVars, call, seen, answer>>

\* The anchor already holds the record of the event that is now undone.
CommitFails(t) ==
  /\ pc[t] = "commit"
  /\ Reject(t, "error")

-----------------------------------------------------------------------------
(* Verification takes no lock *)

unread == <<db, anchor, processVars, writer, work, call>>

\* The number of events a verification reports.
Reported(t) ==
  IF call[t].op = "verify_audit_chain" THEN seen[t].events ELSE TailId(db)

ReadRows(t) ==
  /\ pc[t] = "rows"
  /\ seen' = [seen EXCEPT ![t].events = Len(db.events)]
  /\ \/ /\ ChainLinked(db.events)
        /\ pc' = [pc EXCEPT ![t] = "anchor"]
        /\ UNCHANGED answer
     \/ /\ ~ChainLinked(db.events)
        /\ Finish(t, Result("invalid", Len(db.events), None, {}))
  /\ UNCHANGED unread

ReadAnchor(t) ==
  /\ pc[t] = "anchor"
  /\ \/ /\ Readable(anchor)
        /\ seen' = [seen EXCEPT ![t].line = LastLine(anchor)]
        /\ pc' = [pc EXCEPT ![t] = "tail"]
        /\ UNCHANGED answer
     \/ /\ ~Readable(anchor)
        /\ Finish(t, Result("invalid", seen[t].events, None, {}))
        /\ seen' = [seen EXCEPT ![t] = NothingSeen]
  /\ UNCHANGED unread

\* (slip) One connection for all: the tail is the writer's uncommitted one.
ReadTailDirty(t) ==
  /\ pc[t] = "tail"
  /\ LET d == IF \E u \in Task : pc[u] = "commit" THEN work ELSE db
     IN  Finish(t, Result(IF Matches(seen[t].line, d) THEN "valid" ELSE "invalid",
                          TailId(d), TailHash(d), {}))
  /\ seen' = [seen EXCEPT ![t] = NothingSeen]
  /\ UNCHANGED unread

ReadTail(t) ==
  /\ pc[t] = "tail"
  /\ Finish(t, Result(IF Matches(seen[t].line, db) THEN "valid" ELSE "invalid",
                      Reported(t), TailHash(db), {}))
  /\ seen' = [seen EXCEPT ![t] = NothingSeen]
  /\ UNCHANGED unread

-----------------------------------------------------------------------------

Execute(t) ==
  \/ Create(t) \/ Update(t) \/ Delete(t)
  \/ Get(t) \/ ListMetadata(t) \/ ListVersions(t)
  \/ RekeyAll(t) \/ RecordSecurityEvent(t)

\* What the event loop will run of a call that has reached the store.
Step(t) ==
  \/ CheckTarget(t) \/ Begin(t) \/ Busy(t) \/ Execute(t) \/ Commit(t) \/ CommitFails(t)
  \/ ReadRows(t) \/ ReadAnchor(t) \/ ReadTail(t)

Bootstrap ==
  \/ Open \/ StartAnchor \/ StartAnchorFails
  \/ KeepAnchor \/ Admit

Next ==
  \/ Bootstrap
  \/ Crash
  \/ \E t \in Task : Arrive(t) \/ Step(t)

Spec == Init /\ [][Next]_vars

\* The container is restarted whenever it exits (compose.yaml, `restart:
\* unless-stopped'), and the event loop runs every coroutine that can go on.
Fairness == WF_vars(Bootstrap) /\ \A t \in Task : WF_vars(Step(t))

-----------------------------------------------------------------------------
(* Safety *)

\* The anchor vouches for the whole log.  Every committed event has, in its
\* place in the anchor file, the record that was written before it was
\* committed, and the file is at most one record ahead of the database, the
\* record of an event that was never committed.  Only the end of the file can
\* be damaged: nothing is ever added after a record that cannot be read.
\* (_append_audit calls _append_anchor before the commit.)
EvidenceAnchored ==
  LET lines == anchor.lines IN
  /\ \A i \in DOMAIN db.events :
       /\ i + 1 \in DOMAIN lines
       /\ lines[i + 1].database_id = db.id
       /\ lines[i + 1].event_id = db.events[i].id
       /\ lines[i + 1].entry_hash = db.events[i].entry_hash
  /\ Len(lines) <= Len(db.events) + 2
  /\ \A i \in 1 .. Len(lines) - 2 : lines[i].extent = "whole"

\* Between transactions the anchor and the database disagree.
Diverged ==
  /\ anchor.exists
  /\ \A t \in Task : pc[t] # "commit"
  /\ ~CheckpointHolds(anchor, db)

\* Fail closed, for good: once the anchor and the database disagree, no call,
\* restart or repetition commits anything or brings them back together.
\* (_append_anchor's continuity check and the last check of bootstrap.)
FailClosed == [][Diverged => Diverged' /\ db' = db]_vars

\* What a verification called valid stays true whatever happens next: the tail
\* it reported is in the log, with its record in the anchor, and the deep
\* verification's count never exceeds that tail.
CheckpointSound ==
  \A t \in Task : answer[t].status = "valid" =>
    \E k \in 0 .. Len(db.events) :
      /\ answer[t].value = IF k = 0 THEN None ELSE db.events[k].entry_hash
      /\ answer[t].n <= k
      /\ call[t].op = "verify_audit_checkpoint" => answer[t].n = k
      /\ k < Len(anchor.lines)
      /\ anchor.lines[k + 1].event_id = k
      /\ anchor.lines[k + 1].entry_hash = answer[t].value

\* The rows of a secret tell one history: secrets have distinct identifiers,
\* the versions of each are 1 .. current_version with no gap and no double,
\* and each is sealed for exactly the row that holds it, whichever key it was
\* sealed or sealed again under.
SecretsSound ==
  /\ \A m, n \in Name :
       m # n /\ db.secrets[m].sid # 0 => db.secrets[m].sid # db.secrets[n].sid
  /\ \A n \in Name :
       /\ { v.version : v \in VersionsOf(db, n) } = 1 .. db.secrets[n].current
       /\ Cardinality(VersionsOf(db, n)) = db.secrets[n].current
       /\ \A v \in VersionsOf(db, n) :
            v.aad = [ sid |-> v.sid, name |-> n, version |-> v.version ]

EventsOn(n, actions) ==
  { i \in DOMAIN db.events :
      db.events[i].name = n /\ db.events[i].action \in actions }

\* The audit log alone tells the state of every secret: as many versions as
\* creations and updates, and deleted after exactly one deletion, after which
\* the log never mentions the name again.
AuditExplainsData ==
  \A n \in Name :
    LET deletions == EventsOn(n, {"delete"}) IN
    /\ db.secrets[n].current = Cardinality(EventsOn(n, {"create", "update"}))
    /\ Cardinality(deletions) = IF db.secrets[n].deleted THEN 1 ELSE 0
    /\ \A i \in deletions, j \in EventsOn(n, Op) : j <= i

\* A write that was acknowledged is never lost: whatever crashes, rekeys and
\* later writes follow, the version number the caller was given holds the
\* payload the caller sent, so no two callers were given the same one.
AcknowledgedKept ==
  \A t \in Task :
    /\ pc[t] = "done"
    /\ answer[t].status = "ok"
    /\ call[t].op \in { "create", "update" }
    => \E v \in VersionsOf(db, call[t].name) :
         v.version = answer[t].n /\ v.payload = t

-----------------------------------------------------------------------------
(* Liveness *)

\* No call keeps the write lock: whatever a transaction meets, it ends and
\* the next writer can begin.
LockReleased == \A t \in Task : writer = t ~> writer # t

\* Once the process stops dying, other than by bootstrap's own refusal, and
\* the disk takes a first record, the vault serves for good, unless the anchor
\* and the database have come apart.
ServesAgain ==
  <>[][~(Crash /\ ~Admit) /\ ~StartAnchorFails]_vars
    => <>[](phase = "serving") \/ <>[](anchor.exists /\ ~CheckpointHolds(anchor, db))

-----------------------------------------------------------------------------
(* What the store promises *)

PayloadOf(n, version) ==
  (CHOOSE v \in VersionsOf(db, n) : v.version = version).payload

Ledger == INSTANCE SecretLedger WITH
  history <- [n \in Name |->
                [version \in 1 .. db.secrets[n].current |-> PayloadOf(n, version)]],
  deleted <- { n \in Name : db.secrets[n].deleted },
  log     <- [i \in DOMAIN db.events |->
                [ by     |-> db.events[i].entry_hash,
                  action |-> db.events[i].action,
                  name   |-> db.events[i].name ]],
  answer  <- [t \in Task |-> IF pc[t] = "done" THEN answer[t] ELSE NoAnswer]

\* The store is linearizable and audits everything: seen from outside, every
\* call takes effect and is logged in one step, its commit, or leaves no
\* trace, through crashes, failed writes, failed commits, and rekeying; and a
\* verification that succeeds speaks of the log as it is when it answers.
ImplementsLedger == Ledger!Spec

=============================================================================
