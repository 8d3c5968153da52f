-------------------------- MODULE VaultStore_proofs --------------------------
(***************************************************************************)
(* Proofs about VaultStore, for every set of tasks, names, keys and calls: *)
(* the types, that the anchor vouches for every committed event, and that  *)
(* a vault whose anchor and database have come apart never moves again.    *)
(***************************************************************************)
EXTENDS VaultStore, SequenceTheorems, TLAPS

-----------------------------------------------------------------------------
(* What an append does to the anchor file *)

\* The records of the file stay where they are and what they are; only the
\* last one can lose its readability, and only if it lacked its newline.
LEMMA AppendedFile ==
  ASSUME NEW a \in AnchorFile, NEW r \in Line, NEW e \in Extent
  PROVE  LET b == Appended(a, r, e)
             k == Len(a.lines) + 1
         IN  /\ b \in AnchorFile
             /\ b.exists
             /\ Len(b.lines) = k
             /\ \A i \in 1 .. Len(a.lines) :
                  /\ b.lines[i].database_id = a.lines[i].database_id
                  /\ b.lines[i].event_id = a.lines[i].event_id
                  /\ b.lines[i].entry_hash = a.lines[i].entry_hash
                  /\ i < Len(a.lines) => b.lines[i] = a.lines[i]
             /\ b.lines[k].database_id = r.database_id
             /\ b.lines[k].event_id = r.event_id
             /\ b.lines[k].entry_hash = r.entry_hash
             /\ a.lines # << >> /\ a.lines[Len(a.lines)].extent = "whole"
                  => b.lines[Len(a.lines)] = a.lines[Len(a.lines)]
             /\ a.lines # << >> /\ a.lines[Len(a.lines)].extent = "unended"
                  => b.lines[k].extent = "torn"
<1> DEFINE runsOn == a.lines # << >> /\ LastLine(a).extent = "unended"
           torn   == [ a.lines EXCEPT ![Len(a.lines)].extent = "torn" ]
           old    == IF runsOn THEN torn ELSE a.lines
           new    == [ r EXCEPT !.extent = IF runsOn THEN "torn" ELSE e ]
           b      == Appended(a, r, e)
<1>1. a.lines \in Seq(Line) /\ a.exists \in BOOLEAN
  BY DEF AnchorFile
<1>2. /\ new \in Line
      /\ new.database_id = r.database_id
      /\ new.event_id = r.event_id
      /\ new.entry_hash = r.entry_hash
      /\ runsOn => new.extent = "torn"
  BY DEF Line, Extent
<1>3. /\ old \in Seq(Line)
      /\ Len(old) = Len(a.lines)
      /\ \A i \in 1 .. Len(a.lines) :
           /\ old[i].database_id = a.lines[i].database_id
           /\ old[i].event_id = a.lines[i].event_id
           /\ old[i].entry_hash = a.lines[i].entry_hash
           /\ i < Len(a.lines) => old[i] = a.lines[i]
      /\ ~runsOn => old = a.lines
  <2>1. CASE ~runsOn
    BY <1>1, <2>1
  <2>2. CASE runsOn
    <3>1. old = torn
      BY <2>2
    <3>2. Len(a.lines) \in 1 .. Len(a.lines)
      BY <1>1, <2>2
    <3> DEFINE spoilt == [ a.lines[Len(a.lines)] EXCEPT !.extent = "torn" ]
    <3>3. \A i \in 1 .. Len(a.lines) : a.lines[i] \in Line
      BY <1>1
    <3>4. /\ spoilt \in Line
          /\ spoilt.database_id = a.lines[Len(a.lines)].database_id
          /\ spoilt.event_id = a.lines[Len(a.lines)].event_id
          /\ spoilt.entry_hash = a.lines[Len(a.lines)].entry_hash
      BY <3>2, <3>3 DEF Line, Extent
    <3>5. torn = [ a.lines EXCEPT ![Len(a.lines)] = spoilt ]
      OBVIOUS
    <3> HIDE DEF spoilt
    <3>6. /\ torn \in Seq(Line) /\ Len(torn) = Len(a.lines)
          /\ \A i \in 1 .. Len(a.lines) :
               torn[i] = IF i = Len(a.lines) THEN spoilt ELSE a.lines[i]
      BY <1>1, <3>2, <3>4, <3>5, ExceptSeq
    <3> HIDE DEF torn
    <3>7. \A i \in 1 .. Len(a.lines) :
           /\ torn[i].database_id = a.lines[i].database_id
           /\ torn[i].event_id = a.lines[i].event_id
           /\ torn[i].entry_hash = a.lines[i].entry_hash
           /\ i < Len(a.lines) => torn[i] = a.lines[i]
      BY <1>1, <3>4, <3>6
    <3> QED
      BY <2>2, <3>1, <3>6, <3>7
  <2> QED
    BY <2>1, <2>2
<1>4. b = [ exists |-> TRUE, lines |-> Append(old, new) ]
  BY DEF Appended
<1>5. /\ b \in AnchorFile /\ b.exists
      /\ Len(b.lines) = Len(a.lines) + 1
      /\ \A i \in 1 .. Len(a.lines) : b.lines[i] = old[i]
      /\ b.lines[Len(a.lines) + 1] = new
  BY <1>1, <1>2, <1>3, <1>4 DEF AnchorFile
<1>6. a.lines # << >> /\ a.lines[Len(a.lines)].extent = "whole"
        => b.lines[Len(a.lines)] = a.lines[Len(a.lines)]
  BY <1>1, <1>3, <1>5 DEF LastLine
<1>7. a.lines # << >> /\ a.lines[Len(a.lines)].extent = "unended"
        => b.lines[Len(a.lines) + 1].extent = "torn"
  BY <1>2, <1>5 DEF LastLine
<1> HIDE DEF b
<1> QED
  BY <1>2, <1>3, <1>5, <1>6, <1>7, ZenonT(40) DEF b

-----------------------------------------------------------------------------
(* The inductive invariant *)

\* Only the holder of the write lock is inside a transaction.
LockHeld == \A t \in Task : pc[t] \in { "execute", "commit" } => writer = t

\* The rows of audit_events are numbered without a gap.
EventsNumbered ==
  /\ db.audit_seq = Len(db.events)
  /\ \A i \in 1 .. Len(db.events) : db.events[i].id = i

\* So are the records of the anchor, from the genesis record on; all of them
\* name the one database there is.
JournalNumbered ==
  /\ ~anchor.exists => anchor.lines = << >>
  /\ anchor.exists => db.id # None
  /\ phase # "down" => db.id # None
  /\ \A j \in 1 .. Len(anchor.lines) :
       /\ anchor.lines[j].event_id = j - 1
       /\ anchor.lines[j].database_id = db.id

\* Each committed event has its record, and at most one record is ahead.
JournalCovers ==
  /\ Len(anchor.lines) <= Len(db.events) + 2
  /\ \A i \in 1 .. Len(db.events) :
       /\ i + 1 <= Len(anchor.lines)
       /\ anchor.lines[i + 1].entry_hash = db.events[i].entry_hash

\* Nothing follows a damaged record but the one it swallowed.
OnlyEndDamaged ==
  /\ \A j \in 1 .. Len(anchor.lines) - 2 : anchor.lines[j].extent = "whole"
  /\ anchor.lines # << >> /\ LastLine(anchor).extent # "torn"
       => \A j \in 1 .. Len(anchor.lines) - 1 : anchor.lines[j].extent = "whole"

\* A transaction about to commit has added one event, whose record is the
\* last of the anchor.
PendingAnchored ==
  \A t \in Task : pc[t] = "commit" =>
    LET k == Len(db.events) + 1 IN
    /\ work.id = db.id
    /\ work.audit_seq = k
    /\ Len(work.events) = k
    /\ \A i \in 1 .. Len(db.events) : work.events[i] = db.events[i]
    /\ work.events[k].id = k
    /\ Len(anchor.lines) = k + 1
    /\ anchor.lines[k + 1].entry_hash = work.events[k].entry_hash

JournalInv ==
  /\ EventsNumbered
  /\ JournalNumbered
  /\ JournalCovers
  /\ OnlyEndDamaged

Inv == TypeOK /\ LockHeld /\ JournalInv /\ PendingAnchored

-----------------------------------------------------------------------------
(* Types of the values the actions build *)

LEMMA ResultType ==
  ASSUME NEW status \in Status, NEW n \in Nat, NEW value \in Task \cup {None},
         NEW rows \in SUBSET (Name \X Nat)
  PROVE  Result(status, n, value, rows) \in Answer
BY DEF Result, Answer

LEMMA EmptyDatabaseType == EmptyDatabase \in Database
<1>1. << >> \in Seq(EventRow)
  BY EmptySeq
<1> QED
  BY <1>1 DEF EmptyDatabase, Database, NoSecret, SecretRow

LEMMA SealType ==
  ASSUME NEW key \in Key, NEW t \in Task, NEW sid \in Nat, NEW n \in Name,
         NEW version \in Nat
  PROVE  Seal(key, t, sid, n, version) \in VersionRow
BY DEF Seal, VersionRow, Context

LEMMA RecordType ==
  ASSUME NEW id \in DatabaseId, NEW k \in Nat, NEW hash \in Task \cup {None}
  PROVE  /\ Record(id, k, hash) \in Line
         /\ Record(id, k, hash).database_id = id
         /\ Record(id, k, hash).event_id = k
         /\ Record(id, k, hash).entry_hash = hash
BY DEF Record, Line, Extent

\* With the rows numbered, the tail is the last row.
LEMMA TailOfLog ==
  ASSUME NEW d \in Database, \A i \in 1 .. Len(d.events) : d.events[i].id = i
  PROVE  /\ TailId(d) = Len(d.events)
         /\ Len(d.events) \in Nat
         /\ TailHash(d) \in Task \cup {None}
         /\ d.events # << >> => TailHash(d) = d.events[Len(d.events)].entry_hash
<1>1. d.events \in Seq(EventRow)
  BY DEF Database
<1>2. CASE d.events = << >>
  BY <1>2, EmptySeq DEF TailId, TailHash
<1>3. CASE d.events # << >>
  <2>1. Len(d.events) \in 1 .. Len(d.events)
    BY <1>1, <1>3
  <2>2. d.events[Len(d.events)] \in EventRow
    BY <1>1, <2>1
  <2> QED
    BY <1>3, <2>1, <2>2 DEF TailId, TailHash, EventRow
<1> QED
  BY <1>2, <1>3

\* What _append_audit inserts, and that it leaves the rest of the log alone.
LEMMA WithEventType ==
  ASSUME NEW d \in Database, d.audit_seq = Len(d.events),
         \A i \in 1 .. Len(d.events) : d.events[i].id = i,
         NEW t \in Task, NEW name \in Name \cup {None}, call[t].op \in Op
  PROVE  LET w == WithEvent(d, t, name)
             k == Len(d.events) + 1
         IN  /\ w \in Database
             /\ w.id = d.id
             /\ w.audit_seq = k
             /\ Len(w.events) = k
             /\ \A i \in 1 .. Len(d.events) : w.events[i] = d.events[i]
             /\ w.events[k].id = k
             /\ w.events[k].entry_hash = t
<1> DEFINE k == Len(d.events) + 1
           e == [ id |-> d.audit_seq + 1, action |-> call[t].op, name |-> name,
                  previous_hash |-> TailHash(d), entry_hash |-> t ]
           w == WithEvent(d, t, name)
<1>1. d.events \in Seq(EventRow) /\ Len(d.events) \in Nat
  BY DEF Database
<1>2. e \in EventRow /\ e.id = k /\ e.entry_hash = t
  BY <1>1, TailOfLog DEF EventRow
<1>3. w = [ d EXCEPT !.audit_seq = @ + 1, !.events = Append(@, e) ]
  BY DEF WithEvent
<1> HIDE DEF e
<1>4. /\ Append(d.events, e) \in Seq(EventRow)
      /\ Len(Append(d.events, e)) = k
      /\ \A i \in 1 .. Len(d.events) : Append(d.events, e)[i] = d.events[i]
      /\ Append(d.events, e)[k] = e
  BY <1>1, <1>2
<1>5. w = [ id |-> d.id, secret_seq |-> d.secret_seq, audit_seq |-> k,
            secrets |-> d.secrets, versions |-> d.versions,
            events |-> Append(d.events, e) ]
  BY <1>3 DEF Database
<1>6. /\ w \in Database /\ w.id = d.id /\ w.audit_seq = k
      /\ w.events = Append(d.events, e)
  BY <1>1, <1>4, <1>5 DEF Database
<1> HIDE DEF w
<1> QED
  BY <1>2, <1>4, <1>6 DEF w

-----------------------------------------------------------------------------
(* What an append does to the invariant of the journal *)

\* The continuity check passes only when the anchor is level with the log.
LEMMA ContinuousIsLevel ==
  ASSUME TypeOK, JournalInv, Continuous(anchor, db)
  PROVE  /\ Len(anchor.lines) = Len(db.events) + 1
         /\ anchor.lines # << >>
         /\ LastLine(anchor).extent # "torn"
         /\ db.id \in DatabaseId
         /\ TailId(db) = Len(db.events)
<1>1. /\ anchor.lines # << >>
      /\ LastLine(anchor).extent # "torn"
      /\ LastLine(anchor).database_id = db.id
      /\ LastLine(anchor).event_id = TailId(db)
  BY DEF Continuous, Readable
<1>2. TailId(db) = Len(db.events) /\ Len(db.events) \in Nat
  BY TailOfLog DEF TypeOK, JournalInv, EventsNumbered
<1>3. anchor.lines \in Seq(Line)
  BY DEF TypeOK, AnchorFile
<1>4. Len(anchor.lines) \in 1 .. Len(anchor.lines)
  BY <1>1, <1>3
<1>5. LastLine(anchor) \in Line /\ LastLine(anchor).event_id = Len(anchor.lines) - 1
  BY <1>3, <1>4 DEF LastLine, JournalInv, JournalNumbered
<1> QED
  BY <1>1, <1>2, <1>3, <1>4, <1>5 DEF Line

\* The record that comes next keeps the journal in order.
LEMMA JournalGrows ==
  ASSUME TypeOK, JournalInv, db.id \in DatabaseId,
         NEW hash \in Task \cup {None}, NEW e \in Extent,
         \/ anchor.lines = << >> /\ db.events = << >>
         \/ /\ anchor.lines # << >> /\ LastLine(anchor).extent # "torn"
            /\ Len(anchor.lines) = Len(db.events) + 1,
         anchor' = Appended(anchor, Record(db.id, Len(anchor.lines), hash), e),
         UNCHANGED db
  PROVE  /\ anchor' \in AnchorFile
         /\ JournalInv'
         /\ Len(anchor'.lines) = Len(anchor.lines) + 1
         /\ anchor'.lines[Len(anchor.lines) + 1].entry_hash = hash
<1> DEFINE n == Len(anchor.lines)
           r == Record(db.id, n, hash)
<1>1. anchor \in AnchorFile /\ anchor.lines \in Seq(Line) /\ n \in Nat
      /\ db.events \in Seq(EventRow) /\ Len(db.events) \in Nat
  BY DEF TypeOK, AnchorFile, Database
<1>2. /\ r \in Line /\ r.database_id = db.id /\ r.event_id = n
      /\ r.entry_hash = hash
  BY <1>1, RecordType
<1> HIDE DEF r
<1>3. /\ anchor' \in AnchorFile
      /\ anchor'.exists
      /\ Len(anchor'.lines) = n + 1
      /\ \A i \in 1 .. n :
           /\ anchor'.lines[i].database_id = anchor.lines[i].database_id
           /\ anchor'.lines[i].event_id = anchor.lines[i].event_id
           /\ anchor'.lines[i].entry_hash = anchor.lines[i].entry_hash
           /\ i < n => anchor'.lines[i] = anchor.lines[i]
      /\ anchor'.lines[n + 1].database_id = db.id
      /\ anchor'.lines[n + 1].event_id = n
      /\ anchor'.lines[n + 1].entry_hash = hash
      /\ anchor.lines # << >> /\ anchor.lines[n].extent = "whole"
           => anchor'.lines[n] = anchor.lines[n]
      /\ anchor.lines # << >> /\ anchor.lines[n].extent = "unended"
           => anchor'.lines[n + 1].extent = "torn"
  <2> DEFINE b == Appended(anchor, r, e)
  <2>1. /\ b \in AnchorFile
        /\ b.exists
        /\ Len(b.lines) = n + 1
        /\ \A i \in 1 .. n :
             /\ b.lines[i].database_id = anchor.lines[i].database_id
             /\ b.lines[i].event_id = anchor.lines[i].event_id
             /\ b.lines[i].entry_hash = anchor.lines[i].entry_hash
             /\ i < n => b.lines[i] = anchor.lines[i]
        /\ b.lines[n + 1].database_id = r.database_id
        /\ b.lines[n + 1].event_id = r.event_id
        /\ b.lines[n + 1].entry_hash = r.entry_hash
        /\ anchor.lines # << >> /\ anchor.lines[n].extent = "whole"
             => b.lines[n] = anchor.lines[n]
        /\ anchor.lines # << >> /\ anchor.lines[n].extent = "unended"
             => b.lines[n + 1].extent = "torn"
    BY <1>1, <1>2, AppendedFile
  <2>2. anchor' = b
    BY DEF r
  <2> HIDE DEF b
  <2> QED
    BY <1>2, <2>1, <2>2
<1>4. EventsNumbered'
  BY DEF EventsNumbered, JournalInv
<1>5. JournalNumbered'
  <2>1. \A j \in 1 .. n + 1 :
          /\ anchor'.lines[j].event_id = j - 1
          /\ anchor'.lines[j].database_id = db.id
    <3> TAKE j \in 1 .. n + 1
    <3>1. CASE j = n + 1
      BY <1>1, <1>3, <3>1
    <3>2. CASE j \in 1 .. n
      BY <1>1, <1>3, <3>2 DEF JournalInv, JournalNumbered
    <3> QED
      BY <1>1, <3>1, <3>2
  <2>2. db.id # None
    BY NoneAssumption
  <2> QED
    BY <1>3, <2>1, <2>2 DEF JournalNumbered
<1>6. JournalCovers'
  <2>1. n <= Len(db.events) + 1
    BY <1>1, EmptySeq
  <2>2. \A i \in 1 .. Len(db.events) :
          /\ i + 1 <= n
          /\ anchor.lines[i + 1].entry_hash = db.events[i].entry_hash
    BY DEF JournalInv, JournalCovers
  <2>3. \A i \in 1 .. Len(db.events) :
          /\ i + 1 <= n + 1
          /\ anchor'.lines[i + 1].entry_hash = db.events[i].entry_hash
    BY <1>1, <1>3, <2>2
  <2> QED
    BY <1>1, <1>3, <2>1, <2>3 DEF JournalCovers
<1>7. OnlyEndDamaged'
  <2>1. CASE anchor.lines = << >>
    BY <1>1, <1>3, <2>1, EmptySeq DEF OnlyEndDamaged
  <2>2. CASE anchor.lines # << >> /\ LastLine(anchor).extent # "torn"
    <3>1. n \in 1 .. n /\ anchor.lines[n] \in Line
      BY <1>1, <2>2
    <3>2. \A j \in 1 .. n - 1 : anchor.lines[j].extent = "whole"
      BY <2>2 DEF JournalInv, OnlyEndDamaged
    <3>3. \A j \in 1 .. n - 1 : anchor'.lines[j].extent = "whole"
      <4> TAKE j \in 1 .. n - 1
      <4>1. j \in 1 .. n /\ j < n
        BY <1>1
      <4>2. anchor'.lines[j] = anchor.lines[j]
        BY <1>3, <4>1
      <4> QED
        BY <3>2, <4>2
    <3>4. anchor.lines[n].extent \in { "whole", "unended" }
      BY <2>2, <3>1 DEF LastLine, Line, Extent
    <3>5. anchor'.lines[n + 1].extent # "torn" => anchor'.lines[n].extent = "whole"
      BY <1>3, <2>2, <3>4
    <3>6. anchor'.lines[n + 1].extent # "torn"
            => \A j \in 1 .. n : anchor'.lines[j].extent = "whole"
      BY <1>1, <3>3, <3>5
    <3>7. Len(anchor'.lines) - 2 = n - 1 /\ Len(anchor'.lines) - 1 = n
      BY <1>1, <1>3
    <3>8. \A j \in 1 .. Len(anchor'.lines) - 2 : anchor'.lines[j].extent = "whole"
      BY <3>3, <3>7
    <3>9. LastLine(anchor)'.extent # "torn"
            => \A j \in 1 .. Len(anchor'.lines) - 1 : anchor'.lines[j].extent = "whole"
      BY <1>3, <3>6, <3>7 DEF LastLine
    <3> QED
      BY <3>8, <3>9 DEF OnlyEndDamaged
  <2> QED
    BY <2>1, <2>2
<1> QED
  BY <1>3, <1>4, <1>5, <1>6, <1>7 DEF JournalInv

-----------------------------------------------------------------------------
(* How a transaction ends, or comes to its commit *)

LEMMA JournalStays ==
  ASSUME JournalInv, UNCHANGED <<db, anchor>>, phase' = phase \/ db.id # None
  PROVE  JournalInv'
BY DEF JournalInv, EventsNumbered, JournalNumbered, JournalCovers,
       OnlyEndDamaged, LastLine

\* A rollback may follow an append that got somewhere, but no more.
LEMMA RollbackInv ==
  ASSUME Inv, NEW t \in Task, pc[t] \in { "execute", "commit" },
         NEW status \in Status, Rollback(t, status),
         anchor' \in AnchorFile, JournalInv'
  PROVE  Inv'
<1>1. Result(status, 0, None, {}) \in Answer
  BY ResultType
<1>2. TypeOK'
  BY <1>1, EmptyDatabaseType
  DEF Inv, TypeOK, Rollback, Finish, processVars, Stage
<1>3. /\ writer = t
      /\ \A u \in Task : pc'[u] \notin { "execute", "commit" }
  BY DEF Inv, TypeOK, LockHeld, Rollback, Finish
<1> QED
  BY <1>2, <1>3 DEF Inv, LockHeld, PendingAnchored

LEMMA RejectInv ==
  ASSUME Inv, NEW t \in Task, pc[t] \in { "execute", "commit" },
         NEW status \in Status, Reject(t, status)
  PROVE  Inv'
<1>1. Rollback(t, status) /\ UNCHANGED <<db, anchor, phase>>
  BY DEF Reject, Rollback, processVars
<1>2. JournalInv' /\ anchor' \in AnchorFile
  BY <1>1, JournalStays DEF Inv, TypeOK
<1> QED
  BY <1>1, <1>2, RollbackInv

\* Every method ends in _append_audit, on a working copy whose log is still
\* the committed one.
LEMMA AppendAuditInv ==
  ASSUME Inv, NEW t \in Task, pc[t] = "execute", call[t].op \in Op,
         NEW d \in Database,
         d.id = db.id, d.audit_seq = db.audit_seq, d.events = db.events,
         NEW name \in Name \cup {None}, NEW result \in Answer,
         AppendAudit(t, d, name, result)
  PROVE  Inv'
<1> DEFINE record == Record(d.id, TailId(d) + 1, t)
<1> USE DEF Inv
<1>1. CASE /\ AppendRefusal(d) # "none"
           /\ Reject(t, AppendRefusal(d))
  <2>1. AppendRefusal(d) \in Status
    BY DEF AppendRefusal, Status
  <2> QED
    BY <1>1, <2>1, RejectInv
<1>2. ASSUME AppendRefusal(d) = "none"
      PROVE  /\ Continuous(anchor, db)
             /\ record = Record(db.id, Len(anchor.lines), t)
             /\ Len(anchor.lines) = Len(db.events) + 1
             /\ db.id \in DatabaseId
             /\ anchor.lines # << >> /\ LastLine(anchor).extent # "torn"
  <2>1. TailId(d) = TailId(db) /\ TailHash(d) = TailHash(db)
    BY DEF TailId, TailHash
  <2>2. Continuous(anchor, db)
    BY <1>2, <2>1 DEF AppendRefusal, Continuous
  <2> QED
    BY <2>1, <2>2, ContinuousIsLevel
<1>3. CASE /\ AppendRefusal(d) = "none"
           /\ anchor' \in { Appended(anchor, record, e) : e \in Extent }
           /\ work' = WithEvent(d, t, name)
           /\ answer' = [answer EXCEPT ![t] = result]
           /\ pc' = [pc EXCEPT ![t] = "commit"]
           /\ UNCHANGED <<db, processVars, writer, call, seen>>
  <2> DEFINE k == Len(db.events) + 1
  <2>1. PICK e \in Extent : anchor' = Appended(anchor, record, e)
    BY <1>3
  <2>2. /\ anchor' \in AnchorFile
        /\ JournalInv'
        /\ Len(anchor'.lines) = k + 1
        /\ anchor'.lines[k + 1].entry_hash = t
    BY <1>2, <1>3, <2>1, JournalGrows
  <2>3. /\ work' \in Database
        /\ work'.id = db.id
        /\ work'.audit_seq = k
        /\ Len(work'.events) = k
        /\ \A i \in 1 .. Len(db.events) : work'.events[i] = db.events[i]
        /\ work'.events[k].id = k
        /\ work'.events[k].entry_hash = t
    <3>1. d.audit_seq = Len(d.events) /\ \A i \in 1 .. Len(d.events) : d.events[i].id = i
      BY DEF JournalInv, EventsNumbered
    <3> DEFINE w == WithEvent(d, t, name)
    <3>2. /\ w \in Database
          /\ w.id = d.id
          /\ w.audit_seq = Len(d.events) + 1
          /\ Len(w.events) = Len(d.events) + 1
          /\ \A i \in 1 .. Len(d.events) : w.events[i] = d.events[i]
          /\ w.events[Len(d.events) + 1].id = Len(d.events) + 1
          /\ w.events[Len(d.events) + 1].entry_hash = t
      BY <3>1, WithEventType
    <3>3. work' = w
      BY <1>3
    <3> HIDE DEF w
    <3> QED
      BY <3>2, <3>3
  <2>4. TypeOK'
    BY <1>3, <2>2, <2>3 DEF TypeOK, processVars, Stage, Waiting
  <2>5. LockHeld'
    BY <1>3 DEF LockHeld, TypeOK
  <2>6. PendingAnchored'
    <3>1. \A u \in Task : pc'[u] = "commit" => u = t
      BY <1>3 DEF LockHeld, TypeOK
    <3> QED
      BY <1>3, <2>2, <2>3, <3>1 DEF PendingAnchored
  <2> QED
    BY <2>2, <2>4, <2>5, <2>6
<1>4. CASE /\ AppendRefusal(d) = "none"
           /\ anchor' \in Remnants(anchor, record)
           /\ \E status \in { "error", "crypto" } : Rollback(t, status)
  <2>1. PICK status \in { "error", "crypto" } : Rollback(t, status)
    BY <1>4
  <2>2. UNCHANGED <<db, phase>> /\ status \in Status
    BY <2>1 DEF Rollback, processVars, Status
  <2>3. CASE anchor' = anchor
    BY <2>1, <2>2, <2>3, JournalStays, RollbackInv DEF TypeOK
  <2>4. CASE \E e \in Extent : anchor' = Appended(anchor, record, e)
    BY <1>2, <1>4, <2>1, <2>2, <2>4, JournalGrows, RollbackInv
  <2> QED
    BY <1>4, <2>3, <2>4 DEF Remnants
<1> QED
  BY <1>1, <1>3, <1>4 DEF AppendAudit

-----------------------------------------------------------------------------
(* The invariant holds *)

LEMMA InitInv == Init => Inv
<1> SUFFICES ASSUME Init PROVE Inv
  OBVIOUS
<1> USE DEF Init
<1>1. TypeOK
  <2>1. << >> \in Seq(Line)
    BY EmptySeq
  <2>2. NoAnswer \in Answer
    BY DEF NoAnswer, Answer, Result, Status
  <2>3. NothingSeen \in Seen
    BY DEF NothingSeen, Seen
  <2> QED
    BY <2>1, <2>2, <2>3, EmptyDatabaseType
    DEF TypeOK, NoFile, AnchorFile, Stage
<1>2. JournalInv
  <2>1. db.events = << >> /\ db.audit_seq = 0 /\ anchor.lines = << >> /\ ~anchor.exists
    BY DEF EmptyDatabase, NoFile
  <2> QED
    BY <2>1, EmptySeq
    DEF JournalInv, EventsNumbered, JournalNumbered, JournalCovers, OnlyEndDamaged
<1> QED
  BY <1>1, <1>2 DEF Inv, LockHeld, PendingAnchored

\* The steps that only move a task leave everything else as it was.
LEMMA BookkeepingInv ==
  ASSUME Inv, TypeOK', NEW t \in Task, UNCHANGED <<db, anchor, phase, writer, work>>,
         \A u \in Task : pc'[u] \in { "execute", "commit" } => pc'[u] = pc[u]
  PROVE  Inv'
<1>1. JournalInv'
  BY JournalStays DEF Inv
<1>2. LockHeld'
  BY DEF Inv, LockHeld
<1>3. PendingAnchored'
  BY DEF Inv, PendingAnchored
<1> QED
  BY <1>1, <1>2, <1>3 DEF Inv

LEMMA BootstrapInv == Inv /\ Bootstrap => Inv'
<1> SUFFICES ASSUME Inv, Bootstrap PROVE Inv'
  OBVIOUS
<1> USE DEF Inv, taskVars
<1>6. anchor.lines = << >> => \A t \in Task : pc[t] # "commit"
  BY EmptySeq DEF PendingAnchored, TypeOK, Database
<1>1. CASE Open
  <2>1. /\ db' \in Database
        /\ db'.id # None
        /\ db'.events = db.events /\ db'.audit_seq = db.audit_seq
        /\ db.id # None => db' = db
    <3>1. CASE db.id # None
      BY <1>1, <3>1 DEF Open, TypeOK
    <3>2. CASE db.id = None
      <4>1. PICK id \in DatabaseId : db' = [db EXCEPT !.id = id]
        BY <1>1, <3>2 DEF Open, FreshIds
      <4>2. db' = [ id |-> id, secret_seq |-> db.secret_seq,
                    audit_seq |-> db.audit_seq, secrets |-> db.secrets,
                    versions |-> db.versions, events |-> db.events ]
        BY <4>1 DEF TypeOK, Database
      <4> QED
        BY <3>2, <4>2, NoneAssumption DEF TypeOK, Database
    <3> QED
      BY <3>1, <3>2
  <2>2. TypeOK'
    BY <1>1, <2>1 DEF Open, TypeOK, Rings
  <2>3. JournalInv'
    <3>1. db.id = None => anchor.lines = << >> /\ ~anchor.exists
      BY DEF JournalInv, JournalNumbered
    <3>2. JournalNumbered'
      BY <1>1, <2>1, <3>1, EmptySeq DEF Open, JournalInv, JournalNumbered
    <3>3. EventsNumbered' /\ JournalCovers' /\ OnlyEndDamaged'
      BY <1>1, <2>1
      DEF Open, JournalInv, EventsNumbered, JournalCovers, OnlyEndDamaged, LastLine
    <3> QED
      BY <3>2, <3>3 DEF JournalInv
  <2>4. PendingAnchored'
    <3>1. CASE db' = db
      BY <1>1, <3>1 DEF Open, PendingAnchored
    <3>2. CASE db.id = None
      BY <1>1, <1>6, <3>2 DEF Open, PendingAnchored, JournalInv, JournalNumbered
    <3> QED
      BY <2>1, <3>1, <3>2
  <2>5. LockHeld'
    BY <1>1 DEF Open, LockHeld
  <2> QED
    BY <2>2, <2>3, <2>4, <2>5
<1>5. ASSUME phase = "opened", ~anchor.exists, db.events = << >>
      PROVE  /\ Genesis = Record(db.id, Len(anchor.lines), None)
             /\ anchor.lines = << >>
             /\ db.id \in DatabaseId
  BY <1>5, EmptySeq
  DEF Genesis, JournalInv, JournalNumbered, TypeOK, Database
<1>2. CASE StartAnchor
  <2>1. PICK e \in Extent : anchor' = Appended(anchor, Genesis, e)
    BY <1>2 DEF StartAnchor
  <2>2. anchor' \in AnchorFile /\ JournalInv'
    BY <1>2, <1>5, <2>1, JournalGrows DEF StartAnchor
  <2>3. TypeOK'
    BY <1>2, <2>2 DEF StartAnchor, TypeOK
  <2>4. LockHeld' /\ PendingAnchored'
    BY <1>2, <1>5, <1>6 DEF StartAnchor, LockHeld, PendingAnchored
  <2> QED
    BY <2>2, <2>3, <2>4
<1>3. CASE StartAnchorFails
  <2>1. anchor' \in AnchorFile /\ JournalInv'
    <3>1. UNCHANGED db /\ phase' = "down"
      BY <1>3 DEF StartAnchorFails
    <3>2. CASE anchor' = anchor
      BY <1>3, <1>5, <3>1, <3>2, JournalStays, NoneAssumption DEF StartAnchorFails, TypeOK
    <3>3. CASE \E e \in Extent : anchor' = Appended(anchor, Genesis, e)
      BY <1>3, <1>5, <3>1, <3>3, JournalGrows DEF StartAnchorFails
    <3>4. CASE anchor' = [exists |-> TRUE, lines |-> << >>]
      <4>1. anchor'.exists /\ anchor'.lines = << >> /\ anchor' \in AnchorFile
        BY <3>4, EmptySeq DEF AnchorFile
      <4>2. Len(anchor.lines) = 0 /\ Len(anchor'.lines) = 0 /\ db.id # None
        BY <1>3, <1>5, <4>1, EmptySeq, NoneAssumption DEF StartAnchorFails
      <4> QED
        BY <1>3, <1>5, <3>1, <4>1, <4>2
        DEF StartAnchorFails, JournalInv, EventsNumbered, JournalNumbered, JournalCovers,
            OnlyEndDamaged
    <3> QED
      BY <1>3, <3>2, <3>3, <3>4 DEF StartAnchorFails, Remnants
  <2>2. TypeOK'
    BY <1>3, <2>1 DEF StartAnchorFails, TypeOK
  <2>3. LockHeld' /\ PendingAnchored'
    BY <1>3, <1>5, <1>6 DEF StartAnchorFails, LockHeld, PendingAnchored
  <2> QED
    BY <2>1, <2>2, <2>3
<1>4. CASE KeepAnchor \/ Admit
  <2>1. TypeOK'
    BY <1>4 DEF KeepAnchor, Admit, TypeOK
  <2>2. /\ UNCHANGED <<db, anchor, taskVars>>
        /\ phase # "down"
    BY <1>4 DEF KeepAnchor, Admit
  <2>3. JournalInv'
    BY <2>2, JournalStays DEF JournalInv, JournalNumbered
  <2> QED
    BY <2>1, <2>2, <2>3 DEF LockHeld, PendingAnchored
<1> QED
  BY <1>1, <1>2, <1>3, <1>4 DEF Bootstrap

LEMMA CrashInv == Inv /\ Crash => Inv'
<1> SUFFICES ASSUME Inv, Crash PROVE Inv'
  OBVIOUS
<1>1. NoAnswer \in Answer
  BY DEF NoAnswer, Answer, Result, Status
<1>2. TypeOK'
  BY <1>1, EmptyDatabaseType DEF Crash, Inv, TypeOK, Stage, Waiting
<1>3. JournalInv'
  BY JournalStays DEF Crash, Inv, JournalInv, JournalNumbered
<1>4. \A u \in Task : pc'[u] \notin { "execute", "commit" }
  BY DEF Crash, Inv, TypeOK, Waiting
<1> QED
  BY <1>2, <1>3, <1>4 DEF Inv, LockHeld, PendingAnchored

\* Whatever the method, it refuses, or hands _append_audit a working copy that
\* differs from the database in the secrets and their versions at most.
Appends(t) ==
  \E d \in Database, name \in Name \cup {None}, result \in Answer :
    /\ d.id = db.id /\ d.audit_seq = db.audit_seq /\ d.events = db.events
    /\ result.status = "ok"
    /\ AppendAudit(t, d, name, result)

Refusals == { "not_found", "conflict", "crypto", "error" }

Refuses(t) == \E status \in Refusals : Reject(t, status)

LEMMA ExecuteStage ==
  ASSUME NEW t \in Task, Execute(t)
  PROVE  pc[t] = "execute" /\ call[t].op \in Op
BY DEF Execute, Create, Update, Delete, Get, ListMetadata, ListVersions,
       RekeyAll, RecordSecurityEvent, Executing, Op

LEMMA ExecuteShape ==
  ASSUME TypeOK, NEW t \in Task, Execute(t)
  PROVE  Refuses(t) \/ Appends(t)
<1> DEFINE n == call[t].name
<1>1. /\ db \in Database
      /\ db.secrets \in [Name -> SecretRow]
      /\ db.versions \subseteq VersionRow
      /\ db.secret_seq \in Nat
      /\ ring.active \in Key
  BY DEF TypeOK, Database, Rings
<1>2. pc[t] = "execute" /\ call[t].op \in Op
  BY ExecuteStage
<1>3. call[t] \in Calls
  BY <1>2 DEF TypeOK, NoCall, Op
<1>4. call[t].op \in OnName => n \in Name
  BY <1>3, CallsAssumption
<1>5. \A status \in Refusals : Reject(t, status) => Refuses(t) \/ Appends(t)
  BY DEF Refuses
<1>6. ASSUME NEW d \in Database, d.id = db.id, d.audit_seq = db.audit_seq,
             d.events = db.events, NEW name \in Name \cup {None},
             NEW result \in Answer, result.status = "ok",
             AppendAudit(t, d, name, result)
      PROVE  Refuses(t) \/ Appends(t)
  BY <1>6 DEF Appends
<1>7. \A v \in db.versions : v.payload \in Task /\ v.sid \in Nat /\ v.version \in Nat
  BY <1>1 DEF VersionRow
<1>8. \A m \in Name : /\ db.secrets[m].sid \in Nat
                      /\ db.secrets[m].current \in Nat
                      /\ db.secrets[m].deleted \in BOOLEAN
  BY <1>1 DEF SecretRow
<1>9. CASE Create(t)
  <2> DEFINE sid == db.secret_seq + 1
             row == [ sid |-> sid, current |-> 1, deleted |-> FALSE ]
             new == Seal(ring.active, t, sid, n, 1)
             s   == [db.secrets EXCEPT ![n] = row]
             v   == db.versions \cup {new}
             d   == [db EXCEPT !.secret_seq = sid, !.secrets = s, !.versions = v]
  <2>1. n \in Name
    BY <1>4, <1>9 DEF Create, Taken, Executing, OnName
  <2>2. sid \in Nat /\ s \in [Name -> SecretRow]
    BY <1>1, <2>1 DEF SecretRow
  <2>3. v \in SUBSET VersionRow
    BY <1>1, <2>1, SealType
  <2>4. Reject(t, "conflict") \/ AppendAudit(t, d, n, Result("ok", 1, None, {}))
    BY <1>9 DEF Create
  <2> HIDE DEF sid, s, v
  <2>5. /\ d \in Database /\ d.id = db.id /\ d.audit_seq = db.audit_seq
        /\ d.events = db.events
    BY <1>1, <2>2, <2>3 DEF Database
  <2> HIDE DEF d
  <2>6. CASE AppendAudit(t, d, n, Result("ok", 1, None, {}))
    <3>1. /\ Result("ok", 1, None, {}) \in Answer
          /\ Result("ok", 1, None, {}).status = "ok"
      BY DEF Result, Answer, Status
    <3> QED
      BY <1>6, <2>1, <2>5, <2>6, <3>1
  <2> QED
    BY <1>5, <2>4, <2>6 DEF Refusals
<1>10. CASE Update(t)
  <2> DEFINE ver == db.secrets[n].current + 1
             new == Seal(ring.active, t, db.secrets[n].sid, n, ver)
             s   == [db.secrets EXCEPT ![n].current = ver]
             v   == db.versions \cup {new}
             d   == [db EXCEPT !.secret_seq = db.secret_seq, !.secrets = s, !.versions = v]
  <2>1. n \in Name
    BY <1>4, <1>10 DEF Update, Executing, OnName
  <2>2. ver \in Nat /\ s \in [Name -> SecretRow]
    BY <1>1, <2>1 DEF SecretRow
  <2>3. v \in SUBSET VersionRow
    BY <1>1, <1>8, <2>1, <2>2, SealType
  <2>4. d = [db EXCEPT !.secrets[n].current = ver, !.versions = @ \cup {new}]
    BY <1>1 DEF Database
  <2>5. \/ Reject(t, "not_found") \/ Reject(t, "conflict")
        \/ AppendAudit(t, d, n, Result("ok", ver, None, {}))
    BY <1>10, <2>4 DEF Update
  <2> HIDE DEF ver, s, v
  <2>6. /\ d \in Database /\ d.id = db.id /\ d.audit_seq = db.audit_seq
        /\ d.events = db.events
    BY <1>1, <2>2, <2>3 DEF Database
  <2> HIDE DEF d
  <2>7. CASE AppendAudit(t, d, n, Result("ok", ver, None, {}))
    <3>1. /\ Result("ok", ver, None, {}) \in Answer
          /\ Result("ok", ver, None, {}).status = "ok"
      BY <2>2 DEF Result, Answer, Status
    <3> QED
      BY <1>6, <2>1, <2>6, <2>7, <3>1
  <2> QED
    BY <1>5, <2>5, <2>7 DEF Refusals
<1>11. CASE Delete(t)
  <2> DEFINE s == [db.secrets EXCEPT ![n].deleted = TRUE]
             d == [db EXCEPT !.secret_seq = db.secret_seq, !.secrets = s,
                             !.versions = db.versions]
  <2>1. n \in Name
    BY <1>4, <1>11 DEF Delete, Executing, OnName
  <2>2. s \in [Name -> SecretRow]
    BY <1>1, <2>1 DEF SecretRow
  <2>3. d = [db EXCEPT !.secrets[n].deleted = TRUE]
    BY <1>1 DEF Database
  <2>4. \/ Reject(t, "not_found") \/ Reject(t, "conflict")
        \/ AppendAudit(t, d, n, Result("ok", db.secrets[n].current, None, {}))
    BY <1>11, <2>3 DEF Delete
  <2> HIDE DEF s
  <2>5. /\ d \in Database /\ d.id = db.id /\ d.audit_seq = db.audit_seq
        /\ d.events = db.events
    BY <1>1, <2>2 DEF Database
  <2> HIDE DEF d
  <2>6. CASE AppendAudit(t, d, n, Result("ok", db.secrets[n].current, None, {}))
    <3>1. /\ Result("ok", db.secrets[n].current, None, {}) \in Answer
          /\ Result("ok", db.secrets[n].current, None, {}).status = "ok"
      BY <1>8, <2>1 DEF Result, Answer, Status
    <3> QED
      BY <1>6, <2>1, <2>5, <2>6, <3>1
  <2> QED
    BY <1>5, <2>4, <2>6 DEF Refusals
<1>12. CASE Get(t)
  <2>1. n \in Name
    BY <1>4, <1>12 DEF Get, Executing, OnName
  <2>2. \/ Reject(t, "not_found") \/ Reject(t, "crypto")
        \/ \E v \in db.versions :
             AppendAudit(t, db, n, Result("ok", v.version, v.payload, {}))
    BY <1>12 DEF Get, CurrentRows, VersionsOf
  <2>3. ASSUME NEW v \in db.versions,
               AppendAudit(t, db, n, Result("ok", v.version, v.payload, {}))
        PROVE  Refuses(t) \/ Appends(t)
    <3>1. /\ Result("ok", v.version, v.payload, {}) \in Answer
          /\ Result("ok", v.version, v.payload, {}).status = "ok"
      BY <1>7 DEF Result, Answer, Status
    <3> QED
      BY <1>1, <1>6, <2>1, <2>3, <3>1
  <2> QED
    BY <1>5, <2>2, <2>3 DEF Refusals
<1>13. CASE ListMetadata(t)
  <2> DEFINE rows == { <<m, db.secrets[m].current>> :
                         m \in { m \in Name : Live(db, m) /\ CurrentRows(db, m) # {} } }
  <2>1. rows \in SUBSET (Name \X Nat)
    BY <1>8
  <2>2. AppendAudit(t, db, None, Result("ok", 0, None, rows))
    BY <1>13 DEF ListMetadata
  <2>3. /\ Result("ok", 0, None, rows) \in Answer
        /\ Result("ok", 0, None, rows).status = "ok"
    BY <2>1 DEF Result, Answer, Status
  <2> HIDE DEF rows
  <2> QED
    BY <1>1, <1>6, <2>2, <2>3
<1>14. CASE ListVersions(t)
  <2> DEFINE rows == { <<n, v.version>> : v \in VersionsOf(db, n) }
  <2>1. n \in Name
    BY <1>4, <1>14 DEF ListVersions, Executing, OnName
  <2>2. rows \in SUBSET (Name \X Nat)
    BY <1>7, <2>1 DEF VersionsOf
  <2>3. \/ Reject(t, "not_found")
        \/ AppendAudit(t, db, n, Result("ok", 0, None, rows))
    BY <1>14 DEF ListVersions
  <2> HIDE DEF rows
  <2>4. CASE AppendAudit(t, db, n, Result("ok", 0, None, rows))
    <3>1. /\ Result("ok", 0, None, rows) \in Answer
          /\ Result("ok", 0, None, rows).status = "ok"
      BY <2>2 DEF Result, Answer, Status
    <3> QED
      BY <1>1, <1>6, <2>1, <2>4, <3>1
  <2> QED
    BY <1>5, <2>3, <2>4 DEF Refusals
<1>15. CASE RekeyAll(t)
  <2> DEFINE target == call[t].key
             old == JoinedOld(target)
             v == (db.versions \ { row[1] : row \in old })
                    \cup { Resealed(row, target) : row \in old }
             d == [db EXCEPT !.versions = v]
  <2>1. target \in Key
    BY <1>3, <1>15, CallsAssumption DEF RekeyAll, Executing
  <2>2. \A row \in old : row[1] \in VersionRow /\ row[2] \in Name
    BY <1>1 DEF JoinedOld
  <2>3. \A row \in old : Resealed(row, target) \in VersionRow
    BY <2>1, <2>2 DEF Resealed, Seal, VersionRow, Context
  <2>4. v \in SUBSET VersionRow
    BY <1>1, <2>3
  <2>5. Reject(t, "crypto") \/ AppendAudit(t, d, None, Result("ok", 0, None, {}))
    BY <1>15 DEF RekeyAll
  <2>6. /\ Result("ok", 0, None, {}) \in Answer
        /\ Result("ok", 0, None, {}).status = "ok"
    BY DEF Result, Answer, Status
  <2> HIDE DEF v
  <2>7. /\ d \in Database /\ d.id = db.id /\ d.audit_seq = db.audit_seq
        /\ d.events = db.events
    BY <1>1, <2>4 DEF Database
  <2> HIDE DEF d
  <2>8. CASE AppendAudit(t, d, None, Result("ok", 0, None, {}))
    BY <1>6, <2>6, <2>7, <2>8
  <2> QED
    BY <1>5, <2>5, <2>8 DEF Refusals
<1>16. CASE RecordSecurityEvent(t)
  <2>1. /\ Result("ok", 0, None, {}) \in Answer
        /\ Result("ok", 0, None, {}).status = "ok"
    BY DEF Result, Answer, Status
  <2> QED
    BY <1>1, <1>6, <1>16, <2>1 DEF RecordSecurityEvent
<1> QED
  BY <1>9, <1>10, <1>11, <1>12, <1>13, <1>14, <1>15, <1>16 DEF Execute

LEMMA ExecuteInv ==
  ASSUME Inv, NEW t \in Task, Execute(t)
  PROVE  Inv'
<1>1. pc[t] = "execute" /\ call[t].op \in Op
  BY ExecuteStage
<1>2. CASE Refuses(t)
  BY <1>1, <1>2, RejectInv DEF Refuses, Refusals, Status
<1>3. CASE Appends(t)
  BY <1>1, <1>3, AppendAuditInv DEF Appends
<1> QED
  BY <1>2, <1>3, ExecuteShape DEF Inv

LEMMA CommitInv ==
  ASSUME Inv, NEW t \in Task, Commit(t)
  PROVE  Inv'
<1> USE DEF Inv
<1> DEFINE k == Len(db.events) + 1
<1>1. /\ work.id = db.id
      /\ work.audit_seq = k
      /\ Len(work.events) = k
      /\ \A i \in 1 .. Len(db.events) : work.events[i] = db.events[i]
      /\ work.events[k].id = k
      /\ Len(anchor.lines) = k + 1
      /\ anchor.lines[k + 1].entry_hash = work.events[k].entry_hash
  BY DEF Commit, PendingAnchored
<1>2. db' = work /\ UNCHANGED <<anchor, phase>> /\ Len(db.events) \in Nat
  BY DEF Commit, processVars, TypeOK, Database
<1>3. TypeOK'
  BY EmptyDatabaseType DEF Commit, TypeOK, processVars, Stage
<1>4. EventsNumbered'
  <2>1. \A i \in 1 .. k : work.events[i].id = i
    <3> TAKE i \in 1 .. k
    <3>1. CASE i = k
      BY <1>1, <3>1
    <3>2. CASE i \in 1 .. Len(db.events)
      BY <1>1, <3>2 DEF JournalInv, EventsNumbered
    <3> QED
      BY <1>2, <3>1, <3>2
  <2> QED
    BY <1>1, <1>2, <2>1 DEF EventsNumbered
<1>5. JournalNumbered'
  BY <1>1, <1>2 DEF JournalInv, JournalNumbered
<1>6. JournalCovers'
  <2>1. \A i \in 1 .. k : /\ i + 1 <= Len(anchor.lines)
                          /\ anchor.lines[i + 1].entry_hash = work.events[i].entry_hash
    <3> TAKE i \in 1 .. k
    <3>1. CASE i = k
      BY <1>1, <1>2, <3>1
    <3>2. CASE i \in 1 .. Len(db.events)
      BY <1>1, <1>2, <3>2 DEF JournalInv, JournalCovers
    <3> QED
      BY <1>2, <3>1, <3>2
  <2> QED
    BY <1>1, <1>2, <2>1 DEF JournalCovers
<1>7. OnlyEndDamaged'
  BY <1>2 DEF JournalInv, OnlyEndDamaged, LastLine
<1>8. \A u \in Task : pc'[u] \notin { "execute", "commit" }
  BY DEF Commit, LockHeld, TypeOK
<1> QED
  BY <1>3, <1>4, <1>5, <1>6, <1>7, <1>8
  DEF JournalInv, LockHeld, PendingAnchored

\* A verification reads and returns.
LEMMA ReadTypes ==
  ASSUME TypeOK, \A i \in 1 .. Len(db.events) : db.events[i].id = i,
         NEW t \in Task, ReadRows(t) \/ ReadAnchor(t) \/ ReadTail(t)
  PROVE  TypeOK'
<1>1. /\ TailId(db) \in Nat /\ TailHash(db) \in Task \cup {None}
      /\ Len(db.events) \in Nat
  BY TailOfLog DEF TypeOK
<1>2. seen[t].events \in Nat /\ NothingSeen \in Seen
  BY DEF TypeOK, Seen, NothingSeen
<1>3. CASE ReadRows(t)
  <2>1. Result("invalid", Len(db.events), None, {}) \in Answer
    BY <1>1 DEF Result, Answer, Status
  <2>2. [seen EXCEPT ![t].events = Len(db.events)] \in [Task -> Seen]
    BY <1>1 DEF TypeOK, Seen
  <2> QED
    BY <1>3, <2>1, <2>2
    DEF ReadRows, TypeOK, Finish, unread, processVars, Stage, Waiting
<1>4. CASE ReadAnchor(t)
  <2>1. Result("invalid", seen[t].events, None, {}) \in Answer
    BY <1>2 DEF Result, Answer, Status
  <2>2. Readable(anchor) => LastLine(anchor) \in Line
    BY DEF Readable, LastLine, TypeOK, AnchorFile
  <2>3. Readable(anchor) => [seen EXCEPT ![t].line = LastLine(anchor)] \in [Task -> Seen]
    BY <2>2 DEF TypeOK, Seen
  <2> QED
    BY <1>2, <1>4, <2>1, <2>3
    DEF ReadAnchor, TypeOK, Finish, unread, processVars, Stage, Waiting
<1>5. CASE ReadTail(t)
  <2>1. Reported(t) \in Nat
    BY <1>1, <1>2 DEF Reported
  <2>2. Result(IF Matches(seen[t].line, db) THEN "valid" ELSE "invalid",
               Reported(t), TailHash(db), {}) \in Answer
    BY <1>1, <2>1 DEF Result, Answer, Status
  <2> QED
    BY <1>2, <1>5, <2>2
    DEF ReadTail, TypeOK, Finish, unread, processVars, Stage
<1> QED
  BY <1>3, <1>4, <1>5

LEMMA VerifyInv ==
  ASSUME Inv, NEW t \in Task, ReadRows(t) \/ ReadAnchor(t) \/ ReadTail(t)
  PROVE  Inv'
<1> USE DEF Inv
<1>1. TypeOK'
  BY ReadTypes DEF JournalInv, EventsNumbered
<1>2. /\ UNCHANGED <<db, anchor, phase, writer, work>>
      /\ \A u \in Task : pc'[u] \in { "execute", "commit" } => pc'[u] = pc[u]
  BY DEF ReadRows, ReadAnchor, ReadTail, Finish, unread, processVars, TypeOK
<1> QED
  BY <1>1, <1>2, BookkeepingInv

LEMMA NextInv == Inv /\ [Next]_vars => Inv'
<1> SUFFICES ASSUME Inv, [Next]_vars PROVE Inv'
  OBVIOUS
<1>1. CASE Bootstrap
  BY <1>1, BootstrapInv
<1>2. CASE Crash
  BY <1>2, CrashInv
<1>3. ASSUME NEW t \in Task, Arrive(t)
      PROVE  Inv'
  <2>1. TypeOK'
    BY <1>3 DEF Inv, TypeOK, Arrive, FirstStage, processVars, Stage, Waiting
  <2>2. /\ UNCHANGED <<db, anchor, phase, writer, work>>
        /\ \A u \in Task : pc'[u] \in { "execute", "commit" } => pc'[u] = pc[u]
    BY <1>3 DEF Inv, TypeOK, Arrive, FirstStage, processVars
  <2> QED
    BY <2>1, <2>2, BookkeepingInv
<1>4. ASSUME NEW t \in Task, Begin(t)
      PROVE  Inv'
  <2>1. TypeOK'
    BY <1>4 DEF Inv, TypeOK, Begin, processVars, Stage, Waiting
  <2>2. JournalInv'
    BY <1>4, JournalStays DEF Begin, Inv, processVars
  <2>3. LockHeld' /\ PendingAnchored'
    BY <1>4, NoneAssumption DEF Begin, Inv, TypeOK, LockHeld, PendingAnchored
  <2> QED
    BY <2>1, <2>2, <2>3 DEF Inv
<1>5. ASSUME NEW t \in Task, CheckTarget(t) \/ Busy(t)
      PROVE  Inv'
  <2>1. \A status \in { "error", "not_found", "conflict" } :
          Result(status, 0, None, {}) \in Answer
    BY DEF Result, Answer, Status
  <2>2. TypeOK'
    BY <1>5, <2>1
    DEF Inv, TypeOK, CheckTarget, Busy, Finish, processVars, Stage, Waiting
  <2>3. /\ UNCHANGED <<db, anchor, phase, writer, work>>
        /\ \A u \in Task : pc'[u] \in { "execute", "commit" } => pc'[u] = pc[u]
    BY <1>5 DEF Inv, TypeOK, CheckTarget, Busy, Finish, processVars
  <2> QED
    BY <2>2, <2>3, BookkeepingInv
<1>6. ASSUME NEW t \in Task, CommitFails(t)
      PROVE  Inv'
  BY <1>6, RejectInv DEF CommitFails, Status
<1>7. CASE UNCHANGED vars
  BY <1>7, JournalStays
  DEF vars, Inv, TypeOK, LockHeld, PendingAnchored
<1> QED
  BY <1>1, <1>2, <1>3, <1>4, <1>5, <1>6, <1>7, ExecuteInv, CommitInv, VerifyInv
  DEF Next, Step

\* The invariant of log and anchor holds in every state of the store.
THEOREM Invariance == Spec => []Inv
BY InitInv, NextInv, PTL DEF Spec

-----------------------------------------------------------------------------
(* What the invariant gives *)

\* Every variable keeps its type.
THEOREM TypeCorrect == Spec => []TypeOK
<1>1. Inv => TypeOK
  BY DEF Inv
<1> QED
  BY <1>1, Invariance, PTL

\* The anchor vouches for every committed event, in place, is at most one
\* record ahead of the database, and is damaged nowhere but at its end: for
\* any number of tasks, restarts, failed and short writes and failed commits
\* of the store.
THEOREM AnchorVouches == Spec => []EvidenceAnchored
<1>1. Inv => EvidenceAnchored
  <2> SUFFICES ASSUME Inv PROVE EvidenceAnchored
    OBVIOUS
  <2>1. /\ db.events \in Seq(EventRow) /\ anchor.lines \in Seq(Line)
        /\ DOMAIN db.events = 1 .. Len(db.events)
        /\ DOMAIN anchor.lines = 1 .. Len(anchor.lines)
        /\ Len(db.events) \in Nat /\ Len(anchor.lines) \in Nat
    BY DEF Inv, TypeOK, Database, AnchorFile
  <2>2. ASSUME NEW i \in DOMAIN db.events
        PROVE  /\ i + 1 \in DOMAIN anchor.lines
               /\ anchor.lines[i + 1].database_id = db.id
               /\ anchor.lines[i + 1].event_id = db.events[i].id
               /\ anchor.lines[i + 1].entry_hash = db.events[i].entry_hash
    <3>1. i + 1 \in 1 .. Len(anchor.lines) /\ i \in 1 .. Len(db.events)
      BY <2>1 DEF Inv, JournalInv, JournalCovers
    <3>2. /\ anchor.lines[i + 1].event_id = i
          /\ anchor.lines[i + 1].database_id = db.id
      BY <2>1, <3>1 DEF Inv, JournalInv, JournalNumbered
    <3>3. db.events[i].id = i
      BY <3>1 DEF Inv, JournalInv, EventsNumbered
    <3> QED
      BY <2>1, <3>1, <3>2, <3>3 DEF Inv, JournalInv, JournalCovers
  <2>3. /\ Len(anchor.lines) <= Len(db.events) + 2
        /\ \A i \in 1 .. Len(anchor.lines) - 2 : anchor.lines[i].extent = "whole"
    BY DEF Inv, JournalInv, JournalCovers, OnlyEndDamaged
  <2> QED
    BY <2>2, <2>3 DEF EvidenceAnchored
<1> QED
  BY <1>1, Invariance, PTL

\* Once the anchor and the database disagree between transactions, nothing the
\* store does, across any number of restarts, commits anything more or makes
\* them agree.
LEMMA DivergedStep ==
  ASSUME Inv, Diverged, [Next]_vars
  PROVE  Diverged' /\ db' = db /\ anchor' = anchor
<1> USE DEF Inv
<1>1. /\ anchor.exists
      /\ \A t \in Task : pc[t] # "commit"
      /\ ~CheckpointHolds(anchor, db)
      /\ db.id # None
  BY DEF Diverged, JournalInv, JournalNumbered
<1>2. SUFFICES ASSUME \/ ~UNCHANGED <<db, anchor>>
                      \/ \E t \in Task : pc'[t] = "commit"
               PROVE  FALSE
  BY <1>1 DEF Diverged, CheckpointHolds
<1>3. ASSUME NEW t \in Task, Execute(t)
      PROVE  UNCHANGED <<db, anchor>> /\ \A u \in Task : pc'[u] # "commit"
  <2>1. ASSUME NEW status, Reject(t, status)
        PROVE  UNCHANGED <<db, anchor>> /\ \A u \in Task : pc'[u] # "commit"
    <3>1. UNCHANGED <<db, anchor>> /\ pc' = [pc EXCEPT ![t] = "done"]
      BY <2>1 DEF Reject, Rollback, Finish
    <3> QED
      BY <1>1, <3>1 DEF TypeOK
  <2>2. CASE Refuses(t)
    BY <2>1, <2>2 DEF Refuses
  <2>3. CASE Appends(t)
    <3>1. PICK d \in Database, name \in Name \cup {None}, result \in Answer :
            /\ d.id = db.id /\ d.audit_seq = db.audit_seq /\ d.events = db.events
            /\ AppendAudit(t, d, name, result)
      BY <2>3 DEF Appends
    <3>2. ~Continuous(anchor, d)
      BY <1>1, <3>1 DEF Continuous, CheckpointHolds, Matches, TailId, TailHash
    <3>3. AppendRefusal(d) # "none"
      BY <3>2 DEF AppendRefusal
    <3>4. Reject(t, AppendRefusal(d))
      BY <3>1, <3>3 DEF AppendAudit
    <3> QED
      BY <2>1, <3>4
  <2> QED
    BY <1>3, <2>2, <2>3, ExecuteShape
<1>4. CASE Bootstrap
  BY <1>1, <1>2, <1>4
  DEF Bootstrap, Open, StartAnchor, StartAnchorFails, KeepAnchor,
      Admit, taskVars
<1>5. CASE Crash
  BY <1>1, <1>2, <1>5 DEF Crash, TypeOK
<1>6. ASSUME NEW t \in Task,
             \/ Arrive(t) \/ CheckTarget(t) \/ Begin(t) \/ Busy(t)
             \/ ReadRows(t) \/ ReadAnchor(t) \/ ReadTail(t)
      PROVE  FALSE
  BY <1>1, <1>2, <1>6
  DEF Arrive, FirstStage, CheckTarget, Begin, Busy, ReadRows, ReadAnchor, ReadTail,
      Finish, unread, processVars, TypeOK
<1>7. ASSUME NEW t \in Task, Commit(t) \/ CommitFails(t)
      PROVE  FALSE
  BY <1>1, <1>7 DEF Commit, CommitFails
<1>8. CASE UNCHANGED vars
  BY <1>1, <1>2, <1>8 DEF vars
<1> QED
  BY <1>2, <1>3, <1>4, <1>5, <1>6, <1>7, <1>8 DEF Next, Step

\* Fail closed, for good: from a diverged state no step commits or reconciles
\* (the continuity check of _append_anchor and the last check of bootstrap).
THEOREM StaysClosed == Spec => FailClosed
<1>1. Inv /\ [Next]_vars => [Diverged => Diverged' /\ db' = db]_vars
  BY DivergedStep
<1> QED
  BY <1>1, Invariance, PTL DEF Spec, FailClosed

=============================================================================
