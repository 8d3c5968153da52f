-------------------------- MODULE Operators_proofs --------------------------
(***************************************************************************)
(* Proofs about the vault in the hands of its operators, for every set of  *)
(* tasks, names, keys and calls.  KeyRotation: the runbook and the code    *)
(* together keep every version readable.  VaultCustody: with one side      *)
(* restored, lost or truncated, nothing is committed or served on top of   *)
(* the loss of an acknowledged event, and a verification that ends in      *)
(* `valid' has seen a moment of agreement.                                 *)
(***************************************************************************)
EXTENDS KeyRotation, VaultCustody, VaultData_proofs

-----------------------------------------------------------------------------
(* Rotation: the invariant *)

\* What a version is written under is in the file, and in the ring with all
\* that is there to be read.
KeysAtHand ==
  /\ \A v \in db.versions : v.key \in file.keys
  /\ phase # "down" =>
       /\ ring.active \in file.keys
       /\ \A v \in db.versions : v.key \in ring.keys

\* Once rekey_all has reported, and until the active key is changed again, all
\* is under the active key of the file, and so is what will be written: the
\* process that answered had loaded that very key as its active one.
RekeyedForGood ==
  Rekeyed =>
    /\ \A v \in db.versions : v.key = file.active
    /\ phase # "down" => ring.active = file.active

RotationInv ==
  /\ file \in Rings /\ asked \subseteq Task
  /\ KeysAtHand
  /\ RekeyedForGood

-----------------------------------------------------------------------------
(* The store within the rotation *)

\* Whatever the operator does, the vault makes steps of its own.
LEMMA StoreSteps == [RotationNext]_<<vars, rotationVars>> => [Next]_vars
BY DEF RotationNext, AddKey, Activate, RetireKey, LoadKeys, Ask, Next, Bootstrap

\* So the rotation is a way to use the store: what is proved of the store holds.
THEOREM RotationKeepsToStore == RotationSpec => Spec
<1>1. RotationInit => Init
  BY DEF RotationInit
<1> QED
  BY <1>1, StoreSteps, PTL DEF RotationSpec, Spec

\* Its invariant among the rest.
THEOREM StoreHolds == RotationSpec => []VaultInv
BY RotationKeepsToStore, DataInvariance, PTL

\* A call writes under the active key of its process, and leaves what it does
\* not write as it was; rekey_all leaves nothing.
LEMMA KeysWritten ==
  ASSUME VaultInv, NEW t \in Task, pc[t] = "commit", NEW w \in Edited(t).versions
  PROVE  \/ w.key = ring.active
         \/ /\ call[t].op # "rekey_all"
            /\ \E v \in db.versions : w.key = v.key
<1>1. TypeOK /\ SecretsInv(db) /\ Placed(t) /\ Permitted(t)
  BY DEF VaultInv, Inv, DataInv, CallsPlaced, PendingEdit, PendingOf
<1>2. call[t] \in Calls
  BY <1>1 DEF Placed
<1>3. CASE call[t].op \in { "create", "update" }
  <2>1. ASSUME NEW n, NEW sid, NEW version, Edited(t).versions = WithVersion(t, sid, n, version)
        PROVE  w.key = ring.active \/ \E v \in db.versions : w.key = v.key
    BY <2>1 DEF WithVersion, Seal
  <2>2. CASE call[t].op = "create"
    <3>1. Edited(t).versions = WithVersion(t, db.secret_seq + 1, call[t].name, 1)
      BY <1>1, <1>2, <2>2, EditedFields
    <3> QED
      BY <2>1, <2>2, <3>1
  <2>3. CASE call[t].op = "update"
    <3>1. Edited(t).versions = WithVersion(t, db.secrets[call[t].name].sid, call[t].name,
                                           db.secrets[call[t].name].current + 1)
      BY <1>1, <1>2, <2>3, EditedFields
    <3> QED
      BY <2>1, <2>3, <3>1
  <2> QED
    BY <1>3, <2>2, <2>3
<1>4. CASE call[t].op = "rekey_all"
  <2>1. call[t].key = ring.active /\ ring.active \in Key
    BY <1>1, <1>4 DEF Placed, TypeOK, Rings
  <2>2. Edited(t).versions = { UnderKey(v, ring.active) : v \in db.versions }
    <3>1. Edited(t).versions = ResealedAll(call[t].key)
      BY <1>1, <1>2, <1>4, EditedFields
    <3>2. ResealedAll(ring.active) = { UnderKey(v, ring.active) : v \in db.versions }
      BY <1>1, <2>1, AllResealed
    <3> QED
      BY <2>1, <3>1, <3>2
  <2>3. db.versions \subseteq VersionRow
    BY <1>1 DEF TypeOK, Database
  <2> QED
    BY <2>1, <2>2, <2>3, UnderKeyFields
<1>5. CASE call[t].op \notin { "create", "update", "rekey_all" }
  <2>1. Edited(t).versions = db.versions
    BY <1>1, <1>2, <1>5, EditedFields
  <2> QED
    BY <1>5, <2>1
<1> QED
  BY <1>3, <1>4, <1>5

-----------------------------------------------------------------------------
(* Each step keeps the keys at hand *)

LEMMA OperatorKeeps ==
  ASSUME VaultInv, RotationInv, AddKey \/ Activate \/ RetireKey
  PROVE  RotationInv'
<1>1. /\ file \in [ active : Key, keys : SUBSET Key ] /\ file.active \in file.keys
      /\ UNCHANGED <<db, ring, phase, pc, answer, call>>
  BY DEF RotationInv, Rings, AddKey, Activate, RetireKey, vars
<1>2. CASE AddKey
  <2>1. PICK k \in Key : file' = [file EXCEPT !.keys = @ \cup {k}]
    BY <1>2 DEF AddKey
  <2>2. /\ file' \in Rings /\ file'.active = file.active
        /\ file'.keys = file.keys \cup {k} /\ asked' = asked
    BY <1>1, <1>2, <2>1 DEF AddKey, Rings
  <2>3. Rekeyed' => Rekeyed
    BY <1>1, <2>2 DEF Rekeyed
  <2> QED
    BY <1>1, <2>2, <2>3 DEF RotationInv, KeysAtHand, RekeyedForGood
<1>3. CASE Activate
  <2>1. PICK k \in file.keys : file' = [file EXCEPT !.active = k]
    BY <1>3 DEF Activate
  <2>2. file' \in Rings /\ file'.keys = file.keys /\ asked' = {}
    BY <1>1, <1>3, <2>1 DEF Activate, Rings
  <2>3. ~Rekeyed'
    BY <2>2 DEF Rekeyed
  <2> QED
    BY <1>1, <2>2, <2>3 DEF RotationInv, KeysAtHand, RekeyedForGood
<1>4. CASE RetireKey
  <2>1. PICK k \in file.keys \ {file.active} : file' = [file EXCEPT !.keys = @ \ {k}]
    BY <1>4 DEF RetireKey
  <2>2. /\ file' \in Rings /\ file'.active = file.active
        /\ file.active \in file'.keys /\ asked' = asked
    BY <1>1, <1>4, <2>1 DEF RetireKey, Rings
  <2>3. /\ \A v \in db.versions : v.key = file.active
        /\ phase # "down" => ring.active = file.active
    BY <1>4 DEF RetireKey, RotationInv, RekeyedForGood
  <2> QED
    BY <1>1, <2>2, <2>3 DEF RotationInv, KeysAtHand, RekeyedForGood
<1> QED
  BY <1>2, <1>3, <1>4

\* The ring becomes what the file is.
LEMMA LoadKeeps ==
  ASSUME VaultInv, RotationInv, LoadKeys
  PROVE  RotationInv'
<1>1. /\ ring' = file /\ db'.versions = db.versions
      /\ UNCHANGED <<file, asked, pc, answer, call>>
  <2>1. db \in Database
    BY DEF VaultInv, Inv, TypeOK
  <2> QED
    BY <2>1 DEF LoadKeys, rotationVars, Open, taskVars, Database
<1>2. Rekeyed' => Rekeyed
  BY <1>1 DEF Rekeyed
<1> QED
  BY <1>1, <1>2 DEF RotationInv, KeysAtHand, RekeyedForGood, Rings

LEMMA QuietKeeps ==
  ASSUME VaultInv, RotationInv, Quiet, file' = file, asked' \subseteq Task,
         \A t \in asked' : Settled(t) => t \in asked
  PROVE  RotationInv'
<1>1. Rekeyed' => Rekeyed
  BY DEF Rekeyed, Quiet, Settled
<1> QED
  BY <1>1 DEF RotationInv, KeysAtHand, RekeyedForGood, Quiet, SameData

LEMMA CommitKeepsKeys ==
  ASSUME VaultInv, RotationInv, NEW t \in Task, Commit(t), UNCHANGED <<file, asked>>
  PROVE  RotationInv'
<1>1. /\ phase = "serving" /\ UNCHANGED <<ring, phase, call>>
      /\ db'.versions = Edited(t).versions
      /\ call[t].op = "rekey_all" => call[t].key = ring.active
      /\ \A u \in Task : u # t => (Settled(u)' <=> Settled(u))
  BY CommitEffect
<1>2. ring.active \in ring.keys
  BY DEF VaultInv, Inv, TypeOK, Rings
<1>3. \A w \in db'.versions :
        \/ w.key = ring.active
        \/ /\ call[t].op # "rekey_all"
           /\ \E v \in db.versions : w.key = v.key
  BY <1>1, KeysWritten DEF Commit
<1>4. KeysAtHand'
  BY <1>1, <1>2, <1>3 DEF RotationInv, KeysAtHand
<1>5. ASSUME Rekeyed'
      PROVE  Rekeyed \/ (call[t].op = "rekey_all" /\ call[t].key = file.active)
  <2>1. PICK u \in asked : /\ Settled(u)' /\ call[u].op = "rekey_all"
                           /\ call[u].key = file.active
    BY <1>1, <1>5 DEF Rekeyed, Settled
  <2>2. CASE u = t
    BY <2>1, <2>2
  <2>3. CASE u # t
    BY <1>1, <2>1, <2>3 DEF Rekeyed, Settled, RotationInv
  <2> QED
    BY <2>2, <2>3
<1>6. RekeyedForGood'
  <2> SUFFICES ASSUME Rekeyed'
               PROVE  ring.active = file.active /\ \A w \in db'.versions : w.key = file.active
    BY <1>1 DEF RekeyedForGood
  <2>1. CASE call[t].op = "rekey_all" /\ call[t].key = file.active
    BY <1>1, <1>3, <2>1
  <2>2. CASE Rekeyed
    BY <1>1, <1>3, <2>2 DEF RotationInv, RekeyedForGood
  <2> QED
    BY <1>5, <2>1, <2>2
<1> QED
  BY <1>4, <1>6 DEF RotationInv

LEMMA AskKeeps ==
  ASSUME VaultInv, RotationInv, NEW t \in Task, Ask(t)
  PROVE  RotationInv'
<1>1. Arrive(t) /\ asked' = asked \cup {t} /\ file' = file /\ pc[t] = "idle"
  BY DEF Ask, Arrive
<1>2. Next /\ ~Open /\ \A u \in Task : ~Commit(u)
  <2>1. pc \in [Task -> Stage] /\ phase = "serving" /\ Next
    BY <1>1 DEF VaultInv, Inv, TypeOK, Arrive, Next
  <2>2. \E stage : pc' = [pc EXCEPT ![t] = stage]
    BY <1>1 DEF Arrive
  <2> QED
    BY <1>1, <2>1, <2>2 DEF Open, Commit
<1>3. Quiet
  BY <1>2, StoreEffect
<1>4. asked' \subseteq Task /\ \A u \in asked' : Settled(u) => u \in asked
  BY <1>1 DEF RotationInv, Settled
<1> QED
  BY <1>1, <1>3, <1>4, QuietKeeps

\* Nor does a step of the store that is no start take them away.
LEMMA StoreKeeps ==
  ASSUME VaultInv, RotationInv, [Next]_vars, ~Open, UNCHANGED <<file, asked>>
  PROVE  RotationInv'
<1>1. Quiet => RotationInv'
  BY QuietKeeps DEF RotationInv
<1> QED
  BY <1>1, StoreEffect, CommitKeepsKeys

LEMMA RotationStep ==
  VaultInv /\ RotationInv /\ [RotationNext]_<<vars, rotationVars>> => RotationInv'
<1> SUFFICES ASSUME VaultInv, RotationInv, [RotationNext]_<<vars, rotationVars>>
             PROVE  RotationInv'
  OBVIOUS
<1>1. CASE AddKey \/ Activate \/ RetireKey
  BY <1>1, OperatorKeeps
<1>2. CASE LoadKeys
  BY <1>2, LoadKeeps
<1>3. ASSUME NEW t \in Task, Ask(t)
      PROVE  RotationInv'
  BY <1>3, AskKeeps
<1>4. CASE /\ StartAnchor \/ StartAnchorFails \/ KeepAnchor \/ Admit \/ Crash
           /\ UNCHANGED rotationVars
  <2>1. Next /\ ~Open
    BY <1>4 DEF Next, Bootstrap, StartAnchor, StartAnchorFails, KeepAnchor, Admit, Crash, Open
  <2> QED
    BY <1>4, <2>1, StoreKeeps DEF rotationVars
<1>5. ASSUME NEW t \in Task, Step(t), UNCHANGED rotationVars
      PROVE  RotationInv'
  <2>1. pc[t] \in Waiting
    BY <1>5, ExecuteStage
    DEF Step, CheckTarget, Begin, Busy, Commit, CommitFails, ReadRows, ReadAnchor,
        ReadTail, Waiting
  <2>2. ~Open
    BY <2>1 DEF VaultInv, DataInv, CallsPlaced, Placed, Open
  <2>3. Next
    BY <1>5 DEF Next
  <2> QED
    BY <1>5, <2>2, <2>3, StoreKeeps DEF rotationVars
<1>6. CASE UNCHANGED <<vars, rotationVars>>
  <2>1. UNCHANGED <<db, phase, ring, pc, answer, call, file, asked>>
    BY <1>6 DEF vars, rotationVars
  <2> QED
    BY <2>1, QuietKeeps DEF Quiet, SameData, Settled, RotationInv
<1> QED
  BY <1>1, <1>2, <1>3, <1>4, <1>5, <1>6 DEF RotationNext

\* The keys of the runbook: the file has what every version needs, the ring of
\* a vault that is up opens all of them, and what rekey_all has reported holds.
THEOREM RotationInvariance == RotationSpec => []RotationInv
<1>1. RotationInit => RotationInv
  <2> SUFFICES ASSUME RotationInit PROVE RotationInv
    OBVIOUS
  <2>1. file \in Rings /\ asked = {} /\ db.versions = {} /\ phase = "down"
    BY DEF RotationInit, Init, EmptyDatabase
  <2> QED
    BY <2>1 DEF RotationInv, KeysAtHand, RekeyedForGood, Rekeyed
<1>2. VaultInv /\ RotationInv /\ [RotationNext]_<<vars, rotationVars>> => RotationInv'
  BY RotationStep
<1> QED
  BY <1>1, <1>2, StoreHolds, PTL DEF RotationSpec

\* No key is retired that a version still needs, and a vault that serves can
\* open all it holds.
THEOREM NothingIsOrphaned == RotationSpec => []NothingOrphaned
<1>1. RotationInv => NothingOrphaned
  BY DEF RotationInv, KeysAtHand, NothingOrphaned
<1> QED
  BY <1>1, RotationInvariance, PTL

-----------------------------------------------------------------------------
(* The invariant of the custody of the store *)

RowsNumbered(d) == \A i \in 1 .. Len(d.events) : d.events[i].id = i

Whole(events) == \A t \in Acknowledged : Retains(events, t)

\* Calls are under way only while the process serves, and it works only on a
\* database that has an identity.
Process ==
  /\ TypeOK
  /\ LockHeld
  /\ \A t \in Task : pc[t] \in Waiting => phase = "serving"
  /\ phase # "down" => db.id # None

\* A transaction comes to its commit only on a log that is whole, and adds one
\* event to it.
Pending(t) ==
  LET k == Len(db.events) + 1 IN
  /\ work.id = db.id
  /\ Len(work.events) = k
  /\ \A i \in 1 .. Len(db.events) : work.events[i] = db.events[i]
  /\ work.events[k].id = k
  /\ work.events[k].entry_hash = t
  /\ Whole(db.events)

PendingWhole == \A t \in Task : pc[t] = "commit" => Pending(t)

\* Each row of d has its record, in its place.
Vouched(d) ==
  \A i \in 1 .. Len(d.events) :
    /\ i + 1 <= Len(anchor.lines)
    /\ anchor.lines[i + 1].entry_hash = d.events[i].entry_hash

\* An anchor that nobody has touched: the number of a record is its place, all
\* that was acknowledged has one, and so has what is about to be; the database
\* and its copy are beginnings of what it says.
AnchorGenuine ==
  /\ ~anchor.exists => anchor.lines = << >>
  /\ \A j \in 1 .. Len(anchor.lines) : anchor.lines[j].event_id = j - 1
  /\ \A t \in Acknowledged :
       \E j \in 2 .. Len(anchor.lines) : anchor.lines[j].entry_hash = t
  /\ \A t \in Task : pc[t] = "commit" =>
       /\ Len(anchor.lines) = Len(db.events) + 2
       /\ LastLine(anchor).entry_hash = t
  /\ Vouched(db)
  /\ Vouched(backup)

Copies ==
  /\ backup \in Database /\ RowsNumbered(backup)
  /\ replica \in AnchorFile
  /\ touched \in { "none", "database", "anchor" }

CustodyInv ==
  /\ Process
  /\ RowsNumbered(db)
  /\ PendingWhole
  /\ Copies
  /\ touched # "anchor" => AnchorGenuine
  /\ touched # "database" => Whole(db.events)

-----------------------------------------------------------------------------
(* Agreement of anchor and database *)

\* If they agree, nothing that was acknowledged is missing: a database that
\* was rolled back or truncated is behind the anchor that vouches for it.
LEMMA AgreementIsWhole ==
  ASSUME CustodyInv, CheckpointHolds(anchor, db)
  PROVE  /\ Whole(db.events)
         /\ touched # "anchor" => Len(anchor.lines) = Len(db.events) + 1
<1>1. CASE touched = "anchor"
  BY <1>1 DEF CustodyInv
<1>2. CASE touched # "anchor"
  <2>1. AnchorGenuine
    BY <1>2 DEF CustodyInv
  <2>2. /\ TailId(db) = Len(db.events) /\ Len(db.events) \in Nat
        /\ db.events \in Seq(EventRow)
    BY TailOfLog DEF CustodyInv, Process, TypeOK, RowsNumbered, Database
  <2>3. anchor.lines \in Seq(Line) /\ anchor.lines # << >>
    BY DEF CheckpointHolds, Readable, CustodyInv, Process, TypeOK, AnchorFile
  <2>4. Len(anchor.lines) \in 1 .. Len(anchor.lines)
    BY <2>3
  <2>5. LastLine(anchor).event_id = Len(anchor.lines) - 1
    BY <2>1, <2>4 DEF AnchorGenuine, LastLine
  <2>6. Len(anchor.lines) = Len(db.events) + 1
    BY <2>2, <2>4, <2>5 DEF CheckpointHolds, Matches
  <2>7. ASSUME NEW t \in Acknowledged
        PROVE  Retains(db.events, t)
    <3>1. PICK j \in 2 .. Len(anchor.lines) : anchor.lines[j].entry_hash = t
      BY <2>1 DEF AnchorGenuine
    <3>2. j - 1 \in 1 .. Len(db.events) /\ (j - 1) + 1 = j
      BY <2>2, <2>4, <2>6, <3>1
    <3>3. db.events[j - 1].entry_hash = t
      BY <2>1, <3>1, <3>2 DEF AnchorGenuine, Vouched
    <3> QED
      BY <2>2, <3>2, <3>3 DEF Retains
  <2> QED
    BY <2>6, <2>7 DEF Whole
<1> QED
  BY <1>1, <1>2

-----------------------------------------------------------------------------
(* What a method does *)

\* The record of the event of t is added to a file that agrees with the log.
Recorded(t) ==
  /\ CheckpointHolds(anchor, db)
  /\ db.id \in DatabaseId
  /\ \E e \in Extent :
       anchor' = Appended(anchor, Record(db.id, Len(db.events) + 1, t), e)

Enters(t) ==
  LET k == Len(db.events) + 1 IN
  /\ work' \in Database
  /\ work'.id = db.id
  /\ Len(work'.events) = k
  /\ \A i \in 1 .. Len(db.events) : work'.events[i] = db.events[i]
  /\ work'.events[k].id = k
  /\ work'.events[k].entry_hash = t
  /\ \E result \in Answer : /\ result.status = "ok"
                           /\ answer' = [answer EXCEPT ![t] = result]
  /\ pc' = [pc EXCEPT ![t] = "commit"]
  /\ UNCHANGED <<db, processVars, writer, call, seen>>

Abandons(t) == \E status \in Refusals : Rollback(t, status)

LEMMA AppendEffect ==
  ASSUME TypeOK, RowsNumbered(db), NEW t \in Task, call[t].op \in Op, NEW d \in Database,
         d.id = db.id, d.audit_seq = db.audit_seq, d.events = db.events,
         NEW name \in Name \cup {None}, NEW result \in Answer, result.status = "ok",
         AppendAudit(t, d, name, result)
  PROVE  \/ Abandons(t) /\ (anchor' = anchor \/ Recorded(t))
         \/ Enters(t) /\ Recorded(t)
<1> DEFINE record == Record(d.id, TailId(d) + 1, t)
<1>1. TailId(d) = Len(db.events) /\ TailId(d) = TailId(db) /\ TailHash(d) = TailHash(db)
  BY TailOfLog DEF TypeOK, RowsNumbered, TailId, TailHash
<1>2. CASE /\ AppendRefusal(d) # "none"
           /\ Reject(t, AppendRefusal(d))
  BY <1>2 DEF AppendRefusal, Reject, Abandons, Refusals
<1>3. ASSUME AppendRefusal(d) = "none"
      PROVE  /\ CheckpointHolds(anchor, db)
             /\ db.id \in DatabaseId
             /\ d.audit_seq = Len(d.events)
  <2>1. Continuous(anchor, db) /\ d.audit_seq = TailId(d)
    BY <1>1, <1>3 DEF AppendRefusal, Continuous
  <2>2. CheckpointHolds(anchor, db)
    BY <2>1 DEF Continuous, CheckpointHolds, Matches
  <2>3. anchor.lines \in Seq(Line) /\ anchor.lines # << >>
    BY <2>1 DEF TypeOK, AnchorFile, Continuous, Readable
  <2>4. LastLine(anchor) \in Line
    BY <2>3 DEF LastLine
  <2> QED
    BY <1>1, <2>1, <2>2, <2>4 DEF Continuous, Line
<1>4. ASSUME AppendRefusal(d) = "none", NEW e \in Extent,
             anchor' = Appended(anchor, record, e)
      PROVE  Recorded(t)
  BY <1>1, <1>3, <1>4 DEF Recorded
<1>5. CASE /\ AppendRefusal(d) = "none"
           /\ anchor' \in { Appended(anchor, record, e) : e \in Extent }
           /\ work' = WithEvent(d, t, name)
           /\ answer' = [answer EXCEPT ![t] = result]
           /\ pc' = [pc EXCEPT ![t] = "commit"]
           /\ UNCHANGED <<db, processVars, writer, call, seen>>
  <2>1. Recorded(t)
    BY <1>4, <1>5
  <2> DEFINE k == Len(d.events) + 1
             w == WithEvent(d, t, name)
  <2>2. /\ w \in Database /\ w.id = d.id
        /\ Len(w.events) = k
        /\ \A i \in 1 .. Len(d.events) : w.events[i] = d.events[i]
        /\ w.events[k].id = k
        /\ w.events[k].entry_hash = t
    <3>1. \A i \in 1 .. Len(d.events) : d.events[i].id = i
      BY DEF RowsNumbered
    <3> QED
      BY <1>3, <1>5, <3>1, WithEventType
  <2>3. work' = w
    BY <1>5
  <2> HIDE DEF w
  <2>4. Enters(t)
    BY <1>5, <2>2, <2>3 DEF Enters
  <2> QED
    BY <2>1, <2>4
<1>6. CASE /\ AppendRefusal(d) = "none"
           /\ anchor' \in Remnants(anchor, record)
           /\ \E status \in { "error", "crypto" } : Rollback(t, status)
  <2>1. Abandons(t)
    BY <1>6 DEF Abandons, Refusals
  <2>2. anchor' = anchor \/ \E e \in Extent : anchor' = Appended(anchor, record, e)
    BY <1>6 DEF Remnants
  <2> QED
    BY <1>4, <1>6, <2>1, <2>2
<1> QED
  BY <1>2, <1>5, <1>6 DEF AppendAudit

LEMMA ExecuteEffect ==
  ASSUME TypeOK, RowsNumbered(db), NEW t \in Task, Execute(t)
  PROVE  /\ pc[t] = "execute"
         /\ \/ Abandons(t) /\ (anchor' = anchor \/ Recorded(t))
            \/ Enters(t) /\ Recorded(t)
<1>1. pc[t] = "execute" /\ call[t].op \in Op
  BY ExecuteStage
<1>2. CASE Refuses(t)
  BY <1>1, <1>2 DEF Refuses, Reject, Abandons
<1>3. CASE Appends(t)
  BY <1>1, <1>3, AppendEffect DEF Appends
<1> QED
  BY <1>2, <1>3, ExecuteShape

\* The file after it.
LEMMA RecordedFile ==
  ASSUME TypeOK, NEW t \in Task, Recorded(t)
  PROVE  LET n == Len(anchor.lines) IN
         /\ anchor' \in AnchorFile
         /\ anchor'.exists
         /\ Len(anchor'.lines) = n + 1
         /\ \A j \in 1 .. n : /\ anchor'.lines[j].event_id = anchor.lines[j].event_id
                              /\ anchor'.lines[j].entry_hash = anchor.lines[j].entry_hash
         /\ anchor'.lines[n + 1].event_id = Len(db.events) + 1
         /\ anchor'.lines[n + 1].entry_hash = t
<1> DEFINE r == Record(db.id, Len(db.events) + 1, t)
<1>1. PICK e \in Extent : anchor' = Appended(anchor, r, e)
  BY DEF Recorded
<1>2. anchor \in AnchorFile /\ Len(db.events) + 1 \in Nat
  BY DEF TypeOK, Database
<1>3. /\ r \in Line /\ r.event_id = Len(db.events) + 1 /\ r.entry_hash = t
  BY <1>2, RecordType DEF Recorded
<1> HIDE DEF r
<1> QED
  BY <1>1, <1>2, <1>3, AppendedFile

-----------------------------------------------------------------------------
(* The process *)

LEMMA ProcessStart == Init => Process
<1>1. Init => TypeOK
  BY InitInv DEF Inv
<1> QED
  BY <1>1 DEF Init, Process, LockHeld, Waiting

\* A task that ends, or moves to a stage before its commit, changes the
\* process's invariant no further than its own stage does.
LEMMA TaskKeepsProcess ==
  ASSUME Process, TypeOK', NEW t \in Task, pc[t] \in Waiting,
         UNCHANGED phase, db'.id = db.id,
         \A u \in Task \ {t} : pc'[u] = pc[u],
         \/ UNCHANGED writer /\ (pc'[t] \in { "execute", "commit" } => writer = t)
         \/ writer \in {t, None} /\ writer' = t
         \/ writer = t /\ writer' = None /\ pc'[t] \notin { "execute", "commit" }
  PROVE  Process'
<1>1. LockHeld'
  BY NoneAssumption DEF Process, LockHeld, TypeOK
<1>2. (\A u \in Task : pc[u] \in Waiting => phase = "serving")'
  BY DEF Process
<1> QED
  BY <1>1, <1>2 DEF Process

LEMMA RollbackTypes ==
  ASSUME TypeOK, NEW t \in Task, Abandons(t), anchor' \in AnchorFile
  PROVE  TypeOK'
<1>1. \A status \in Refusals : Result(status, 0, None, {}) \in Answer
  BY DEF Result, Answer, Refusals, Status
<1> QED
  BY <1>1, EmptyDatabaseType
  DEF Abandons, Rollback, Finish, TypeOK, processVars, Stage

LEMMA ExecuteKeepsProcess ==
  ASSUME Process, RowsNumbered(db), NEW t \in Task, Execute(t)
  PROVE  Process'
<1>1. /\ pc[t] = "execute"
      /\ \/ Abandons(t) /\ (anchor' = anchor \/ Recorded(t))
         \/ Enters(t) /\ Recorded(t)
  BY ExecuteEffect DEF Process
<1>2. writer = t
  BY <1>1 DEF Process, LockHeld
<1>3. anchor' \in AnchorFile
  BY <1>1, RecordedFile DEF Process, TypeOK
<1>4. CASE Abandons(t)
  <2>1. TypeOK'
    BY <1>3, <1>4, RollbackTypes DEF Process
  <2>2. /\ UNCHANGED phase /\ db' = db /\ writer' = None
        /\ pc' = [pc EXCEPT ![t] = "done"]
    BY <1>4 DEF Abandons, Rollback, Finish, processVars
  <2> QED
    BY <1>1, <1>2, <2>1, <2>2, TaskKeepsProcess DEF Process, TypeOK, Waiting
<1>5. CASE Enters(t)
  <2>1. TypeOK'
    BY <1>3, <1>5 DEF Enters, Process, TypeOK, processVars, Stage, Waiting
  <2>2. /\ UNCHANGED <<phase, writer>> /\ db' = db
        /\ pc' = [pc EXCEPT ![t] = "commit"]
    BY <1>5 DEF Enters, processVars
  <2> QED
    BY <1>1, <1>2, <2>1, <2>2, TaskKeepsProcess DEF Process, TypeOK, Waiting
<1> QED
  BY <1>1, <1>4, <1>5

LEMMA CommitKeepsProcess ==
  ASSUME Process, PendingWhole, NEW t \in Task, Commit(t) \/ CommitFails(t)
  PROVE  Process'
<1>1. pc[t] = "commit" /\ writer = t
  BY DEF Commit, CommitFails, Process, LockHeld
<1>2. CASE Commit(t)
  <2>1. TypeOK'
    BY <1>2, EmptyDatabaseType DEF Commit, Process, TypeOK, processVars, Stage
  <2>2. db'.id = db.id
    BY <1>1, <1>2 DEF Commit, PendingWhole, Pending
  <2> QED
    BY <1>1, <1>2, <2>1, <2>2, TaskKeepsProcess
    DEF Commit, processVars, Process, TypeOK, Waiting
<1>3. CASE CommitFails(t)
  <2>1. Abandons(t) /\ UNCHANGED anchor
    BY <1>3 DEF CommitFails, Reject, Abandons, Refusals
  <2>2. TypeOK'
    BY <2>1, RollbackTypes DEF Process, TypeOK
  <2>3. /\ UNCHANGED phase /\ db' = db /\ writer' = None
        /\ pc' = [pc EXCEPT ![t] = "done"]
    BY <2>1 DEF Abandons, Rollback, Finish, processVars
  <2> QED
    BY <1>1, <2>2, <2>3, TaskKeepsProcess DEF Process, TypeOK, Waiting
<1> QED
  BY <1>2, <1>3

\* What moves a task and touches nothing that is stored.
Paces(t) ==
  CheckTarget(t) \/ Begin(t) \/ Busy(t) \/ ReadRows(t) \/ ReadAnchor(t) \/ ReadTail(t)

LEMMA PacesKeepProcess ==
  ASSUME Process, RowsNumbered(db), NEW t \in Task, Paces(t)
  PROVE  /\ Process'
         /\ UNCHANGED <<db, anchor, work>>
         /\ \A u \in Task \ {t} : pc'[u] = pc[u] /\ answer'[u] = answer[u]
         /\ pc[t] \notin { "commit", "done" } /\ pc'[t] # "commit"
         /\ pc'[t] = "done" => answer'[t].status # "ok"
<1>1. TypeOK'
  <2>1. CASE ReadRows(t) \/ ReadAnchor(t) \/ ReadTail(t)
    BY <2>1, ReadTypes DEF Process, RowsNumbered
  <2>2. \A status \in Refusals : Result(status, 0, None, {}) \in Answer
    BY DEF Result, Answer, Refusals, Status
  <2>3. CASE CheckTarget(t) \/ Busy(t)
    BY <2>2, <2>3
    DEF CheckTarget, Busy, Refusals, Process, TypeOK, Finish, processVars, Stage, Waiting
  <2>4. CASE Begin(t)
    BY <2>4 DEF Begin, Process, TypeOK, processVars, Stage, Waiting
  <2> QED
    BY <2>1, <2>3, <2>4 DEF Paces
<1>2. /\ UNCHANGED <<db, anchor, work, phase>>
      /\ pc[t] \in Waiting \ { "execute", "commit" }
  BY DEF Paces, CheckTarget, Begin, Busy, ReadRows, ReadAnchor, ReadTail, unread,
         processVars, Waiting
<1>3. \E s \in { "begin", "execute", "anchor", "tail", "done" } :
        /\ pc' = [pc EXCEPT ![t] = s]
        /\ s = "execute" => writer = None /\ writer' = t
        /\ s # "execute" => writer' = writer
        /\ s # "done" => answer' = answer
        /\ s = "done" => \E result : /\ result.status # "ok"
                                    /\ answer' = [answer EXCEPT ![t] = result]
  <2>1. CASE CheckTarget(t)
    BY <2>1 DEF CheckTarget, Finish, Result
  <2>2. CASE Begin(t)
    BY <2>2 DEF Begin
  <2>3. CASE Busy(t)
    BY <2>3 DEF Busy, Finish, Result
  <2>4. CASE ReadRows(t)
    BY <2>4 DEF ReadRows, Finish, Result, unread
  <2>5. CASE ReadAnchor(t)
    BY <2>5 DEF ReadAnchor, Finish, Result, unread
  <2>6. CASE ReadTail(t)
    <3> DEFINE status == IF Matches(seen[t].line, db) THEN "valid" ELSE "invalid"
               result == Result(status, Reported(t), TailHash(db), {})
    <3>1. result.status # "ok"
      BY DEF Result
    <3>2. /\ pc' = [pc EXCEPT ![t] = "done"] /\ writer' = writer
          /\ answer' = [answer EXCEPT ![t] = result]
      BY <2>6 DEF ReadTail, Finish, unread
    <3> HIDE DEF result
    <3> QED
      BY <3>1, <3>2
  <2> QED
    BY <2>1, <2>2, <2>3, <2>4, <2>5, <2>6 DEF Paces
<1>4. /\ \A u \in Task \ {t} : pc'[u] = pc[u] /\ answer'[u] = answer[u]
      /\ pc'[t] # "commit"
      /\ pc'[t] = "done" => answer'[t].status # "ok"
      /\ \/ writer' = writer /\ pc'[t] # "execute"
         \/ writer = None /\ writer' = t
  BY <1>3 DEF Process, TypeOK
<1>5. Process'
  BY <1>1, <1>2, <1>4, TaskKeepsProcess
<1> QED
  BY <1>2, <1>4, <1>5 DEF Waiting

LEMMA BootstrapKeepsProcess ==
  ASSUME Process, Bootstrap
  PROVE  /\ Process'
         /\ db'.events = db.events
         /\ UNCHANGED taskVars
         /\ \/ anchor' = anchor
            \/ /\ phase = "opened"
               /\ ~anchor.exists
               /\ db.events = << >>
               /\ \/ anchor' = [exists |-> TRUE, lines |-> << >>]
                  \/ \E e \in Extent : anchor' = Appended(anchor, Genesis, e)
<1> USE DEF taskVars
<1>1. CASE Open
  <2>1. /\ db' \in Database
        /\ db'.id # None
        /\ db'.events = db.events
    <3>1. CASE db.id # None
      BY <1>1, <3>1 DEF Open, Process, TypeOK
    <3>2. CASE db.id = None
      <4>1. PICK id \in DatabaseId : db' = [db EXCEPT !.id = id]
        BY <1>1, <3>2 DEF Open, FreshIds
      <4>2. db' = [ id |-> id, secret_seq |-> db.secret_seq,
                    audit_seq |-> db.audit_seq, secrets |-> db.secrets,
                    versions |-> db.versions, events |-> db.events ]
        BY <4>1 DEF Process, TypeOK, Database
      <4> QED
        BY <4>2, NoneAssumption DEF Process, TypeOK, Database
    <3> QED
      BY <3>1, <3>2
  <2>2. TypeOK'
    BY <1>1, <2>1 DEF Open, Process, TypeOK, Rings
  <2> QED
    BY <1>1, <2>1, <2>2 DEF Open, Process, LockHeld
<1>2. ASSUME phase = "opened", NEW e \in Extent
      PROVE  Appended(anchor, Genesis, e) \in AnchorFile
  <2>1. db.id \in DatabaseId
    BY <1>2 DEF Process, TypeOK, Database
  <2>2. Genesis \in Line
    BY <2>1, RecordType DEF Genesis
  <2> QED
    BY <2>2, AppendedFile DEF Process, TypeOK
<1>3. CASE StartAnchor \/ StartAnchorFails
  <2>1. /\ phase = "opened" /\ ~anchor.exists /\ db.events = << >>
        /\ \/ anchor' = anchor
           \/ anchor' = [exists |-> TRUE, lines |-> << >>]
           \/ \E e \in Extent : anchor' = Appended(anchor, Genesis, e)
        /\ phase' \in { "anchored", "down" }
        /\ UNCHANGED <<db, ring, taskVars>>
    BY <1>3 DEF StartAnchor, StartAnchorFails, Remnants
  <2>2. [exists |-> TRUE, lines |-> << >>] \in AnchorFile
    BY EmptySeq DEF AnchorFile
  <2>3. anchor' \in AnchorFile
    BY <1>2, <2>1, <2>2 DEF Process, TypeOK
  <2>4. TypeOK'
    BY <2>1, <2>3 DEF Process, TypeOK
  <2> QED
    BY <2>1, <2>4 DEF Process, LockHeld
<1>4. CASE KeepAnchor \/ Admit
  <2>1. TypeOK'
    BY <1>4 DEF KeepAnchor, Admit, Process, TypeOK
  <2>2. UNCHANGED <<db, anchor, taskVars>> /\ phase \in { "opened", "anchored" }
    BY <1>4 DEF KeepAnchor, Admit
  <2> QED
    BY <2>1, <2>2 DEF Process, LockHeld
<1> QED
  BY <1>1, <1>3, <1>4 DEF Bootstrap

LEMMA CrashKeepsProcess ==
  ASSUME Process, Crash
  PROVE  /\ Process'
         /\ \A u \in Task : /\ pc'[u] # "commit"
                            /\ pc'[u] = "done" => pc[u] = "done" /\ answer'[u] = answer[u]
<1>1. NoAnswer \in Answer
  BY DEF NoAnswer, Answer, Result, Status
<1>2. TypeOK'
  BY <1>1, EmptyDatabaseType DEF Crash, Process, TypeOK, Stage, Waiting
<1>3. \A u \in Task :
        /\ pc'[u] \notin Waiting
        /\ pc'[u] = "done" => pc[u] = "done" /\ answer'[u] = answer[u]
  BY DEF Crash, Process, TypeOK, Waiting
<1> QED
  BY <1>2, <1>3 DEF Process, LockHeld, Crash, Waiting

LEMMA ArriveKeepsProcess ==
  ASSUME Process, NEW t \in Task, Arrive(t)
  PROVE  /\ Process'
         /\ UNCHANGED <<db, anchor, work, answer>>
         /\ \A u \in Task : pc'[u] \in { "commit", "done" } => pc'[u] = pc[u]
<1>1. TypeOK'
  BY DEF Process, TypeOK, Arrive, FirstStage, processVars, Stage, Waiting
<1>2. /\ UNCHANGED <<db, anchor, work, answer, phase, writer>> /\ phase = "serving"
      /\ \A u \in Task : pc'[u] \in { "commit", "done", "execute" } => pc'[u] = pc[u]
  BY DEF Process, TypeOK, Arrive, FirstStage, processVars
<1> QED
  BY <1>1, <1>2 DEF Process, LockHeld

-----------------------------------------------------------------------------
(* The rest of the invariant, while the vault works *)

\* A step that commits nothing, answers nothing from the log, and leaves both
\* sides as they are, leaves the rest as it is.
Silent ==
  /\ db'.events = db.events
  /\ Acknowledged' \subseteq Acknowledged
  /\ \A u \in Task : pc'[u] = "commit" => pc[u] = "commit" /\ db'.id = db.id /\ work' = work

LEMMA SilentKeeps ==
  ASSUME CustodyInv, Process', Silent, UNCHANGED <<anchor, custodyVars>>
  PROVE  CustodyInv'
<1> USE DEF custodyVars
<1>1. ASSUME Whole(db.events)
      PROVE  Whole(db.events)'
  BY <1>1 DEF Silent, Whole, Retains
<1>2. RowsNumbered(db)' /\ Copies'
  BY DEF Silent, CustodyInv, Copies, RowsNumbered
<1>3. PendingWhole'
  BY <1>1 DEF Silent, CustodyInv, PendingWhole, Pending
<1>4. ASSUME AnchorGenuine
      PROVE  AnchorGenuine'
  BY <1>4 DEF Silent, AnchorGenuine, Vouched, LastLine
<1> QED
  BY <1>1, <1>2, <1>3, <1>4 DEF CustodyInv

\* The genesis record, or a part of it.
LEMMA GenesisKeeps ==
  ASSUME CustodyInv, Process', Silent, UNCHANGED <<custodyVars, taskVars>>,
         phase = "opened", ~anchor.exists, db.events = << >>,
         \/ anchor' = [exists |-> TRUE, lines |-> << >>]
         \/ \E e \in Extent : anchor' = Appended(anchor, Genesis, e)
  PROVE  CustodyInv'
<1> USE DEF custodyVars, taskVars
<1>1. ASSUME Whole(db.events)
      PROVE  Whole(db.events)'
  BY <1>1 DEF Silent, Whole, Retains
<1>2. RowsNumbered(db)' /\ Copies'
  BY DEF Silent, CustodyInv, Copies, RowsNumbered
<1>3. PendingWhole'
  BY <1>1 DEF Silent, CustodyInv, PendingWhole, Pending
<1>4. ASSUME AnchorGenuine
      PROVE  AnchorGenuine'
  <2>1. /\ anchor.lines = << >> /\ Len(anchor.lines) = 0 /\ Len(db.events) = 0
        /\ anchor.lines \in Seq(Line)
    BY <1>4, EmptySeq, ZenonT(40) DEF AnchorGenuine
  <2>2. \A t \in Task : pc'[t] # "commit"
    BY DEF CustodyInv, Process, Waiting
  <2>3. Acknowledged' = {}
    BY <1>4, <2>1 DEF Silent, AnchorGenuine
  <2>4. Len(backup.events) = 0
    <3>1. Len(backup.events) \in Nat
      BY DEF CustodyInv, Copies, Database
    <3> QED
      BY <1>4, <2>1, <3>1 DEF AnchorGenuine, Vouched
  <2>5. anchor'.exists /\ \A j \in 1 .. Len(anchor'.lines) : anchor'.lines[j].event_id = j - 1
    <3>1. CASE anchor' = [exists |-> TRUE, lines |-> << >>]
      BY <3>1, EmptySeq
    <3>2. CASE \E e \in Extent : anchor' = Appended(anchor, Genesis, e)
      <4>1. PICK e \in Extent : anchor' = Appended(anchor, Genesis, e)
        BY <3>2
      <4>2. db.id \in DatabaseId
        BY DEF CustodyInv, Process, TypeOK, Database
      <4>3. Genesis \in Line /\ Genesis.event_id = 0
        <5>1. Genesis \in Line
          BY <4>2, RecordType DEF Genesis
        <5>2. Genesis.event_id = 0
          BY DEF Genesis, Record
        <5> QED
          BY <5>1, <5>2
      <4>4. /\ anchor'.exists
            /\ Len(anchor'.lines) = 1
            /\ anchor'.lines[1].event_id = 0
        <5> DEFINE b == Appended(anchor, Genesis, e)
        <5>1. anchor \in AnchorFile
          BY DEF CustodyInv, Process, TypeOK
        <5>2. /\ b.exists
              /\ Len(b.lines) = Len(anchor.lines) + 1
              /\ b.lines[Len(anchor.lines) + 1].event_id = Genesis.event_id
          BY <4>3, <5>1, AppendedFile
        <5>3. anchor' = b
          BY <4>1
        <5> HIDE DEF b
        <5> QED
          BY <2>1, <4>3, <5>2, <5>3
      <4> QED
        BY <4>4
    <3> QED
      BY <3>1, <3>2
  <2> QED
    BY <2>1, <2>2, <2>3, <2>4, <2>5 DEF Silent, AnchorGenuine, Vouched
<1> QED
  BY <1>1, <1>2, <1>3, <1>4 DEF CustodyInv

\* The record of an event: it is added only to a file that agrees with the log.
LEMMA RecordKeeps ==
  ASSUME CustodyInv, NEW t \in Task, Recorded(t), UNCHANGED <<db, custodyVars>>,
         Acknowledged' \subseteq Acknowledged,
         \A u \in Task : pc'[u] = "commit" => u = t
  PROVE  /\ Whole(db.events)
         /\ (touched # "anchor" => AnchorGenuine)'
<1> DEFINE n == Len(anchor.lines)
<1>1. /\ Whole(db.events)
      /\ touched # "anchor" => n = Len(db.events) + 1
  BY AgreementIsWhole DEF Recorded
<1>2. ASSUME touched # "anchor"
      PROVE  AnchorGenuine'
  <2>1. AnchorGenuine /\ n = Len(db.events) + 1
    BY <1>1, <1>2 DEF CustodyInv
  <2>2. /\ Len(db.events) \in Nat
        /\ Len(backup.events) \in Nat
    BY DEF CustodyInv, Process, TypeOK, Copies, Database
  <2>3. /\ anchor'.exists
        /\ Len(anchor'.lines) = n + 1
        /\ \A j \in 1 .. n : /\ anchor'.lines[j].event_id = anchor.lines[j].event_id
                             /\ anchor'.lines[j].entry_hash = anchor.lines[j].entry_hash
        /\ anchor'.lines[n + 1].event_id = Len(db.events) + 1
        /\ anchor'.lines[n + 1].entry_hash = t
    BY RecordedFile DEF CustodyInv, Process
  <2> HIDE DEF n
  <2>4. \A j \in 1 .. n + 1 : anchor'.lines[j].event_id = j - 1
    <3> TAKE j \in 1 .. n + 1
    <3>1. CASE j = n + 1
      BY <2>1, <2>2, <2>3, <3>1
    <3>2. CASE j \in 1 .. n
      BY <2>1, <2>3, <3>2 DEF AnchorGenuine, n
    <3> QED
      BY <2>1, <2>2, <3>1, <3>2
  <2>5. ASSUME NEW u \in Acknowledged
        PROVE  \E j \in 2 .. n + 1 : anchor'.lines[j].entry_hash = u
    <3>1. PICK j \in 2 .. n : anchor.lines[j].entry_hash = u
      BY <2>1 DEF AnchorGenuine, n
    <3> QED
      BY <2>1, <2>2, <2>3, <3>1
  <2>6. ASSUME NEW d, Len(d.events) \in Nat, Vouched(d), NEW i \in 1 .. Len(d.events)
        PROVE  /\ i + 1 <= Len(anchor'.lines)
               /\ anchor'.lines[i + 1].entry_hash = d.events[i].entry_hash
    <3>1. i + 1 <= n /\ anchor.lines[i + 1].entry_hash = d.events[i].entry_hash
      BY <2>6 DEF Vouched, n
    <3>2. i + 1 \in 1 .. n
      BY <2>1, <2>2, <2>6, <3>1
    <3> QED
      BY <2>1, <2>2, <2>3, <2>6, <3>1, <3>2
  <2>7. Vouched(db)' /\ Vouched(backup)'
    <3>1. db' = db /\ backup' = backup
      BY DEF custodyVars
    <3>2. Vouched(db) /\ Vouched(backup)
      BY <2>1 DEF AnchorGenuine
    <3>3. Vouched(db)'
      BY <2>2, <2>6, <3>1, <3>2, SMTT(20) DEF Vouched
    <3>4. Vouched(backup)'
      BY <2>2, <2>6, <3>1, <3>2 DEF Vouched
    <3> QED
      BY <3>3, <3>4
  <2>8. LastLine(anchor)'.entry_hash = t
    BY <2>3 DEF LastLine
  <2> QED
    BY <2>1, <2>2, <2>3, <2>4, <2>5, <2>7, <2>8 DEF AnchorGenuine
<1> QED
  BY <1>1, <1>2 DEF custodyVars

LEMMA ExecuteKeepsCustody ==
  ASSUME CustodyInv, NEW t \in Task, Execute(t), UNCHANGED custodyVars
  PROVE  CustodyInv'
<1>1. Process'
  BY ExecuteKeepsProcess DEF CustodyInv
<1>2. /\ pc[t] = "execute"
      /\ \/ Abandons(t) /\ (anchor' = anchor \/ Recorded(t))
         \/ Enters(t) /\ Recorded(t)
  BY ExecuteEffect DEF CustodyInv, Process
<1>3. \A u \in Task : pc[u] # "commit"
  BY <1>2 DEF CustodyInv, Process, LockHeld
<1>4. CASE Abandons(t)
  <2>1. PICK status \in Refusals :
          /\ pc' = [pc EXCEPT ![t] = "done"]
          /\ answer' = [answer EXCEPT ![t] = Result(status, 0, None, {})]
          /\ db' = db
    BY <1>4 DEF Abandons, Rollback, Finish
  <2>2. Result(status, 0, None, {}).status # "ok"
    BY DEF Result, Refusals
  <2>3. Acknowledged' \subseteq Acknowledged
    BY <2>1, <2>2 DEF Acknowledged, CustodyInv, Process, TypeOK
  <2>4. \A u \in Task : pc'[u] # "commit"
    BY <1>3, <2>1 DEF CustodyInv, Process, TypeOK
  <2>5. CASE anchor' = anchor
    <3>1. Silent
      BY <2>1, <2>3, <2>4 DEF Silent
    <3> QED
      BY <1>1, <2>5, <3>1, SilentKeeps
  <2>6. CASE Recorded(t)
    <3>1. (touched # "anchor" => AnchorGenuine)'
      BY <2>1, <2>3, <2>4, <2>6, RecordKeeps
    <3>2. PendingWhole'
      BY <2>4 DEF PendingWhole
    <3>3. (touched # "database" => Whole(db.events))'
      BY <2>1, <2>3 DEF CustodyInv, Whole, Retains, custodyVars
    <3> QED
      BY <1>1, <2>1, <3>1, <3>2, <3>3 DEF CustodyInv, Copies, RowsNumbered, custodyVars
  <2> QED
    BY <1>2, <1>4, <2>5, <2>6 DEF Enters
<1>5. CASE Enters(t) /\ Recorded(t)
  <2>1. /\ db' = db
        /\ pc' = [pc EXCEPT ![t] = "commit"]
        /\ \E result \in Answer : answer' = [answer EXCEPT ![t] = result]
    BY <1>5 DEF Enters
  <2>2. Acknowledged' \subseteq Acknowledged
    BY <2>1 DEF Acknowledged, CustodyInv, Process, TypeOK
  <2>3. \A u \in Task : pc'[u] = "commit" => u = t
    BY <1>3, <2>1 DEF CustodyInv, Process, TypeOK
  <2>4. Whole(db.events) /\ (touched # "anchor" => AnchorGenuine)'
    BY <1>5, <2>1, <2>2, <2>3, RecordKeeps
  <2>5. Whole(db.events)'
    BY <2>1, <2>2, <2>4 DEF Whole, Retains
  <2>6. PendingWhole'
    BY <1>5, <2>1, <2>3, <2>5 DEF Enters, PendingWhole, Pending
  <2> QED
    BY <1>1, <2>1, <2>4, <2>5, <2>6 DEF CustodyInv, Copies, RowsNumbered, custodyVars
<1> QED
  BY <1>2, <1>4, <1>5

\* The log that a commit leaves has all of the old one, and the new event.
LEMMA CommitIsWhole ==
  ASSUME CustodyInv, NEW t \in Task, Commit(t)
  PROVE  /\ \A u \in Acknowledged : Retains(db'.events, u)
         /\ Whole(db.events)'
         /\ Acknowledged' \subseteq Acknowledged \cup {t}
<1> DEFINE k == Len(db.events) + 1
<1>1. Pending(t) /\ db' = work
  BY DEF Commit, CustodyInv, PendingWhole
<1>2. /\ db.events \in Seq(EventRow) /\ Len(db.events) \in Nat
      /\ work.events \in Seq(EventRow)
  BY DEF CustodyInv, Process, TypeOK, Database
<1>3. ASSUME NEW u \in Acknowledged
      PROVE  Retains(work.events, u)
  <2>1. PICK i \in 1 .. Len(db.events) : db.events[i].entry_hash = u
    BY <1>1, <1>2 DEF Pending, Whole, Retains
  <2>2. i \in 1 .. Len(work.events) /\ work.events[i].entry_hash = u
    BY <1>1, <1>2, <2>1 DEF Pending
  <2> QED
    BY <1>2, <2>2 DEF Retains
<1>4. Retains(work.events, t)
  <2>1. k \in 1 .. Len(work.events) /\ work.events[k].entry_hash = t
    BY <1>1, <1>2 DEF Pending
  <2> QED
    BY <1>2, <2>1 DEF Retains
<1>5. Acknowledged' \subseteq Acknowledged \cup {t}
  BY DEF Commit, Acknowledged, CustodyInv, Process, TypeOK
<1>6. Whole(db.events)'
  BY <1>1, <1>3, <1>4, <1>5 DEF Whole, Retains
<1> QED
  BY <1>1, <1>3, <1>5, <1>6

LEMMA CommitKeepsCustody ==
  ASSUME CustodyInv, NEW t \in Task, Commit(t), UNCHANGED custodyVars
  PROVE  CustodyInv'
<1> DEFINE k == Len(db.events) + 1
<1>1. Process'
  BY CommitKeepsProcess DEF CustodyInv
<1>2. /\ Whole(db.events)'
      /\ Acknowledged' \subseteq Acknowledged \cup {t}
  BY CommitIsWhole
<1>3. Pending(t) /\ pc[t] = "commit" /\ db' = work /\ UNCHANGED anchor
  BY DEF Commit, CustodyInv, PendingWhole
<1>4. Len(db.events) \in Nat /\ Len(work.events) = k
  BY <1>3 DEF CustodyInv, Process, TypeOK, Database, Pending
<1>5. \A u \in Task : pc'[u] # "commit"
  BY DEF Commit, CustodyInv, Process, LockHeld, TypeOK
<1>6. RowsNumbered(db)'
  <2> SUFFICES ASSUME NEW i \in 1 .. k PROVE work.events[i].id = i
    BY <1>3, <1>4 DEF RowsNumbered
  <2>1. CASE i = k
    BY <1>3, <2>1 DEF Pending
  <2>2. CASE i \in 1 .. Len(db.events)
    BY <1>3, <2>2 DEF Pending, CustodyInv, RowsNumbered
  <2> QED
    BY <1>4, <2>1, <2>2
<1>7. ASSUME touched # "anchor"
      PROVE  AnchorGenuine'
  <2>1. /\ AnchorGenuine
        /\ Len(anchor.lines) = k + 1
        /\ anchor.lines[k + 1].entry_hash = t
    BY <1>3, <1>7 DEF CustodyInv, AnchorGenuine, LastLine
  <2>2. Vouched(db)'
    <3> SUFFICES ASSUME NEW i \in 1 .. k
                 PROVE  /\ i + 1 <= Len(anchor.lines)
                        /\ anchor.lines[i + 1].entry_hash = work.events[i].entry_hash
      BY <1>3, <1>4 DEF Vouched
    <3>1. CASE i = k
      BY <1>3, <1>4, <2>1, <3>1 DEF Pending
    <3>2. CASE i \in 1 .. Len(db.events)
      BY <1>3, <2>1, <3>2 DEF Pending, AnchorGenuine, Vouched
    <3> QED
      BY <1>4, <3>1, <3>2
  <2>3. Vouched(backup)'
    BY <1>3, <2>1 DEF AnchorGenuine, Vouched, custodyVars
  <2>4. ASSUME NEW u \in Acknowledged'
        PROVE  \E j \in 2 .. Len(anchor.lines) : anchor.lines[j].entry_hash = u
    <3>1. CASE u = t
      BY <1>4, <2>1, <3>1
    <3>2. CASE u \in Acknowledged
      BY <2>1, <3>2 DEF AnchorGenuine
    <3> QED
      BY <1>2, <3>1, <3>2
  <2> QED
    BY <1>3, <1>5, <2>1, <2>2, <2>3, <2>4 DEF AnchorGenuine
<1>8. PendingWhole'
  BY <1>5 DEF PendingWhole
<1> QED
  BY <1>1, <1>2, <1>6, <1>7, <1>8 DEF CustodyInv, Copies, RowsNumbered, custodyVars

-----------------------------------------------------------------------------
(* What the operator does *)

LEMMA BackupKeeps == CustodyInv /\ Backup => CustodyInv'
<1> SUFFICES ASSUME CustodyInv, Backup PROVE CustodyInv'
  OBVIOUS
<1>1. /\ backup' = db /\ replica' = anchor
      /\ touched' = touched /\ touched = "none"
      /\ UNCHANGED <<db, anchor, phase, ring, writer, work, pc, call, seen, answer>>
  BY DEF Backup, vars
<1>2. Process' /\ PendingWhole' /\ Whole(db.events)' /\ RowsNumbered(db)'
  BY <1>1
  DEF CustodyInv, Process, TypeOK, LockHeld, PendingWhole, Pending, Whole, Retains,
      Acknowledged, RowsNumbered
<1>3. Copies'
  BY <1>1 DEF CustodyInv, Process, TypeOK, Copies, RowsNumbered
<1>4. AnchorGenuine'
  BY <1>1 DEF CustodyInv, AnchorGenuine, Vouched, LastLine, Acknowledged
<1> QED
  BY <1>2, <1>3, <1>4 DEF CustodyInv

\* Another database is put in place only while no call is under way.
LEMMA DatabaseReplaced ==
  ASSUME CustodyInv, NEW d \in Database, d.events = << >> \/ d = backup,
         ReplaceDatabase(d)
  PROVE  CustodyInv'
<1>1. /\ db' = d /\ phase = "down" /\ touched \in { "none", "database" }
      /\ touched' = "database"
      /\ UNCHANGED <<anchor, phase, ring, writer, work, pc, call, seen, answer, backup,
                     replica>>
  BY DEF ReplaceDatabase, Touches, runVars
<1>2. \A t \in Task : pc[t] \notin Waiting
  BY <1>1 DEF CustodyInv, Process
<1>3. RowsNumbered(d) /\ (AnchorGenuine => Vouched(d))
  <2>1. CASE d = backup
    BY <2>1 DEF CustodyInv, Copies, AnchorGenuine
  <2>2. CASE d.events = << >>
    BY <2>2, EmptySeq DEF RowsNumbered, Vouched
  <2> QED
    BY <2>1, <2>2
<1>4. Process' /\ PendingWhole' /\ Copies'
  BY <1>1, <1>2
  DEF CustodyInv, Process, TypeOK, LockHeld, PendingWhole, Copies, RowsNumbered, Waiting
<1>5. AnchorGenuine'
  BY <1>1, <1>2, <1>3
  DEF CustodyInv, AnchorGenuine, Vouched, Acknowledged, LastLine, Waiting
<1> QED
  BY <1>1, <1>3, <1>4, <1>5 DEF CustodyInv, RowsNumbered

\* Nor is a row deleted while a transaction runs.
LEMMA TailDeleted == CustodyInv /\ DeleteTail => CustodyInv'
<1> SUFFICES ASSUME CustodyInv, DeleteTail PROVE CustodyInv'
  OBVIOUS
<1> DEFINE s == db.events
           rest == SubSeq(s, 1, Len(s) - 1)
<1>1. /\ db' = [db EXCEPT !.events = rest]
      /\ writer = None /\ s # << >> /\ touched \in { "none", "database" }
      /\ touched' = "database"
      /\ UNCHANGED <<anchor, phase, ring, writer, work, pc, call, seen, answer, backup,
                     replica>>
  BY DEF DeleteTail, Touches, runVars
<1>2. s \in Seq(EventRow) /\ Len(s) \in Nat /\ db \in Database
  BY DEF CustodyInv, Process, TypeOK, Database
<1>3. Len(s) \in 1 .. Len(s)
  BY <1>1, <1>2
<1>4. /\ rest \in Seq(EventRow) /\ Len(rest) = Len(s) - 1
      /\ \A i \in 1 .. Len(s) - 1 : rest[i] = s[i]
  BY <1>2, <1>3
<1> HIDE DEF rest
<1>5. db' \in Database /\ db'.events = rest /\ db'.id = db.id
  BY <1>1, <1>2, <1>4 DEF Database
<1>6. \A t \in Task : pc[t] \notin { "execute", "commit" }
  BY <1>1, NoneAssumption DEF CustodyInv, Process, LockHeld
<1>7. Process' /\ PendingWhole' /\ Copies'
  BY <1>1, <1>5, <1>6
  DEF CustodyInv, Process, TypeOK, LockHeld, PendingWhole, Copies, RowsNumbered
<1>8. RowsNumbered(db)'
  BY <1>2, <1>4, <1>5 DEF CustodyInv, RowsNumbered
<1>9. AnchorGenuine'
  <2>1. AnchorGenuine
    BY <1>1 DEF CustodyInv
  <2>2. Vouched(db)'
    BY <1>1, <1>2, <1>4, <1>5, <2>1 DEF AnchorGenuine, Vouched
  <2> QED
    BY <1>1, <1>6, <2>1, <2>2 DEF AnchorGenuine, Vouched, Acknowledged
<1> QED
  BY <1>1, <1>7, <1>8, <1>9 DEF CustodyInv

\* Whatever is done to the anchor, the database is what the store left.
LEMMA AnchorTouched ==
  ASSUME CustodyInv, RestoreAnchor \/ LoseAnchor
  PROVE  CustodyInv'
<1>1. /\ anchor' \in { replica, NoFile } /\ touched \in { "none", "anchor" }
      /\ touched' = "anchor"
      /\ UNCHANGED <<db, phase, ring, writer, work, pc, call, seen, answer, backup, replica>>
  BY DEF RestoreAnchor, LoseAnchor, Touches, runVars
<1>2. NoFile \in AnchorFile
  BY EmptySeq DEF NoFile, AnchorFile
<1>3. Process' /\ Copies' /\ RowsNumbered(db)'
  BY <1>1, <1>2 DEF CustodyInv, Process, TypeOK, LockHeld, Copies, RowsNumbered
<1>4. Whole(db.events)'
  BY <1>1 DEF CustodyInv, Whole, Retains, Acknowledged
<1>5. PendingWhole'
  BY <1>1, <1>4 DEF CustodyInv, PendingWhole, Pending
<1> QED
  BY <1>1, <1>3, <1>4, <1>5 DEF CustodyInv

LEMMA OperatorKeepsCustody == CustodyInv /\ Custody => CustodyInv'
<1> SUFFICES ASSUME CustodyInv, Custody PROVE CustodyInv'
  OBVIOUS
<1>1. CASE RestoreDatabase
  BY <1>1, DatabaseReplaced DEF RestoreDatabase, CustodyInv, Copies
<1>2. CASE LoseDatabase
  <2>1. EmptyDatabase.events = << >>
    BY DEF EmptyDatabase
  <2> QED
    BY <1>2, <2>1, DatabaseReplaced, EmptyDatabaseType DEF LoseDatabase
<1> QED
  BY <1>1, <1>2, BackupKeeps, TailDeleted, AnchorTouched DEF Custody

-----------------------------------------------------------------------------
(* The invariant holds *)

LEMMA CustodyStart == CustodyInit => CustodyInv
<1> SUFFICES ASSUME CustodyInit PROVE CustodyInv
  OBVIOUS
<1>1. Process
  BY ProcessStart DEF CustodyInit
<1>2. /\ Len(EmptyDatabase.events) = 0 /\ EmptyDatabase \in Database
      /\ db = EmptyDatabase /\ backup = EmptyDatabase
      /\ anchor = NoFile /\ replica = NoFile /\ touched = "none"
      /\ \A t \in Task : pc[t] = "idle"
  BY EmptyDatabaseType, EmptySeq DEF CustodyInit, Init, EmptyDatabase
<1>3. NoFile \in AnchorFile /\ NoFile.lines = << >> /\ Len(NoFile.lines) = 0
  BY EmptySeq DEF NoFile, AnchorFile
<1>4. Acknowledged = {}
  BY <1>2 DEF Acknowledged
<1>5. Copies /\ RowsNumbered(db) /\ PendingWhole /\ Whole(db.events)
  BY <1>2, <1>3, <1>4 DEF Copies, RowsNumbered, PendingWhole, Whole
<1>6. AnchorGenuine
  BY <1>2, <1>3, <1>4 DEF AnchorGenuine, Vouched
<1> QED
  BY <1>1, <1>5, <1>6 DEF CustodyInv

LEMMA StoreKeepsCustody ==
  ASSUME CustodyInv, [Next]_vars, UNCHANGED custodyVars
  PROVE  CustodyInv'
<1>1. CASE Bootstrap
  <2>1. /\ Process'
        /\ db'.events = db.events
        /\ UNCHANGED taskVars
        /\ \/ anchor' = anchor
           \/ /\ phase = "opened" /\ ~anchor.exists /\ db.events = << >>
              /\ \/ anchor' = [exists |-> TRUE, lines |-> << >>]
                 \/ \E e \in Extent : anchor' = Appended(anchor, Genesis, e)
    BY <1>1, BootstrapKeepsProcess DEF CustodyInv
  <2>2. phase # "serving"
    BY <1>1 DEF Bootstrap, Open, StartAnchor, StartAnchorFails, KeepAnchor, Admit
  <2>3. Silent
    BY <2>1, <2>2 DEF Silent, Acknowledged, CustodyInv, Process, taskVars, Waiting
  <2> QED
    BY <2>1, <2>3, SilentKeeps, GenesisKeeps
<1>2. CASE Crash
  <2>1. Process' /\ UNCHANGED <<db, anchor>>
    BY <1>2, CrashKeepsProcess DEF CustodyInv, Crash
  <2>2. Silent
    BY <1>2, <2>1, CrashKeepsProcess DEF CustodyInv, Silent, Acknowledged
  <2> QED
    BY <2>1, <2>2, SilentKeeps
<1>3. ASSUME NEW t \in Task, Arrive(t)
      PROVE  CustodyInv'
  <2>1. /\ Process'
        /\ UNCHANGED <<db, anchor, work, answer>>
        /\ \A u \in Task : pc'[u] \in { "commit", "done" } => pc'[u] = pc[u]
    BY <1>3, ArriveKeepsProcess DEF CustodyInv
  <2>2. Silent
    BY <2>1 DEF Silent, Acknowledged
  <2> QED
    BY <2>1, <2>2, SilentKeeps
<1>4. ASSUME NEW t \in Task, Paces(t)
      PROVE  CustodyInv'
  <2>1. /\ Process'
        /\ UNCHANGED <<db, anchor, work>>
        /\ \A u \in Task \ {t} : pc'[u] = pc[u] /\ answer'[u] = answer[u]
        /\ pc'[t] # "commit"
        /\ pc'[t] = "done" => answer'[t].status # "ok"
    BY <1>4, PacesKeepProcess DEF CustodyInv
  <2>2. Silent
    BY <2>1 DEF Silent, Acknowledged
  <2> QED
    BY <2>1, <2>2, SilentKeeps
<1>5. ASSUME NEW t \in Task, CommitFails(t)
      PROVE  CustodyInv'
  <2>1. /\ pc' = [pc EXCEPT ![t] = "done"]
        /\ answer' = [answer EXCEPT ![t] = Result("error", 0, None, {})]
        /\ UNCHANGED <<db, anchor>>
    BY <1>5 DEF CommitFails, Reject, Rollback, Finish
  <2>2. Result("error", 0, None, {}).status # "ok"
    BY DEF Result
  <2>3. Process'
    BY <1>5, CommitKeepsProcess DEF CustodyInv
  <2>4. \A u \in Task \ {t} : pc[u] # "commit"
    BY <1>5 DEF CommitFails, CustodyInv, Process, LockHeld
  <2>5. Silent
    BY <2>1, <2>2, <2>4 DEF Silent, Acknowledged, CustodyInv, Process, TypeOK
  <2> QED
    BY <2>1, <2>3, <2>5, SilentKeeps
<1>6. CASE UNCHANGED vars
  <2>1. Process'
    BY <1>6 DEF CustodyInv, Process, TypeOK, LockHeld, vars
  <2>2. Silent /\ UNCHANGED anchor
    BY <1>6 DEF Silent, Acknowledged, vars
  <2> QED
    BY <2>1, <2>2, SilentKeeps
<1> QED
  BY <1>1, <1>2, <1>3, <1>4, <1>5, <1>6, ExecuteKeepsCustody, CommitKeepsCustody
  DEF Next, Step, Paces

LEMMA RefusalKeepsCustody ==
  ASSUME CustodyInv, RefuseAnchor
  PROVE  CustodyInv'
<1>1. /\ phase = "opened" /\ phase' = "down"
      /\ UNCHANGED <<db, anchor, ring, taskVars, custodyVars>>
  BY DEF RefuseAnchor
<1>2. \A t \in Task : pc[t] \notin Waiting
  BY <1>1 DEF CustodyInv, Process
<1>3. Process'
  BY <1>1, <1>2 DEF CustodyInv, Process, TypeOK, LockHeld, taskVars
<1>4. Silent
  BY <1>1 DEF Silent, Acknowledged, taskVars
<1> QED
  BY <1>1, <1>3, <1>4, SilentKeeps

LEMMA CustodyStep == CustodyInv /\ [CustodyNext]_allVars => CustodyInv'
<1> SUFFICES ASSUME CustodyInv, [CustodyNext]_allVars PROVE CustodyInv'
  OBVIOUS
<1>1. CASE UNCHANGED allVars
  BY <1>1, StoreKeepsCustody DEF allVars
<1> QED
  BY <1>1, OperatorKeepsCustody, RefusalKeepsCustody, StoreKeepsCustody DEF CustodyNext

\* Whoever does what to one side, what the other side says of it stays true.
THEOREM CustodyInvariance == CustodySpec => []CustodyInv
BY CustodyStart, CustodyStep, PTL DEF CustodySpec

-----------------------------------------------------------------------------
(* Nothing is built on a loss *)

\* Only a commit acknowledges an event.
LEMMA CommitAcknowledges ==
  ASSUME CustodyInv, [CustodyNext]_allVars, NEW t \in Task,
         pc[t] = "commit", pc'[t] = "done", answer'[t].status = "ok"
  PROVE  Commit(t)
<1>1. [Next]_vars \/ UNCHANGED <<pc, answer>>
  BY DEF CustodyNext, Custody, Backup, RestoreDatabase, LoseDatabase, ReplaceDatabase,
         DeleteTail, RestoreAnchor, LoseAnchor, RefuseAnchor, runVars, allVars, vars, taskVars
<1>2. pc' # pc
  OBVIOUS
<1>3. CASE Bootstrap
  BY <1>2, <1>3, BootstrapKeepsProcess DEF CustodyInv, taskVars
<1>4. CASE Crash
  BY <1>4, CrashKeepsProcess DEF CustodyInv
<1>5. ASSUME NEW u \in Task, Arrive(u)
      PROVE  FALSE
  BY <1>5, ArriveKeepsProcess DEF CustodyInv
<1>6. ASSUME NEW u \in Task, Paces(u)
      PROVE  FALSE
  BY <1>6, PacesKeepProcess DEF CustodyInv
<1>7. writer = t
  BY DEF CustodyInv, Process, LockHeld
<1>8. ASSUME NEW u \in Task, Execute(u)
      PROVE  FALSE
  BY <1>7, <1>8, ExecuteStage DEF CustodyInv, Process, LockHeld
<1>9. ASSUME NEW u \in Task, Commit(u) \/ CommitFails(u)
      PROVE  u = t
  BY <1>7, <1>9 DEF Commit, CommitFails, CustodyInv, Process, LockHeld
<1>10. ~CommitFails(t)
  BY DEF CommitFails, Reject, Rollback, Finish, Result, CustodyInv, Process, TypeOK
<1> QED
  BY <1>1, <1>2, <1>3, <1>4, <1>5, <1>6, <1>8, <1>9, <1>10 DEF Next, Step, Paces, vars

\* Every commit extends a log that still holds all that was acknowledged: the
\* continuity check of _append_anchor, made before each commit.
THEOREM LossIsNotBuiltOn == CustodySpec => NothingBuiltOnLoss
<1> DEFINE Extends ==
      (\E t \in Task : pc[t] = "commit" /\ pc'[t] = "done" /\ answer'[t].status = "ok")
        => \A t \in Acknowledged : Retains(db'.events, t)
<1>1. CustodyInv /\ [CustodyNext]_allVars => [Extends]_allVars
  BY CommitAcknowledges, CommitIsWhole
<1> QED
  BY <1>1, CustodyInvariance, PTL DEF CustodySpec, NothingBuiltOnLoss

\* A vault comes up only on a log that has all that was acknowledged: the
\* checkpoint that ends bootstrap.
THEOREM WholeIsServed == CustodySpec => ServesOnlyWhole
<1> DEFINE OnWhole == phase # "serving" /\ phase' = "serving"
                        => \A t \in Acknowledged : Retains(db.events, t)
<1>1. CustodyInv /\ [CustodyNext]_allVars => [OnWhole]_allVars
  <2> SUFFICES ASSUME CustodyInv, [CustodyNext]_allVars,
                      phase # "serving", phase' = "serving"
               PROVE  Whole(db.events)
    BY DEF Whole
  <2>1. [Next]_vars
    BY DEF CustodyNext, Custody, Backup, RestoreDatabase, LoseDatabase, ReplaceDatabase,
           DeleteTail, RestoreAnchor, LoseAnchor, RefuseAnchor, runVars, allVars, vars
  <2>2. ASSUME NEW t \in Task, Arrive(t) \/ Step(t)
        PROVE  UNCHANGED phase
    <3>1. CASE Execute(t)
      BY <3>1, ExecuteEffect
      DEF Abandons, Enters, Rollback, processVars, CustodyInv, Process
    <3> QED
      BY <2>2, <3>1
      DEF Step, Arrive, CheckTarget, Begin, Busy, Commit, CommitFails, Reject, Rollback,
          ReadRows, ReadAnchor, ReadTail, unread, processVars
  <2>3. Admit /\ CheckpointHolds(anchor, db)
    BY <2>1, <2>2
    DEF Next, Bootstrap, Open, StartAnchor, StartAnchorFails, KeepAnchor, Admit, Crash, vars
  <2> QED
    BY <2>3, AgreementIsWhole
<1> QED
  BY <1>1, CustodyInvariance, PTL DEF CustodySpec, ServesOnlyWhole

-----------------------------------------------------------------------------
(* A valid verdict was true *)

\* A verification that has seen no agreement yet holds the last record of the
\* anchor; if that one matches the tail, they agree now.
WitnessInv ==
  /\ \A t \in Verifying : CheckpointHolds(anchor, db) => t \in held
  /\ touched # "anchor" =>
       \A t \in Task : pc[t] = "tail" =>
         t \in held \/ (Readable(anchor) /\ LastLine(anchor) = seen[t].line)
  /\ VerdictWasTrue

LEMMA WitnessStart == CustodyInit => WitnessInv
<1> SUFFICES ASSUME CustodyInit PROVE WitnessInv
  OBVIOUS
<1>1. \A t \in Task : pc[t] = "idle" /\ answer[t].status = "none"
  BY DEF CustodyInit, Init, NoAnswer, Result
<1> QED
  BY <1>1 DEF WitnessInv, Verifying, VerdictWasTrue

\* How the anchor, the verifications and their answers move.
VerdictMoves ==
  \/ touched' = "anchor"
  \/ /\ touched' # "anchor" => touched # "anchor"
     /\ \/ anchor' = anchor
        \/ CheckpointHolds(anchor, db)
        \/ \A t \in Task : pc'[t] # "tail"
     /\ \A t \in Task : pc'[t] = "tail" =>
          \/ pc[t] = "tail" /\ seen'[t] = seen[t]
          \/ Readable(anchor') /\ LastLine(anchor') = seen'[t].line
     /\ \A t \in Task : answer'[t].status = "valid" =>
          \/ answer[t].status = "valid"
          \/ pc[t] = "tail" /\ Matches(seen[t].line, db)

LEMMA VerdictsMove ==
  ASSUME WitnessInv, Witness, VerdictMoves
  PROVE  WitnessInv'
<1>1. held \subseteq held'
  BY DEF Witness
<1>2. (\A t \in Verifying : CheckpointHolds(anchor, db) => t \in held)'
  BY DEF Witness
<1>3. CASE touched' = "anchor"
  BY <1>2, <1>3 DEF WitnessInv, VerdictWasTrue
<1>4. CASE touched' # "anchor"
  <2>1. /\ touched # "anchor"
        /\ \/ anchor' = anchor
           \/ CheckpointHolds(anchor, db)
           \/ \A t \in Task : pc'[t] # "tail"
        /\ \A t \in Task : pc'[t] = "tail" =>
             \/ pc[t] = "tail" /\ seen'[t] = seen[t]
             \/ Readable(anchor') /\ LastLine(anchor') = seen'[t].line
        /\ \A t \in Task : answer'[t].status = "valid" =>
             \/ answer[t].status = "valid"
             \/ pc[t] = "tail" /\ Matches(seen[t].line, db)
    BY <1>4 DEF VerdictMoves
  <2>2. ASSUME NEW t \in Task, pc'[t] = "tail"
        PROVE  t \in held' \/ (Readable(anchor') /\ LastLine(anchor') = seen'[t].line)
    <3>1. CASE pc[t] = "tail" /\ seen'[t] = seen[t]
      <4>1. t \in held \/ (Readable(anchor) /\ LastLine(anchor) = seen[t].line)
        BY <2>1, <3>1 DEF WitnessInv
      <4>2. CheckpointHolds(anchor, db) => t \in held
        BY <3>1 DEF WitnessInv, Verifying
      <4> QED
        BY <1>1, <2>1, <2>2, <3>1, <4>1, <4>2
    <3> QED
      BY <2>1, <2>2, <3>1
  <2>3. ASSUME NEW t \in Task, answer'[t].status = "valid"
        PROVE  t \in held'
    <3>1. CASE answer[t].status = "valid"
      BY <1>1, <2>1, <3>1 DEF WitnessInv, VerdictWasTrue
    <3>2. CASE pc[t] = "tail" /\ Matches(seen[t].line, db)
      <4>1. t \in held \/ (Readable(anchor) /\ LastLine(anchor) = seen[t].line)
        BY <2>1, <3>2 DEF WitnessInv
      <4>2. CheckpointHolds(anchor, db) => t \in held
        BY <3>2 DEF WitnessInv, Verifying
      <4> QED
        BY <1>1, <3>2, <4>1, <4>2 DEF CheckpointHolds
    <3> QED
      BY <2>1, <2>3, <3>1, <3>2
  <2> QED
    BY <1>2, <2>2, <2>3 DEF WitnessInv, VerdictWasTrue
<1> QED
  BY <1>3, <1>4

LEMMA ReadsMove ==
  ASSUME Process, NEW t \in Task, Paces(t), UNCHANGED touched
  PROVE  VerdictMoves
<1>1. /\ anchor' = anchor
      /\ \A u \in Task \ {t} : /\ pc'[u] = pc[u] /\ answer'[u] = answer[u]
                               /\ seen'[u] = seen[u]
  BY DEF Paces, CheckTarget, Begin, Busy, ReadRows, ReadAnchor, ReadTail, Finish, unread,
         Process, TypeOK
<1>2. /\ pc'[t] = "tail" => Readable(anchor) /\ LastLine(anchor) = seen'[t].line
      /\ answer'[t].status = "valid" =>
           \/ answer[t].status = "valid"
           \/ pc[t] = "tail" /\ Matches(seen[t].line, db)
  <2> USE DEF Process, TypeOK
  <2>1. CASE CheckTarget(t) \/ Begin(t) \/ Busy(t)
    BY <2>1 DEF CheckTarget, Begin, Busy, Finish, Result
  <2>2. CASE ReadRows(t)
    BY <2>2 DEF ReadRows, Finish, Result, unread
  <2>3. CASE ReadAnchor(t)
    BY <2>3 DEF ReadAnchor, Finish, Result, unread, Seen
  <2>4. CASE ReadTail(t)
    BY <2>4 DEF ReadTail, Finish, Result, unread
  <2> QED
    BY <2>1, <2>2, <2>3, <2>4 DEF Paces
<1>3. \A u \in Task : pc'[u] = "tail" =>
          \/ pc[u] = "tail" /\ seen'[u] = seen[u]
          \/ Readable(anchor') /\ LastLine(anchor') = seen'[u].line
  BY <1>1, <1>2
<1>4. \A u \in Task : answer'[u].status = "valid" =>
          \/ answer[u].status = "valid"
          \/ pc[u] = "tail" /\ Matches(seen[u].line, db)
  BY <1>1, <1>2
<1> QED
  BY <1>1, <1>3, <1>4 DEF VerdictMoves

LEMMA WritersMove ==
  ASSUME Process, RowsNumbered(db), NEW t \in Task,
         Execute(t) \/ Commit(t) \/ CommitFails(t), UNCHANGED touched
  PROVE  VerdictMoves
<1>1. /\ seen' = seen
      /\ anchor' = anchor \/ CheckpointHolds(anchor, db)
      /\ \E stage \in { "commit", "done" } : pc' = [pc EXCEPT ![t] = stage]
      /\ \/ answer' = answer
         \/ \E result : /\ result.status # "valid"
                        /\ answer' = [answer EXCEPT ![t] = result]
  <2>1. ASSUME Abandons(t)
        PROVE  /\ seen' = seen /\ pc' = [pc EXCEPT ![t] = "done"]
               /\ \E result : /\ result.status # "valid"
                              /\ answer' = [answer EXCEPT ![t] = result]
    BY <2>1 DEF Abandons, Rollback, Finish, Result, Refusals
  <2>2. CASE Execute(t)
    <3>1. anchor' = anchor \/ CheckpointHolds(anchor, db)
      BY <2>2, ExecuteEffect DEF Recorded, Process
    <3>2. Abandons(t) \/ Enters(t)
      BY <2>2, ExecuteEffect DEF Process
    <3>3. CASE Enters(t)
      BY <3>1, <3>3 DEF Enters
    <3> QED
      BY <2>1, <3>1, <3>2, <3>3
  <2>3. CASE CommitFails(t)
    BY <2>1, <2>3 DEF CommitFails, Reject, Abandons, Refusals
  <2>4. CASE Commit(t)
    BY <2>4 DEF Commit
  <2> QED
    BY <2>2, <2>3, <2>4
<1>2. \A u \in Task : /\ pc'[u] = "tail" => pc[u] = "tail"
                      /\ answer'[u].status = "valid" => answer[u].status = "valid"
  BY <1>1 DEF Process, TypeOK
<1> QED
  BY <1>1, <1>2 DEF VerdictMoves

LEMMA StoreMoves ==
  ASSUME Process, RowsNumbered(db), Next, UNCHANGED touched
  PROVE  VerdictMoves
<1>1. CASE Bootstrap
  <2>1. UNCHANGED <<pc, seen, answer>> /\ phase # "serving"
    BY <1>1, BootstrapKeepsProcess
    DEF taskVars, Bootstrap, Open, StartAnchor, StartAnchorFails, KeepAnchor, Admit
  <2>2. \A t \in Task : pc'[t] # "tail"
    BY <2>1 DEF Process, Waiting
  <2> QED
    BY <2>1, <2>2 DEF VerdictMoves
<1>2. CASE Crash
  <2>1. \A t \in Task : /\ pc'[t] # "tail"
                        /\ answer'[t].status = "valid" => answer[t].status = "valid"
    BY <1>2 DEF Crash, Process, TypeOK, Waiting, NoAnswer, Result
  <2> QED
    BY <2>1 DEF VerdictMoves
<1>3. ASSUME NEW t \in Task, Arrive(t)
      PROVE  VerdictMoves
  <2>1. /\ UNCHANGED <<anchor, seen, answer>>
        /\ \A u \in Task : pc'[u] = "tail" => pc[u] = "tail"
    BY <1>3 DEF Arrive, FirstStage, Process, TypeOK
  <2> QED
    BY <2>1 DEF VerdictMoves
<1> QED
  BY <1>1, <1>2, <1>3, ReadsMove, WritersMove DEF Next, Step, Paces

LEMMA OperatorMoves == Copies /\ (Custody \/ RefuseAnchor) => VerdictMoves
<1> SUFFICES ASSUME Copies, Custody \/ RefuseAnchor PROVE VerdictMoves
  OBVIOUS
<1>1. CASE RestoreAnchor \/ LoseAnchor
  BY <1>1 DEF RestoreAnchor, LoseAnchor, Touches, VerdictMoves
<1>2. CASE Backup \/ RestoreDatabase \/ LoseDatabase \/ DeleteTail \/ RefuseAnchor
  <2>1. UNCHANGED <<anchor, pc, seen, answer>> /\ (touched' # "anchor" => touched # "anchor")
    BY <1>2
    DEF Backup, RestoreDatabase, LoseDatabase, ReplaceDatabase, DeleteTail, RefuseAnchor,
        Touches, vars, runVars, taskVars, custodyVars
  <2> QED
    BY <2>1 DEF VerdictMoves
<1> QED
  BY <1>1, <1>2 DEF Custody

LEMMA WitnessStep == CustodyInv /\ WitnessInv /\ [CustodyNext]_allVars => WitnessInv'
<1> SUFFICES ASSUME CustodyInv, WitnessInv, [CustodyNext]_allVars PROVE WitnessInv'
  OBVIOUS
<1>1. CASE UNCHANGED allVars
  BY <1>1
  DEF allVars, vars, custodyVars, WitnessInv, Verifying, VerdictWasTrue, CheckpointHolds,
      Readable, Matches, LastLine, TailId, TailHash
<1>2. CASE (Custody \/ RefuseAnchor) /\ Witness
  BY <1>2, OperatorMoves, VerdictsMove DEF CustodyInv
<1>3. CASE Next /\ UNCHANGED custodyVars /\ Witness
  BY <1>3, StoreMoves, VerdictsMove DEF CustodyInv, custodyVars
<1> QED
  BY <1>1, <1>2, <1>3 DEF CustodyNext

\* A verification that ends in `valid' has seen the truth of some moment while
\* it ran, though it reads the two sides at two: _read_anchor before the tail.
THEOREM VerdictsWereTrue == CustodySpec => []VerdictWasTrue
<1>1. CustodySpec => []WitnessInv
  BY WitnessStart, WitnessStep, CustodyInvariance, PTL DEF CustodySpec
<1>2. WitnessInv => VerdictWasTrue
  BY DEF WitnessInv
<1> QED
  BY <1>1, <1>2, PTL

=============================================================================
