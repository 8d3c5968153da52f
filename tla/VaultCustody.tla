---------------------------- MODULE VaultCustody ----------------------------
(***************************************************************************)
(* The store in the hands of its operators: backups and restores of the    *)
(* database, loss of the database or of the anchor, the restoring of an    *)
(* older anchor, and the deletion of the newest audit row behind the       *)
(* store's back (the last two cases of tests/test_api.py).  The anchor is  *)
(* kept "outside the database backup domain", so at most one side is ever  *)
(* touched; the other is as the store left it.  Of these actions only      *)
(* RefuseAnchor is code of the store; the others are what it guards        *)
(* against.                                                                *)
(***************************************************************************)
EXTENDS VaultStore

VARIABLES
  backup,   \* the latest copy of the database
  replica,  \* the latest copy of the anchor file
  touched,  \* the side the operator has tampered with, if any
  held      \* the verifications during which anchor and database have agreed

custodyVars == <<backup, replica, touched>>
allVars     == <<vars, custodyVars, held>>

CustodyInit ==
  /\ Init
  /\ backup = EmptyDatabase
  /\ replica = NoFile
  /\ touched = "none"
  /\ held = {}

runVars == <<phase, ring, writer, work, pc, call, seen, answer>>

\* SQLite's online backup copies what is committed; the file is copied whole.
Backup ==
  /\ touched = "none"
  /\ backup' = db
  /\ replica' = anchor
  /\ UNCHANGED <<vars, touched>>

Touches(side) == touched \in { "none", side } /\ touched' = side

\* The vault is stopped to put another database or anchor in place.
ReplaceDatabase(d) ==
  /\ phase = "down"
  /\ Touches("database")
  /\ db' = d
  /\ UNCHANGED <<anchor, runVars, backup, replica>>

RestoreDatabase == ReplaceDatabase(backup)
LoseDatabase    == ReplaceDatabase(EmptyDatabase)

\* DELETE of the last row, by another connection; the sequence remembers it.
DeleteTail ==
  /\ writer = None
  /\ db.events # << >>
  /\ Touches("database")
  /\ db' = [db EXCEPT !.events = SubSeq(@, 1, Len(@) - 1)]
  /\ UNCHANGED <<anchor, runVars, backup, replica>>

RestoreAnchor ==
  /\ phase = "down"
  /\ Touches("anchor")
  /\ anchor' = replica
  /\ UNCHANGED <<db, runVars, backup, replica>>

\* The file may be gone from under a running vault.
LoseAnchor ==
  /\ phase \in { "down", "serving" }
  /\ Touches("anchor")
  /\ anchor' = NoFile
  /\ UNCHANGED <<db, runVars, backup, replica>>

\* bootstrap refuses to start a new anchor beside events the old one vouched
\* for.  Only the loss of the anchor brings it here.
RefuseAnchor ==
  /\ phase = "opened"
  /\ ~anchor.exists
  /\ db.events # << >>
  /\ phase' = "down"
  /\ UNCHANGED <<db, anchor, ring, taskVars, custodyVars>>

Custody ==
  \/ Backup
  \/ RestoreDatabase \/ LoseDatabase \/ DeleteTail
  \/ RestoreAnchor \/ LoseAnchor

Verifying == { t \in Task : pc[t] \in { "rows", "anchor", "tail" } }

\* History only: which of the verifications under way have seen a moment of
\* agreement, whether or not they were reading at that moment.
Witness == held' = held \cup { t \in Verifying' : CheckpointHolds(anchor, db)' }

CustodyNext ==
  \/ Custody /\ Witness
  \/ RefuseAnchor /\ Witness
  \/ Next /\ UNCHANGED custodyVars /\ Witness

CustodySpec == CustodyInit /\ [][CustodyNext]_allVars

-----------------------------------------------------------------------------

\* The tasks whose event is on record: they were answered from it.
Acknowledged ==
  { t \in Task : pc[t] = "done" /\ answer[t].status = "ok" }

Retains(events, t) == \E i \in DOMAIN events : events[i].entry_hash = t

\* A store whose log has lost an acknowledged event commits nothing on top of
\* the loss: whichever side was rolled back, emptied, truncated or replaced,
\* every commit extends a log that still holds all that was acknowledged.
NothingBuiltOnLoss ==
  [][ (\E t \in Task : pc[t] = "commit" /\ pc'[t] = "done" /\ answer'[t].status = "ok")
        => \A t \in Acknowledged : Retains(db'.events, t) ]_allVars

\* Nor does it start to serve: a vault that comes up has all of it.
ServesOnlyWhole ==
  [][ phase # "serving" /\ phase' = "serving"
        => \A t \in Acknowledged : Retains(db.events, t) ]_allVars

\* A verification reads the anchor and the tail at two moments, and the
\* database may be tampered with between them; still it calls valid only what
\* was valid at some moment while it ran.  In particular neither the record of
\* an event that is not committed yet nor a tail that came back to an older
\* event, its successor deleted, proves anything by itself.  Not so when the
\* anchor is tampered with: the file may be read while it is one record ahead
\* and be lost before that record's event is committed.
VerdictWasTrue ==
  touched # "anchor" =>
    \A t \in Task : answer[t].status = "valid" => t \in held

=============================================================================
