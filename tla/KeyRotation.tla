----------------------------- MODULE KeyRotation -----------------------------
(***************************************************************************)
(* The store and an operator who rotates encryption keys by the runbook    *)
(* ("Encryption-key rotation", docs/OPERATIONS.md): add a key to the key   *)
(* file and make it active, restart, have all versions rekeyed, and only   *)
(* then drop the old key.  The file is edited while the vault runs, which  *)
(* goes on with the ring it loaded at its start; it crashes and restarts   *)
(* at any point; rekeying is a call like any other, refused, failed, lost  *)
(* or answered while other calls write.                                    *)
(*                                                                         *)
(* VaultStore lets the key file be anything at every start.  Here it is    *)
(* what the operator made it, so that one can ask whether the runbook and  *)
(* the code together keep every secret readable.                           *)
(*                                                                         *)
(* Abstractions: an edit of the file is atomic; the copies of old keys     *)
(* that belong to retained backups are the backups' matter.                *)
(***************************************************************************)
EXTENDS VaultStore

VARIABLES
  file,   \* the key file
  named,  \* the key identifiers that were ever in it
  asked   \* the calls made since the active key was last changed

rotationVars == <<file, named, asked>>

\* create_key_ring makes a ring of one key.
RotationInit ==
  /\ Init
  /\ ring.keys = {ring.active}
  /\ file = ring
  /\ named = ring.keys
  /\ asked = {}

-----------------------------------------------------------------------------
(* The operator *)

\* "Never rename a key ID or replace its bytes in place": what was once the
\* name of a key is not the name of another.
AddKey ==
  /\ \E k \in Key \ named :
       /\ file' = [file EXCEPT !.keys = @ \cup {k}]
       /\ named' = named \cup {k}
  /\ UNCHANGED <<vars, asked>>

\* Forward, or back again.
Activate ==
  /\ \E k \in file.keys \ {file.active} : file' = [file EXCEPT !.active = k]
  /\ asked' = {}
  /\ UNCHANGED <<vars, named>>

\* rekey_all has reported, since, that all is under the active key.
Rekeyed ==
  \E t \in asked :
    /\ pc[t] = "done"
    /\ answer[t].status = "ok"
    /\ call[t].op = "rekey_all"
    /\ call[t].key = file.active

RetireKey ==
  /\ Rekeyed
  /\ \E k \in file.keys \ {file.active} : file' = [file EXCEPT !.keys = @ \ {k}]
  /\ UNCHANGED <<vars, named, asked>>

-----------------------------------------------------------------------------

\* KeyRing.load reads the file as it is by now.
LoadKeys == Open /\ ring' = file /\ UNCHANGED rotationVars

Ask(t) == Arrive(t) /\ asked' = asked \cup {t} /\ UNCHANGED <<file, named>>

RotationNext ==
  \/ AddKey \/ Activate \/ RetireKey
  \/ LoadKeys
  \/ (StartAnchor \/ StartAnchorFails \/ KeepAnchor \/ Admit \/ Crash)
       /\ UNCHANGED rotationVars
  \/ \E t \in Task : Ask(t) \/ (Step(t) /\ UNCHANGED rotationVars)

RotationSpec == RotationInit /\ [][RotationNext]_<<vars, rotationVars>>

-----------------------------------------------------------------------------

\* No key is retired that a version still needs: historical versions and those
\* of deleted secrets included, and those that are being written by a process
\* that has not heard of the new key.  This is why the target of rekey_all has
\* to be the active key of the process and not one it has merely loaded.  And a
\* vault that serves can open all it holds, however old the ring is that it
\* works with.
\* (The check of active_key_id, and the SELECT of rekey_all.)
NothingOrphaned ==
  \A v \in db.versions :
    /\ v.key \in file.keys
    /\ phase = "serving" => v.key \in ring.keys

=============================================================================
