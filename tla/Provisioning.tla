---------------------------- MODULE Provisioning ----------------------------
(***************************************************************************)
(* How a vault gets its material: `echo-vault init' (command_init of       *)
(* cli.py with create_key_ring of crypto.py, create_client_manifest of     *)
(* auth.py and _write_private), which makes three files one after the      *)
(* other, and the container (docker-entrypoint.sh, compose.yaml) that      *)
(* copies two of them and starts a vault on the copies.                    *)
(*                                                                         *)
(* Nothing locks the directory.  Runs of init may overlap, any of them may *)
(* fail at any file or be killed and leave a part of it, and the container *)
(* may start in the middle of it all.  What keeps them apart is that each  *)
(* file is created exclusively and that keys.json is the first.            *)
(*                                                                         *)
(* Abstractions                                                            *)
(*  - Keys and the client's secret are drawn afresh by each run and named  *)
(*    by it.  A file that was written to its end satisfies the checks of   *)
(*    KeyRing.load and ClientRegistry.load; a part of it is not JSON.      *)
(*  - An operator removes what a failed init left only when no init is     *)
(*    running and the vault is stopped, and nothing that an init has       *)
(*    completed.  The directories are there.                               *)
(*  - The entry point finds the files by their names.  A container that    *)
(*    Docker refuses for want of a file has not been started.              *)
(*  - What bootstrap does with the material is in VaultStore.              *)
(*  - A definition marked (slip) is used nowhere: it is the definition     *)
(*    after it as a plausible mistake would have it.                       *)
(***************************************************************************)
CONSTANTS
  Run,   \* the runs of init
  None   \* no file

Path == { "keys", "clients", "secret" }

File == [ by : Run, whole : BOOLEAN ]

ASSUME NoneAssumption == None \notin File

VARIABLES
  disk,   \* keys.json, clients.json and bootstrap-client.secret
  step,   \* what each run does next
  path,   \* the file it is at
  told,   \* the runs whose client secret the operator has
  vault,  \* the container
  copy    \* its copies of the two manifests

initVars  == <<step, path>>
vaultVars == <<vault, copy>>
vars      == <<disk, initVars, told, vaultVars>>

Step  == { "idle", "open", "write", "load", "done", "failed", "killed" }
Stage == { "stopped", "keys", "clients", "load", "serving", "exited" }

NoCopy == [ p \in { "keys", "clients" } |-> None ]

\* A vault loads only copies that were made.
TypeOK ==
  /\ disk \in [ Path -> File \cup {None} ]
  /\ step \in [ Run -> Step ]
  /\ path \in [ Run -> Path ]
  /\ told \subseteq Run
  /\ vault \in Stage
  /\ copy \in [ { "keys", "clients" } -> File \cup {None} ]
  /\ vault \in { "load", "serving" } => \A p \in { "keys", "clients" } : copy[p] # None

Init ==
  /\ disk = [ p \in Path |-> None ]
  /\ step = [ r \in Run |-> "idle" ]
  /\ path = [ r \in Run |-> "keys" ]
  /\ told = {}
  /\ vault = "stopped"
  /\ copy = NoCopy

-----------------------------------------------------------------------------
(* init *)

Goes(r, s) == step' = [step EXCEPT ![r] = s]

Begin(r) ==
  /\ step[r] = "idle"
  /\ Goes(r, "open")
  /\ UNCHANGED <<disk, path, told, vaultVars>>

\* (slip) os.open inside the `try': its failure unlinks somebody else's file.
OpenUnlinking(r) ==
  /\ step[r] = "open"
  /\ \/ /\ disk[path[r]] = None
        /\ disk' = [disk EXCEPT ![path[r]] = [ by |-> r, whole |-> FALSE ]]
        /\ Goes(r, "write")
     \/ /\ disk' = [disk EXCEPT ![path[r]] = None]
        /\ Goes(r, "failed")
  /\ UNCHANGED <<path, told, vaultVars>>

\* (slip) O_TRUNC in the place of O_EXCL.
OpenTruncating(r) ==
  /\ step[r] = "open"
  /\ disk' = [disk EXCEPT ![path[r]] = [ by |-> r, whole |-> FALSE ]]
  /\ Goes(r, "write")
  /\ UNCHANGED <<path, told, vaultVars>>

\* O_CREAT | O_EXCL: it fails if the file is there, or for a reason of its own.
Open(r) ==
  /\ step[r] = "open"
  /\ \/ /\ disk[path[r]] = None
        /\ disk' = [disk EXCEPT ![path[r]] = [ by |-> r, whole |-> FALSE ]]
        /\ Goes(r, "write")
     \/ /\ Goes(r, "failed")
        /\ UNCHANGED disk
  /\ UNCHANGED <<path, told, vaultVars>>

\* The order of command_init.
Advance(r) ==
  CASE path[r] = "keys"    -> Goes(r, "open") /\ path' = [path EXCEPT ![r] = "clients"]
    [] path[r] = "clients" -> Goes(r, "open") /\ path' = [path EXCEPT ![r] = "secret"]
    [] path[r] = "secret"  -> Goes(r, "done") /\ UNCHANGED path

\* The file is written to its end and closed; keys.json is then read back.  It
\* is the file that was opened, whether or not it still has its name.
Write(r) ==
  /\ step[r] = "write"
  /\ LET mine == disk[path[r]] # None /\ disk[path[r]].by = r
     IN  disk' = [disk EXCEPT ![path[r]] =
                    IF mine THEN [ by |-> r, whole |-> TRUE ] ELSE @]
  /\ \/ path[r] = "keys" /\ Goes(r, "load") /\ UNCHANGED path
     \/ path[r] # "keys" /\ Advance(r)
  /\ UNCHANGED <<told, vaultVars>>

\* A failed write takes its file with it.
WriteFails(r) ==
  /\ step[r] = "write"
  /\ disk' = [disk EXCEPT ![path[r]] = None]
  /\ Goes(r, "failed")
  /\ UNCHANGED <<path, told, vaultVars>>

\* KeyRing.load of what was just written; it may object to the mode that the
\* file system gave the file, and then leaves it there.
ReadBack(r) ==
  /\ step[r] = "load"
  /\ \/ disk["keys"] # None /\ disk["keys"].whole /\ Advance(r)
     \/ Goes(r, "failed") /\ UNCHANGED path
  /\ UNCHANGED <<disk, told, vaultVars>>

\* With --print-client-secret there is no third file.
PrintSecret(r) ==
  /\ step[r] = "open"
  /\ path[r] = "secret"
  /\ told' = told \cup {r}
  /\ Goes(r, "done")
  /\ UNCHANGED <<disk, path, vaultVars>>

Running(r) == step[r] \in { "open", "write", "load" }

\* A signal ends the run where it is: no `except' runs.
Kill(r) ==
  /\ Running(r)
  /\ Goes(r, "killed")
  /\ UNCHANGED <<disk, path, told, vaultVars>>

-----------------------------------------------------------------------------
(* The operator *)

\* "Move it into a protected secret store, then remove the bootstrap file."
TakeSecret ==
  /\ disk["secret"] # None
  /\ disk["secret"].whole
  /\ \A r \in Run : ~Running(r)
  /\ told' = told \cup { disk["secret"].by }
  /\ disk' = [disk EXCEPT !["secret"] = None]
  /\ UNCHANGED <<initVars, vaultVars>>

CleanUp ==
  /\ vault = "stopped"
  /\ \A r \in Run : ~Running(r) /\ step[r] # "done"
  /\ \E p \in Path : disk[p] # None /\ disk' = [disk EXCEPT ![p] = None]
  /\ UNCHANGED <<initVars, told, vaultVars>>

Start ==
  /\ vault = "stopped"
  /\ vault' = "keys"
  /\ UNCHANGED <<disk, initVars, told, copy>>

\* The copies are in a tmpfs, which goes with the container.
Stop ==
  /\ vault # "stopped"
  /\ vault' = "stopped"
  /\ copy' = NoCopy
  /\ UNCHANGED <<disk, initVars, told>>

-----------------------------------------------------------------------------
(* The container *)

\* (slip) `set -e' left out of the entry point.
CopyUnchecked ==
  /\ vault \in { "keys", "clients" }
  /\ copy' = [copy EXCEPT ![vault] = disk[vault]]
  /\ vault' = IF vault = "keys" THEN "clients" ELSE "load"
  /\ UNCHANGED <<disk, initVars, told>>

\* copy_secret of the entry point, for keys.json and then for clients.json:
\* the file as it is by now, if it is there.
CopySecret ==
  /\ vault \in { "keys", "clients" }
  /\ copy' = [copy EXCEPT ![vault] = IF disk[vault] = None THEN @ ELSE disk[vault]]
  /\ vault' = IF disk[vault] = None THEN "exited"
              ELSE IF vault = "keys" THEN "clients" ELSE "load"
  /\ UNCHANGED <<disk, initVars, told>>

\* Both files are there.
Validates == \A p \in { "keys", "clients" } : copy[p] # None

\* A private file of valid JSON with a ring, or a list of clients, of good keys.
KeyRingLoads  == copy["keys"].whole
RegistryLoads == copy["clients"].whole

\* (slip) The manifest is parsed when the first request comes.
LoadKeysOnly ==
  /\ vault = "load"
  /\ vault' = IF Validates /\ KeyRingLoads THEN "serving" ELSE "exited"
  /\ UNCHANGED <<disk, initVars, told, copy>>

\* (slip) Startup tries its files again instead of giving up.
LoadRetrying ==
  /\ vault = "load"
  /\ vault' = IF Validates /\ KeyRingLoads /\ RegistryLoads
              THEN "serving" ELSE "load"
  /\ UNCHANGED <<disk, initVars, told, copy>>

\* lifespan.  Every refusal of the three ends the process.
Load ==
  /\ vault = "load"
  /\ vault' = IF Validates /\ KeyRingLoads /\ RegistryLoads
              THEN "serving" ELSE "exited"
  /\ UNCHANGED <<disk, initVars, told, copy>>

\* compose.yaml, `restart: unless-stopped', with the tmpfs made anew.
Restart ==
  /\ vault = "exited"
  /\ vault' = "keys"
  /\ copy' = NoCopy
  /\ UNCHANGED <<disk, initVars, told>>

-----------------------------------------------------------------------------

RunOfInit(r) ==
  \/ Begin(r) \/ Open(r) \/ Write(r) \/ WriteFails(r)
  \/ ReadBack(r) \/ PrintSecret(r) \/ Kill(r)

Operator  == TakeSecret \/ CleanUp \/ Start \/ Stop
Container == CopySecret \/ Load \/ Restart

Next == (\E r \in Run : RunOfInit(r)) \/ Operator \/ Container

Spec == Init /\ [][Next]_vars

\* The entry point and the startup run through, and Docker restarts what exits.
FairSpec == Spec /\ WF_vars(Container)

-----------------------------------------------------------------------------

\* Material that is complete is never lost or changed by another run of init,
\* whichever runs overlap, fail or are killed: what is on disk in whole goes
\* only by the hand of the operator.
\* ("Create a new key ring without overwriting existing material", crypto.py.)
NeverReplaced ==
  [][ \A p \in Path :
        disk[p] # None /\ disk[p].whole /\ disk'[p] # disk[p]
          => TakeSecret \/ CleanUp ]_vars

\* An init that ended well leaves one set: keys and manifest are whole and its
\* own, and the secret it hands out is the one in that manifest.
DoneIsOneSet ==
  \A r \in Run : step[r] = "done" =>
    /\ \A p \in { "keys", "clients" } : disk[p] = [ by |-> r, whole |-> TRUE ]
    /\ \/ disk["secret"] = [ by |-> r, whole |-> TRUE ]
       \/ r \in told

\* And a vault that serves, serves that set: the secret of a completed init is
\* the one it accepts, its data are sealed under keys that are on disk, though
\* the container may have copied the files while they were being written and
\* by whichever run.
\* (copy_secret of the entry point; KeyRing.load, ClientRegistry.load.)
ServesTheDone ==
  vault = "serving" =>
    \A r \in Run : step[r] = "done" =>
      \A p \in { "keys", "clients" } : copy[p] = [ by |-> r, whole |-> TRUE ]

\* A container that was started before, while or after its material was made
\* comes up once an init has completed, however often it had to exit.
VaultComesUp ==
  (\E r \in Run : step[r] = "done") /\ vault # "stopped"
    ~> vault \in { "serving", "stopped" }

=============================================================================
