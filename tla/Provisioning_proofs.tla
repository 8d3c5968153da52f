------------------------ MODULE Provisioning_proofs ------------------------
(***************************************************************************)
(* Proofs about Provisioning, for any number of overlapping runs of init:  *)
(* material that is complete stays, a completed init leaves one set, and a *)
(* vault that serves, serves that set.                                     *)
(***************************************************************************)
EXTENDS Provisioning, TLAPS

-----------------------------------------------------------------------------
(* The inductive invariant *)

Own(r, p) == disk[p] = [ by |-> r, whole |-> TRUE ]

\* A run that got past keys.json owns it, and then clients.json, in whole; the
\* file it writes is its own part.  This is the lock that nobody wrote.
Owns(r) ==
  /\ step[r] = "idle" => path[r] = "keys"
  /\ step[r] = "write" => disk[path[r]] = [ by |-> r, whole |-> FALSE ]
  /\ step[r] = "load" => path[r] = "keys" /\ Own(r, "keys")
  /\ step[r] \in { "open", "write" } =>
       /\ path[r] # "keys" => Own(r, "keys")
       /\ path[r] = "secret" => Own(r, "clients")
  /\ step[r] = "done" =>
       /\ Own(r, "keys") /\ Own(r, "clients")
       /\ Own(r, "secret") \/ r \in told

Types ==
  /\ disk \in [ Path -> File \cup {None} ]
  /\ step \in [ Run -> Step ]
  /\ path \in [ Run -> Path ]

IInv == Types /\ (\A r \in Run : Owns(r))

LEMMA Records ==
  ASSUME NEW r, NEW s
  PROVE  /\ [ by |-> r, whole |-> TRUE ] # [ by |-> s, whole |-> FALSE ]
         /\ [ by |-> r, whole |-> TRUE ] = [ by |-> s, whole |-> TRUE ] => r = s
         /\ [ by |-> r, whole |-> FALSE ] = [ by |-> s, whole |-> FALSE ] => r = s
<1>1. /\ [ by |-> r, whole |-> TRUE ].whole = TRUE
      /\ [ by |-> s, whole |-> FALSE ].whole = FALSE
      /\ [ by |-> r, whole |-> TRUE ].by = r
      /\ [ by |-> s, whole |-> TRUE ].by = s
      /\ [ by |-> r, whole |-> FALSE ].by = r
      /\ [ by |-> s, whole |-> FALSE ].by = s
  OBVIOUS
<1> QED
  BY <1>1

LEMMA AdvanceTypes ==
  ASSUME Types, NEW r \in Run, Advance(r)
  PROVE  /\ step' \in [ Run -> Step ] /\ path' \in [ Run -> Path ]
         /\ \A q \in Run \ {r} : step'[q] = step[q] /\ path'[q] = path[q]
         /\ \/ path[r] = "keys" /\ path'[r] = "clients" /\ step'[r] = "open"
            \/ path[r] = "clients" /\ path'[r] = "secret" /\ step'[r] = "open"
            \/ path[r] = "secret" /\ path'[r] = "secret" /\ step'[r] = "done"
<1>1. path[r] \in { "keys", "clients", "secret" }
  BY DEF Types, Path
<1>2. CASE path[r] = "keys"
  BY <1>2 DEF Types, Advance, Goes, Step, Path
<1>3. CASE path[r] = "clients"
  BY <1>3 DEF Types, Advance, Goes, Step, Path
<1>4. CASE path[r] = "secret"
  BY <1>4 DEF Types, Advance, Goes, Step, Path
<1> QED
  BY <1>1, <1>2, <1>3, <1>4

-----------------------------------------------------------------------------
(* A run touches nothing of another, and nothing that is whole *)

\* What a step of a run can do to the disk: make its file, end it, or take it
\* away again while it is a part.
Makes(r) ==
  /\ disk[path[r]] = None
  /\ disk' = [disk EXCEPT ![path[r]] = [ by |-> r, whole |-> FALSE ]]

Ends(r) ==
  /\ disk[path[r]] = [ by |-> r, whole |-> FALSE ]
  /\ disk' = [disk EXCEPT ![path[r]] = [ by |-> r, whole |-> TRUE ]]

Unlinks(r) ==
  /\ disk[path[r]] = [ by |-> r, whole |-> FALSE ]
  /\ disk' = [disk EXCEPT ![path[r]] = None]

LEMMA WriteEnds ==
  ASSUME IInv, NEW r \in Run, Write(r)
  PROVE  Ends(r)
<1>1. disk[path[r]] = [ by |-> r, whole |-> FALSE ]
  BY DEF Write, IInv, Owns
<1>2. [ by |-> r, whole |-> FALSE ] \in File /\ [ by |-> r, whole |-> FALSE ].by = r
  BY DEF File
<1>3. disk[path[r]] # None /\ disk[path[r]].by = r
  <2>1. disk[path[r]].by = r
    BY <1>1, <1>2
  <2>2. disk[path[r]] # None
    BY <1>1, <1>2, NoneAssumption, Zenon
  <2> QED
    BY <2>1, <2>2
<1> QED
  BY <1>1, <1>3 DEF Write, Ends

LEMMA DiskStep ==
  ASSUME IInv, NEW r \in Run, RunOfInit(r)
  PROVE  disk' = disk \/ Makes(r) \/ Ends(r) \/ Unlinks(r)
<1>1. CASE Open(r)
  BY <1>1 DEF Open, Makes
<1>2. CASE Write(r)
  BY <1>2, WriteEnds
<1>3. CASE WriteFails(r)
  BY <1>3 DEF WriteFails, Unlinks, IInv, Owns
<1>4. CASE Begin(r) \/ ReadBack(r) \/ PrintSecret(r) \/ Kill(r)
  BY <1>4 DEF Begin, ReadBack, PrintSecret, Kill
<1> QED
  BY <1>1, <1>2, <1>3, <1>4 DEF RunOfInit

\* So whatever is whole stays, and so does the part that another run writes.
LEMMA OthersKept ==
  ASSUME IInv, NEW r \in Run, RunOfInit(r)
  PROVE  /\ \A q \in Run, p \in Path : Own(q, p) => Own(q, p)'
         /\ \A q \in Run \ {r}, p \in Path :
              disk[p] = [ by |-> q, whole |-> FALSE ] => disk'[p] = disk[p]
<1>1. disk' = disk \/ Makes(r) \/ Ends(r) \/ Unlinks(r)
  BY DiskStep
<1>2. disk \in [ Path -> File \cup {None} ] /\ path[r] \in Path
  BY DEF IInv, Types
<1>3. \A q \in Run, w \in BOOLEAN : [ by |-> q, whole |-> w ] # None
  BY NoneAssumption DEF File
<1>4. ASSUME NEW q \in Run, NEW p \in Path, Own(q, p) PROVE Own(q, p)'
  <2>1. disk[p] # None /\ disk[p] # [ by |-> r, whole |-> FALSE ]
    BY <1>3, <1>4, Records DEF Own
  <2>2. disk'[p] = disk[p]
    BY <1>1, <1>2, <2>1 DEF Makes, Ends, Unlinks
  <2> QED
    BY <1>4, <2>2 DEF Own
<1>5. ASSUME NEW q \in Run \ {r}, NEW p \in Path,
             disk[p] = [ by |-> q, whole |-> FALSE ]
      PROVE  disk'[p] = disk[p]
  <2>1. disk[p] # None /\ disk[p] # [ by |-> r, whole |-> FALSE ]
    BY <1>3, <1>5, Records
  <2> QED
    BY <1>1, <1>2, <2>1 DEF Makes, Ends, Unlinks
<1> QED
  BY <1>4, <1>5

-----------------------------------------------------------------------------
(* Types *)

LEMMA TypesStep ==
  ASSUME IInv, Next
  PROVE  Types'
<1>1. ASSUME NEW r \in Run, RunOfInit(r) PROVE Types'
  <2>1. disk' = disk \/ Makes(r) \/ Ends(r) \/ Unlinks(r)
    BY <1>1, DiskStep
  <2>2. disk' \in [ Path -> File \cup {None} ]
    <3>1. /\ [ by |-> r, whole |-> TRUE ] \in File
          /\ [ by |-> r, whole |-> FALSE ] \in File
      BY DEF File
    <3>2. disk \in [ Path -> File \cup {None} ] /\ path[r] \in Path
      BY DEF IInv, Types
    <3> QED
      BY <2>1, <3>1, <3>2 DEF Makes, Ends, Unlinks
  <2>3. CASE Advance(r)
    BY <2>2, <2>3, AdvanceTypes DEF IInv, Types
  <2>4. CASE path' = path /\ \E s \in Step : Goes(r, s)
    <3>1. PICK s \in Step : Goes(r, s)
      BY <2>4
    <3> QED
      BY <2>2, <2>4, <3>1 DEF IInv, Types, Goes
  <2>5. Advance(r) \/ (path' = path /\ \E s \in Step : Goes(r, s))
    <3>1. /\ "open" \in Step /\ "write" \in Step /\ "load" \in Step
          /\ "done" \in Step /\ "failed" \in Step /\ "killed" \in Step
      BY DEF Step
    <3>2. CASE Write(r)
      BY <3>1, <3>2 DEF Write
    <3>3. CASE ReadBack(r)
      BY <3>1, <3>3 DEF ReadBack
    <3>4. CASE Begin(r) \/ Open(r) \/ WriteFails(r) \/ PrintSecret(r) \/ Kill(r)
      BY <3>1, <3>4 DEF Begin, Open, WriteFails, PrintSecret, Kill
    <3> QED
      BY <1>1, <3>2, <3>3, <3>4 DEF RunOfInit
  <2> QED
    BY <2>3, <2>4, <2>5
<1>2. CASE Operator
  BY <1>2 DEF Operator, TakeSecret, CleanUp, Start, Stop, IInv, Types, Path, initVars
<1>3. CASE Container
  BY <1>3 DEF Container, CopySecret, Load, Restart, IInv, Types, initVars
<1> QED
  BY <1>1, <1>2, <1>3 DEF Next

-----------------------------------------------------------------------------
(* The runs keep what they own *)

\* A step of another run, of the container, or of an operator who starts or
\* stops it.
LEMMA Undisturbed ==
  ASSUME IInv, NEW q \in Run,
         step'[q] = step[q], path'[q] = path[q], told \subseteq told',
         \A p \in Path : Own(q, p) => Own(q, p)',
         \A p \in Path : disk[p] = [ by |-> q, whole |-> FALSE ] => disk'[p] = disk[p]
  PROVE  Owns(q)'
<1>1. Owns(q) /\ path[q] \in Path
  BY DEF IInv, Types
<1>2. /\ Own(q, "keys") => Own(q, "keys")'
      /\ Own(q, "clients") => Own(q, "clients")'
      /\ Own(q, "secret") => Own(q, "secret")'
  BY DEF Path
<1> QED
  BY <1>1, <1>2 DEF Owns

LEMMA RunKeeps ==
  ASSUME IInv, NEW r \in Run, RunOfInit(r), NEW q \in Run
  PROVE  Owns(q)'
<1>1. told \subseteq told'
  BY DEF RunOfInit, Begin, Open, Write, WriteFails, ReadBack, PrintSecret, Kill
<1>2. CASE q # r
  <2>1. step'[q] = step[q] /\ path'[q] = path[q]
    <3>1. CASE Advance(r)
      BY <1>2, <3>1, AdvanceTypes DEF IInv
    <3>2. CASE ~Advance(r)
      BY <1>2, <3>2 DEF RunOfInit, Begin, Open, Write, WriteFails, ReadBack,
                        PrintSecret, Kill, Goes, IInv, Types
    <3> QED
      BY <3>1, <3>2
  <2> QED
    BY <1>1, <1>2, <2>1, OthersKept, Undisturbed
<1>3. CASE q = r
  <2>0. /\ Owns(r) /\ Types /\ r \in Run /\ path[r] \in Path
        /\ step \in [ Run -> Step ]
        /\ disk \in [ Path -> File \cup {None} ]
    BY DEF IInv, Types
  <2>K. \A p \in Path : Own(r, p) => Own(r, p)'
    BY OthersKept
  <2>P. "keys" \in Path /\ "clients" \in Path /\ "secret" \in Path
    BY DEF Path
  <2>1. CASE Begin(r)
    BY <1>3, <2>0, <2>1 DEF Begin, Goes, Owns, Own
  <2>2. CASE Open(r)
    <3>1. CASE step'[r] = "failed"
      BY <1>3, <3>1 DEF Owns
    <3>2. CASE step'[r] # "failed"
      <4>1. /\ step[r] = "open" /\ step'[r] = "write" /\ path' = path
            /\ disk'[path[r]] = [ by |-> r, whole |-> FALSE ]
        BY <2>0, <2>2, <3>2 DEF Open, Goes
      <4> QED
        BY <1>3, <2>0, <2>K, <2>P, <4>1 DEF Owns
    <3> QED
      BY <3>1, <3>2
  <2>3. CASE Write(r)
    <3>1. step[r] = "write" /\ disk'[path[r]] = [ by |-> r, whole |-> TRUE ]
      BY <2>0, <2>3, WriteEnds DEF Write, Ends
    <3>2. CASE path[r] = "keys" /\ Goes(r, "load") /\ path' = path
      <4>1. step'[r] = "load" /\ path'[r] = "keys" /\ Own(r, "keys")'
        BY <2>0, <3>1, <3>2 DEF Goes, Own
      <4> QED
        BY <1>3, <4>1 DEF Owns
    <3>3. CASE path[r] # "keys" /\ Advance(r)
      <4>1. Own(r, "keys")'
        BY <2>0, <2>K, <2>P, <3>1, <3>3 DEF Owns
      <4>2. CASE path[r] = "clients" /\ path'[r] = "secret" /\ step'[r] = "open"
        BY <1>3, <3>1, <4>1, <4>2 DEF Owns, Own
      <4>3. CASE path[r] = "secret" /\ path'[r] = "secret" /\ step'[r] = "done"
        <5>1. Own(r, "clients")'
          BY <2>0, <2>K, <2>P, <3>1, <4>3 DEF Owns
        <5>2. Own(r, "secret")'
          BY <3>1, <4>3 DEF Own
        <5> QED
          BY <1>3, <4>1, <4>3, <5>1, <5>2 DEF Owns
      <4> QED
        BY <2>0, <3>3, <4>2, <4>3, AdvanceTypes
    <3> QED
      BY <2>3, <3>2, <3>3 DEF Write
  <2>4. CASE WriteFails(r)
    <3>1. step'[r] = "failed"
      BY <2>0, <2>4 DEF WriteFails, Goes
    <3> QED
      BY <1>3, <3>1 DEF Owns
  <2>5. CASE ReadBack(r)
    <3>1. path[r] = "keys" /\ Own(r, "keys")
      BY <2>0, <2>5 DEF ReadBack, Owns
    <3>2. Own(r, "keys")'
      BY <2>K, <2>P, <3>1
    <3>3. CASE Advance(r)
      <4>1. path'[r] = "clients" /\ step'[r] = "open"
        BY <2>0, <3>1, <3>3, AdvanceTypes
      <4> QED
        BY <1>3, <3>2, <4>1 DEF Owns
    <3>4. CASE Goes(r, "failed")
      <4>1. step'[r] = "failed"
        BY <2>0, <3>4 DEF Goes
      <4> QED
        BY <1>3, <4>1 DEF Owns
    <3> QED
      BY <2>5, <3>3, <3>4 DEF ReadBack
  <2>6. CASE PrintSecret(r)
    <3>1. step'[r] = "done" /\ r \in told' /\ step[r] = "open" /\ path[r] = "secret"
      BY <2>0, <2>6 DEF PrintSecret, Goes
    <3>2. Own(r, "keys")' /\ Own(r, "clients")'
      BY <2>0, <2>K, <2>P, <3>1 DEF Owns
    <3> QED
      BY <1>3, <3>1, <3>2 DEF Owns
  <2>7. CASE Kill(r)
    <3>1. step'[r] = "killed"
      BY <2>0, <2>7 DEF Kill, Goes
    <3> QED
      BY <1>3, <3>1 DEF Owns
  <2> QED
    BY <2>1, <2>2, <2>3, <2>4, <2>5, <2>6, <2>7 DEF RunOfInit
<1> QED
  BY <1>2, <1>3

LEMMA OperatorKeeps ==
  ASSUME IInv, Operator, NEW q \in Run
  PROVE  Owns(q)'
<1>1. CASE TakeSecret
  <2>1. /\ step' = step /\ path' = path
        /\ step[q] \notin { "open", "write", "load" }
        /\ told' = told \cup { disk["secret"].by }
        /\ disk' = [ disk EXCEPT !["secret"] = None ]
    BY <1>1 DEF TakeSecret, Running, initVars
  <2>2. Owns(q) /\ disk \in [ Path -> File \cup {None} ]
    BY DEF IInv, Types
  <2>3. disk'["keys"] = disk["keys"] /\ disk'["clients"] = disk["clients"]
    BY <2>1, <2>2 DEF Path
  <2>4. CASE step[q] = "done"
    <3>1. Own(q, "keys")' /\ Own(q, "clients")'
      BY <2>2, <2>3, <2>4 DEF Owns, Own
    <3>2. q \in told'
      <4>1. CASE q \in told
        BY <2>1, <4>1
      <4>2. CASE Own(q, "secret")
        <5>1. disk["secret"].by = q
          BY <4>2 DEF Own
        <5> QED
          BY <2>1, <5>1
      <4> QED
        BY <2>2, <2>4, <4>1, <4>2 DEF Owns
    <3>3. step'[q] = "done"
      BY <2>1, <2>4
    <3> QED
      BY <3>1, <3>2, <3>3 DEF Owns
  <2>5. CASE step[q] # "done"
    BY <2>1, <2>2, <2>5 DEF Owns
  <2> QED
    BY <2>4, <2>5
<1>2. CASE CleanUp
  <2>1. /\ step' = step /\ path' = path
        /\ step[q] \notin { "open", "write", "load", "done" }
    BY <1>2 DEF CleanUp, Running, initVars
  <2> QED
    BY <2>1 DEF IInv, Owns
<1>3. CASE Start \/ Stop
  <2>1. disk' = disk /\ step' = step /\ path' = path /\ told' = told
    BY <1>3 DEF Start, Stop, initVars
  <2> QED
    BY <2>1, Undisturbed DEF Own
<1> QED
  BY <1>1, <1>2, <1>3 DEF Operator

LEMMA InitIInv ==
  Init => IInv
  BY DEF Init, IInv, Types, Owns, Step, Path

LEMMA Inductive ==
  IInv /\ [Next]_vars => IInv'
<1> SUFFICES ASSUME IInv, [Next]_vars PROVE IInv'
  OBVIOUS
<1>1. CASE Next
  <2>1. Types'
    BY <1>1, TypesStep
  <2>2. ASSUME NEW q \in Run PROVE Owns(q)'
    <3>1. CASE \E r \in Run : RunOfInit(r)
      BY <3>1, RunKeeps
    <3>2. CASE Operator
      BY <3>2, OperatorKeeps
    <3>3. CASE Container
      <4>1. disk' = disk /\ step' = step /\ path' = path /\ told' = told
        BY <3>3 DEF Container, CopySecret, Load, Restart, initVars
      <4> QED
        BY <4>1, Undisturbed DEF Own
    <3> QED
      BY <1>1, <3>1, <3>2, <3>3 DEF Next
  <2> QED
    BY <2>1, <2>2 DEF IInv
<1>2. CASE UNCHANGED vars
  BY <1>2 DEF vars, initVars, IInv, Types, Owns, Own
<1> QED
  BY <1>1, <1>2

LEMMA Invariance ==
  Spec => []IInv
<1>1. Init => IInv
  BY InitIInv
<1>2. IInv /\ [Next]_vars => IInv'
  BY Inductive
<1> QED
  BY <1>1, <1>2, PTL DEF Spec

-----------------------------------------------------------------------------
(* What it gives *)

\* Whichever runs of init overlap, fail or are killed, keys and manifest of one
\* that completed are on disk, whole and its own, and its secret is in the
\* bootstrap file or with the operator (command_init).
THEOREM OneSet ==
  Spec => []DoneIsOneSet
<1>1. IInv => DoneIsOneSet
  BY DEF IInv, Owns, Own, DoneIsOneSet
<1> QED
  BY <1>1, Invariance, PTL

\* No step but the operator's removes or changes a file that is complete
\* (O_CREAT | O_EXCL in create_key_ring, create_client_manifest, _write_private).
THEOREM MaterialStays ==
  Spec => NeverReplaced
<1> DEFINE Kept == \A p \in Path :
                     disk[p] # None /\ disk[p].whole /\ disk'[p] # disk[p]
                       => TakeSecret \/ CleanUp
<1>1. IInv /\ [Next]_vars => [Kept]_vars
  <2> SUFFICES ASSUME IInv, Next, NEW p \in Path,
                      disk[p] # None, disk[p].whole, disk'[p] # disk[p]
               PROVE  TakeSecret \/ CleanUp
    OBVIOUS
  <2>1. ASSUME NEW r \in Run, RunOfInit(r) PROVE FALSE
    <3>1. disk[p] \in File
      BY DEF IInv, Types
    <3>2. disk[p].by \in Run /\ disk[p] = [ by |-> disk[p].by, whole |-> TRUE ]
      BY <3>1 DEF File
    <3>3. Own(disk[p].by, p)
      BY <3>2 DEF Own
    <3>4. ASSUME NEW s \in Run, Own(s, p) PROVE disk'[p] = disk[p]
      BY <2>1, <3>4, OthersKept DEF Own
    <3> QED
      BY <3>2, <3>3, <3>4
  <2>2. CASE Start \/ Stop \/ Container
    BY <2>2 DEF Start, Stop, Container, CopySecret, Load, Restart
  <2> QED
    BY <2>1, <2>2 DEF Next, Operator
<1> QED
  BY <1>1, Invariance, PTL DEF Spec, NeverReplaced

-----------------------------------------------------------------------------
(* The container's copies *)

Manifests == { "keys", "clients" }

\* The container has copied what its place in the entry point says, a copy that
\* is whole is of the file that is still on disk, and it serves two of those.
Copied ==
  /\ told \subseteq Run
  /\ vault \in Stage
  /\ copy \in [ Manifests -> File \cup {None} ]
  /\ vault = "stopped" => copy = NoCopy
  /\ vault \in { "clients", "load", "serving" } => copy["keys"] # None
  /\ vault \in { "load", "serving" } => copy["clients"] # None
  /\ \A p \in Manifests :
       /\ copy[p] # None /\ copy[p].whole => disk[p] = copy[p]
       /\ vault = "serving" => copy[p].whole

\* A file that is complete stays while init runs go on.
LEMMA WholeStays ==
  ASSUME IInv, NEW r \in Run, RunOfInit(r), NEW p \in Path, disk[p] # None, disk[p].whole
  PROVE  disk'[p] = disk[p]
<1>1. disk[p] \in File
  BY DEF IInv, Types
<1>2. disk[p].by \in Run /\ disk[p] = [ by |-> disk[p].by, whole |-> TRUE ]
  BY <1>1 DEF File
<1>3. Own(disk[p].by, p)
  BY <1>2 DEF Own
<1>4. ASSUME NEW s \in Run, Own(s, p) PROVE disk'[p] = disk[p]
  BY <1>4, OthersKept DEF Own
<1> QED
  BY <1>2, <1>3, <1>4

LEMMA CopiedStep == IInv /\ Copied /\ [Next]_vars => Copied'
<1> SUFFICES ASSUME IInv, Copied, [Next]_vars PROVE Copied'
  OBVIOUS
<1>0. /\ disk \in [ Path -> File \cup {None} ] /\ Manifests \subseteq Path
      /\ copy \in [ Manifests -> File \cup {None} ]
      /\ "keys" \in Manifests /\ "clients" \in Manifests
  BY DEF IInv, Types, Copied, Manifests, Path
<1>1. ASSUME NEW r \in Run, RunOfInit(r)
      PROVE  Copied'
  <2>1. UNCHANGED vaultVars /\ told' \subseteq Run
    BY <1>1 DEF RunOfInit, Begin, Open, Write, WriteFails, ReadBack, PrintSecret, Kill, Copied
  <2>2. \A p \in Manifests : copy[p] # None /\ copy[p].whole => disk'[p] = copy[p]
    BY <1>0, <1>1, WholeStays DEF Copied
  <2> QED
    BY <2>1, <2>2 DEF Copied, vaultVars
<1>2. CASE TakeSecret
  <2>1. disk["secret"] \in File
    BY <1>0, <1>2 DEF TakeSecret, Path
  <2>2. disk["secret"].by \in Run
    BY <2>1 DEF File
  <2>3. disk'["keys"] = disk["keys"] /\ disk'["clients"] = disk["clients"]
    BY <1>0, <1>2 DEF TakeSecret, Path
  <2> QED
    BY <1>2, <2>2, <2>3 DEF TakeSecret, Copied, vaultVars, Manifests
<1>3. CASE CleanUp
  <2>1. UNCHANGED <<told, vault, copy>> /\ vault = "stopped"
    BY <1>3 DEF CleanUp, vaultVars
  <2>2. \A p \in Manifests : copy[p] = None
    BY <2>1 DEF Copied, NoCopy, Manifests
  <2> QED
    BY <2>1, <2>2 DEF Copied
<1>4. CASE Start
  <2>1. copy["keys"] = None /\ copy["clients"] = None
    BY <1>4 DEF Start, Copied, NoCopy
  <2> QED
    BY <1>4, <2>1 DEF Start, Copied, Stage, Manifests
<1>5. CASE Stop \/ Restart
  <2>1. /\ UNCHANGED <<disk, told>> /\ copy' = NoCopy /\ vault' \in { "stopped", "keys" }
    BY <1>5 DEF Stop, Restart
  <2> QED
    BY <2>1 DEF Copied, NoCopy, Stage, Manifests
<1>6. CASE CopySecret
  <2>1. CASE disk[vault] = None
    <3>1. copy' = copy /\ vault' = "exited" /\ UNCHANGED <<disk, told>>
      BY <1>0, <1>6, <2>1 DEF CopySecret, Manifests
    <3> QED
      BY <3>1 DEF Copied, Stage
  <2>2. CASE disk[vault] # None
    <3>1. /\ copy' = [copy EXCEPT ![vault] = disk[vault]] /\ UNCHANGED <<disk, told>>
          /\ vault \in { "keys", "clients" }
          /\ vault' = IF vault = "keys" THEN "clients" ELSE "load"
      BY <1>6, <2>2 DEF CopySecret
    <3>2. copy' \in [ Manifests -> File \cup {None} ]
      BY <1>0, <3>1 DEF Manifests
    <3>3. \A p \in Manifests : copy'[p] = IF p = vault THEN disk[p] ELSE copy[p]
      BY <1>0, <3>1
    <3> QED
      BY <1>0, <2>2, <3>1, <3>2, <3>3 DEF Copied, Stage
  <2> QED
    BY <2>1, <2>2
<1>7. CASE Load
  BY <1>7 DEF Load, Copied, Stage, KeyRingLoads, RegistryLoads, Manifests
<1>8. CASE UNCHANGED vars
  BY <1>8 DEF vars, vaultVars, Copied
<1> QED
  BY <1>1, <1>2, <1>3, <1>4, <1>5, <1>6, <1>7, <1>8 DEF Next, Operator, Container

LEMMA CopiesTrue == Spec => []Copied
<1>1. Init => Copied
  BY DEF Init, Copied, NoCopy, Stage, Manifests
<1>2. IInv /\ Copied /\ [Next]_vars => Copied'
  BY CopiedStep
<1> QED
  BY <1>1, <1>2, Invariance, PTL DEF Spec

\* Every value of the state has its type, and what is loaded was copied.
THEOREM TypeCorrect == Spec => []TypeOK
<1>1. IInv /\ Copied => TypeOK
  BY DEF IInv, Types, Copied, TypeOK, Manifests
<1> QED
  BY <1>1, Invariance, CopiesTrue, PTL

\* A vault that serves, serves the material of the init that completed: the
\* secret that was handed out is the one it accepts, and its keys are on disk
\* (copy_secret of docker-entrypoint.sh, KeyRing.load, ClientRegistry.load).
THEOREM ServesOneSet == Spec => []ServesTheDone
<1>1. IInv /\ Copied => ServesTheDone
  <2> SUFFICES ASSUME IInv, Copied, vault = "serving", NEW r \in Run, step[r] = "done",
                      NEW p \in Manifests
               PROVE  copy[p] = [ by |-> r, whole |-> TRUE ]
    BY DEF ServesTheDone, Manifests
  <2>1. disk[p] = [ by |-> r, whole |-> TRUE ]
    BY DEF IInv, Owns, Own, Manifests
  <2>2. copy[p] # None /\ copy[p].whole
    BY DEF Copied, Manifests
  <2> QED
    BY <2>1, <2>2 DEF Copied
<1> QED
  BY <1>1, Invariance, CopiesTrue, PTL

=============================================================================
