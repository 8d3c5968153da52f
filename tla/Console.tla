------------------------------- MODULE Console -------------------------------
(***************************************************************************)
(* The browser console of Echo Vault (src/echo_vault/web/app.js): one tab, *)
(* one thread, and a session kept in two variables of the script.          *)
(*                                                                         *)
(* Everything the script does to the vault is asynchronous.  A request     *)
(* waits for the digest of its body, for its signature and for its answer, *)
(* and reads the session again each time it goes on; meanwhile the user    *)
(* clicks, timers run out, the session is locked or another one unlocked,  *)
(* and other requests go on in any order.  An action is what runs between  *)
(* two such waits.                                                         *)
(*                                                                         *)
(* Abstractions                                                            *)
(*  - An operation (Operation) is one handler of the script from the event *)
(*    that starts it to its end; each happens at most once.                *)
(*  - A row of the inventory is the namespace it was loaded from, and so   *)
(*    is a secret that is shown: names and versions come with the row.     *)
(*  - A signing key is named by the client whose secret it was made from.  *)
(*  - The vault accepts a request exactly if the client it names is the    *)
(*    one who signed it (auth.py); an accepted one may fail all the same.  *)
(*  - Timers count down in ticks and fire before the next tick: the page   *)
(*    is awake.  Ages stop counting one past the limit they are held to.   *)
(*  - Toasts, focus, labels, the card that shows the outcome of an audit,  *)
(*    and the choice of a panel are left out.                              *)
(***************************************************************************)
EXTENDS Naturals, FiniteSets

CONSTANTS
  Operation,   \* what the user and the script do, each at most once
  Client,      \* the clients of the vault's manifest
  Namespace,   \* the namespaces they may ask for
  Demo,        \* the namespace the script starts with
  LockAfter,   \* 900000 ms in the code
  RevealFor,   \* 30000 ms in the code
  None         \* null, the empty string, a timer that is not set

ASSUME ConsoleAssumption ==
  /\ Demo \in Namespace
  /\ LockAfter \in Nat \ {0} /\ RevealFor \in Nat \ {0}
  /\ None \notin Client \cup Namespace \cup Nat

VARIABLES
  session,    \* state.clientId and state.key
  unlocked,   \* the indicator, the lock button and the unlock card
  namespace,  \* state.namespace
  rows,       \* state.secrets, as the table shows them
  dialog,     \* the dialog that shows a secret, and the value in it
  closing,    \* `close' events of the dialog still to be delivered
  rotation,   \* the row the rotation form was filled from
  deletion,   \* the deletion dialog, and the row it was opened from
  ops,        \* the operations
  lockTimer,  \* ticks until the session locks
  timers,     \* ticks until the timer a reveal has set runs out
  idle,       \* (history) ticks since the session was last touched
  shown,      \* (history) ticks since the value in the dialog was put there
  entered     \* (history) the clients entered in the unlock form since a lock

vars == <<session, entered, unlocked, namespace, rows, dialog, closing, rotation,
          deletion, ops, lockTimer, timers, idle, shown, entered>>

-----------------------------------------------------------------------------

Session  == [ id : Client \cup {None}, key : Client \cup {None} ]
NoSession == [ id |-> None, key |-> None ]

Place == Namespace \cup {None}

OnRow   == { "reveal", "update", "delete" }
Request == OnRow \cup { "load", "create", "rekey", "verify" }

\* A request carries the namespace of its path, and (history) the row the
\* user pressed; then the signature's key and the client it names.
Record == [ kind  : Request \cup { "none", "unlock" },
            stage : { "idle", "import", "digest", "sign", "sent", "done" },
            ns    : Place, from : Place,
            sig   : Client \cup {None}, id : Client \cup {None} ]

Idle == [ kind |-> "none", stage |-> "idle", ns |-> None, from |-> None,
          sig |-> None, id |-> None ]

Countdown(limit) == (0 .. limit) \cup {None}

TypeOK ==
  /\ session \in Session
  /\ unlocked \in BOOLEAN
  /\ namespace \in Namespace
  /\ rows \in Place
  /\ dialog \in [ open : BOOLEAN, value : Place ]
  /\ closing \in Nat
  /\ rotation \in Place
  /\ deletion \in [ open : BOOLEAN, from : Place ]
  /\ ops \in [Operation -> Record]
  /\ lockTimer \in Countdown(LockAfter)
  /\ timers \in [Operation -> Countdown(RevealFor)]
  /\ idle \in 0 .. LockAfter + 1
  /\ shown \in 0 .. RevealFor + 1
  /\ entered \subseteq Client

Init ==
  /\ session = NoSession
  /\ unlocked = FALSE
  /\ namespace = Demo
  /\ rows = None
  /\ dialog = [ open |-> FALSE, value |-> None ]
  /\ closing = 0
  /\ rotation = None
  /\ deletion = [ open |-> FALSE, from |-> None ]
  /\ ops = [o \in Operation |-> Idle]
  /\ lockTimer = None
  /\ timers = [o \in Operation |-> None]
  /\ idle = 0
  /\ shown = 0
  /\ entered = {}

formVars   == <<rotation, deletion>>
dialogVars == <<dialog, closing, timers, shown>>
timerVars  == <<lockTimer, idle>>

-----------------------------------------------------------------------------
(* The session *)

\* (slip) A time in milliseconds is multiplied as if it were seconds.
TouchSessionLonger ==
  IF session.key = None
  THEN UNCHANGED timerVars
  ELSE lockTimer' = 1000 * LockAfter /\ idle' = 0

\* touchSession: the old timer is cleared, a new one set.
TouchSession ==
  IF session.key = None
  THEN UNCHANGED timerVars
  ELSE lockTimer' = LockAfter /\ idle' = 0

\* A key or a pointer button went down anywhere in the window.
Touch ==
  /\ TouchSession
  /\ UNCHANGED <<session, entered, unlocked, namespace, rows, ops, formVars, dialogVars>>

\* While a modal dialog is open the page behind it takes no clicks.
Inert == dialog.open \/ deletion.open

\* The unlock form.  The client is known at once, the key after its import;
\* a secret that is no key is refused before anything is waited for.
SubmitUnlock(o) ==
  /\ ~unlocked /\ ~Inert
  /\ ops[o] = Idle
  /\ \E c \in Client :
       \/ /\ session' = [session EXCEPT !.id = c]
          /\ entered' = entered \cup {c}
          /\ ops' = [ops EXCEPT ![o].kind = "unlock", ![o].stage = "import",
                                ![o].sig = c]
       \/ /\ session' = NoSession
          /\ entered' = entered
          /\ ops' = [ops EXCEPT ![o].kind = "unlock", ![o].stage = "done"]
  /\ UNCHANGED <<unlocked, namespace, rows, formVars, dialogVars, timerVars>>

\* signedHeaders throws before its first wait unless there is a session.
CanSign(s) == s.id # None /\ s.key # None

Started(kind, ns, from) ==
  [ kind |-> kind, stage |-> "digest", ns |-> ns, from |-> from,
    sig |-> None, id |-> None ]

Finished(op) == [op EXCEPT !.stage = "done"]

\* loadNamespace, called at the end of another operation: that operation goes
\* on as the request for whatever the namespace field holds.
ThenLoad(o, s) ==
  \/ /\ CanSign(s)
     /\ \E ns \in Namespace : ops' = [ops EXCEPT ![o] = Started("load", ns, None)]
  \/ /\ ~CanSign(s)
     /\ ops' = [ops EXCEPT ![o] = Finished(@)]

\* (slip) touchSession forgotten.
ImportUntouched(o) ==
  /\ ops[o].stage = "import"
  /\ session' = [session EXCEPT !.key = ops[o].sig]
  /\ unlocked' = TRUE
  /\ ThenLoad(o, session')
  /\ UNCHANGED <<entered, namespace, rows, formVars, dialogVars, timerVars>>

\* The imported key becomes the session's, whatever happened meanwhile.
Import(o) ==
  /\ ops[o].stage = "import"
  /\ session' = [session EXCEPT !.key = ops[o].sig]
  /\ unlocked' = TRUE
  /\ lockTimer' = LockAfter
  /\ idle' = 0
  /\ ThenLoad(o, session')
  /\ UNCHANGED <<entered, namespace, rows, formVars, dialogVars>>

\* (slip) Only the key is forgotten: who was signed in is no secret.
LockKeepingId ==
  /\ session' = [session EXCEPT !.key = None]
  /\ unlocked' = FALSE
  /\ rows' = None
  /\ dialog' = [dialog EXCEPT !.value = None]
  /\ lockTimer' = None
  /\ entered' = {}
  /\ UNCHANGED <<namespace, closing, formVars, ops, timers, idle, shown>>

\* lockSession empties what it knows of: an open dialog stays open.
LockSession ==
  /\ session' = NoSession
  /\ unlocked' = FALSE
  /\ rows' = None
  /\ dialog' = [dialog EXCEPT !.value = None]
  /\ lockTimer' = None
  /\ entered' = {}
  /\ UNCHANGED <<namespace, closing, formVars, ops, timers, idle, shown>>

PressLock == unlocked /\ ~Inert /\ LockSession
PageHide  == LockSession
LockFires == lockTimer = 0 /\ LockSession

-----------------------------------------------------------------------------
(* What the user asks for *)

\* The row and the namespace of a request are read in two places: the row when
\* its button is pressed, the namespace when the path is put together.
Ask(o, kind, ns, from) ==
  /\ ops[o] = Idle
  /\ CanSign(session)
  /\ ops' = [ops EXCEPT ![o] = Started(kind, ns, from)]
  /\ UNCHANGED <<session, entered, unlocked, rows, formVars, dialogVars, timerVars>>

\* (slip) state.namespace is set when the namespace is asked for.
LoadAhead(o) ==
  /\ ~Inert
  /\ \E ns \in Namespace : Ask(o, "load", ns, None) /\ namespace' = ns

Load(o) ==
  /\ ~Inert
  /\ \E ns \in Namespace : Ask(o, "load", ns, None)
  /\ UNCHANGED namespace

Reveal(o) ==
  /\ ~Inert /\ rows # None
  /\ Ask(o, "reveal", namespace, rows)
  /\ UNCHANGED namespace

Create(o) == ~Inert /\ Ask(o, "create", namespace, None) /\ UNCHANGED namespace
Rekey(o)  == ~Inert /\ Ask(o, "rekey", None, None) /\ UNCHANGED namespace
Verify(o) == ~Inert /\ Ask(o, "verify", None, None) /\ UNCHANGED namespace

\* The Rotate button fills the form, the form's own button sends it.
FillRotation ==
  /\ ~Inert /\ rows # None
  /\ rotation' = rows
  /\ UNCHANGED <<session, entered, unlocked, namespace, rows, ops, deletion,
                 dialogVars, timerVars>>

Update(o) ==
  /\ ~Inert /\ rotation # None
  /\ Ask(o, "update", namespace, rotation)
  /\ UNCHANGED namespace

\* The Delete button opens a dialog; its form is sent from there.
OpenDeletion ==
  /\ ~Inert /\ rows # None
  /\ deletion' = [ open |-> TRUE, from |-> rows ]
  /\ UNCHANGED <<session, entered, unlocked, namespace, rows, ops, rotation,
                 dialogVars, timerVars>>

CancelDeletion ==
  /\ deletion.open /\ ~dialog.open
  /\ deletion' = [deletion EXCEPT !.open = FALSE]
  /\ UNCHANGED <<session, entered, unlocked, namespace, rows, ops, rotation,
                 dialogVars, timerVars>>

Delete(o) ==
  /\ deletion.open /\ ~dialog.open
  /\ Ask(o, "delete", namespace, deletion.from)
  /\ UNCHANGED namespace

-----------------------------------------------------------------------------
(* A request on its way *)

stillVars == <<session, entered, unlocked, namespace, rows, formVars, dialogVars>>

\* The digest is there: sign it with the session's key.
Sign(o) ==
  /\ ops[o].stage = "digest"
  /\ session.key # None
  /\ ops' = [ops EXCEPT ![o].sig = session.key, ![o].stage = "sign"]
  /\ UNCHANGED <<stillVars, timerVars>>

\* The signature is there: name the session's client and send.
Send(o) ==
  /\ ops[o].stage = "sign"
  /\ ops' = [ops EXCEPT ![o].id = session.id, ![o].stage = "sent"]
  /\ UNCHANGED <<stillVars, timerVars>>

Accepted(op) == op.id # None /\ op.id = op.sig

\* There was no key to sign with, or the answer is an error, or none came.
Fail(o) ==
  /\ \/ ops[o].stage = "digest" /\ session.key = None
     \/ ops[o].stage = "sent"
  /\ ops' = [ops EXCEPT ![o] = Finished(@)]
  /\ UNCHANGED <<stillVars, timerVars>>

\* An answer that is not an error touches the session, whichever it is by now.
Answered(o, kind) ==
  /\ ops[o].stage = "sent"
  /\ ops[o].kind = kind
  /\ Accepted(ops[o])
  /\ TouchSession

End(o) == ops' = [ops EXCEPT ![o] = Finished(@)]

Loaded(o) ==
  /\ Answered(o, "load") /\ End(o)
  /\ namespace' = ops[o].ns
  /\ rows' = ops[o].ns
  /\ UNCHANGED <<session, entered, unlocked, formVars, dialogVars>>

\* The dialog opens and a timer is set.  If it was open already, a browser
\* may ignore showModal or have it throw, and then no timer is set.
Revealed(o) ==
  /\ Answered(o, "reveal") /\ End(o)
  /\ dialog' = [ open |-> TRUE, value |-> ops[o].ns ]
  /\ shown' = 0
  /\ timers' \in { [timers EXCEPT ![o] = RevealFor] }
                   \cup (IF dialog.open THEN {timers} ELSE {})
  /\ UNCHANGED <<session, entered, unlocked, namespace, rows, formVars, closing>>

Created(o) ==
  /\ Answered(o, "create") /\ ThenLoad(o, session)
  /\ UNCHANGED stillVars

Updated(o) ==
  /\ Answered(o, "update") /\ ThenLoad(o, session)
  /\ rotation' = None
  /\ UNCHANGED <<session, entered, unlocked, namespace, rows, deletion, dialogVars>>

Deleted(o) ==
  /\ Answered(o, "delete") /\ ThenLoad(o, session)
  /\ deletion' = [deletion EXCEPT !.open = FALSE]
  /\ UNCHANGED <<session, entered, unlocked, namespace, rows, rotation, dialogVars>>

Rekeyed(o)  == Answered(o, "rekey")  /\ End(o) /\ UNCHANGED stillVars
Verified(o) == Answered(o, "verify") /\ End(o) /\ UNCHANGED stillVars

-----------------------------------------------------------------------------
(* The dialog of a revealed secret, and time *)

sessionVars == <<session, entered, unlocked, namespace, rows, ops, formVars, timerVars>>

\* Escape, or one of its two buttons.
CloseDialog ==
  /\ dialog.open
  /\ dialog' = [dialog EXCEPT !.open = FALSE]
  /\ closing' = closing + 1
  /\ UNCHANGED <<sessionVars, timers, shown>>

\* (slip) Nothing listens to `close'.
CloseUnheard ==
  /\ closing > 0
  /\ closing' = closing - 1
  /\ UNCHANGED <<sessionVars, dialog, timers, shown>>

\* The event comes a little later than the closing.
CloseEvent ==
  /\ closing > 0
  /\ closing' = closing - 1
  /\ dialog' = [dialog EXCEPT !.value = None]
  /\ UNCHANGED <<sessionVars, timers, shown>>

RevealFires(o) ==
  /\ timers[o] = 0
  /\ timers' = [timers EXCEPT ![o] = None]
  /\ IF dialog.open
     THEN dialog' = [ open |-> FALSE, value |-> None ] /\ closing' = closing + 1
     ELSE UNCHANGED <<dialog, closing>>
  /\ UNCHANGED <<sessionVars, shown>>

Less(t) == IF t = None THEN None ELSE t - 1

Older(age, limit) == IF age <= limit THEN age + 1 ELSE age

\* What is due happens first.
Tick ==
  /\ closing = 0
  /\ lockTimer # 0
  /\ \A o \in Operation : timers[o] # 0
  /\ lockTimer' = Less(lockTimer)
  /\ timers' = [o \in Operation |-> Less(timers[o])]
  /\ idle' = IF session.key = None THEN 0 ELSE Older(idle, LockAfter)
  /\ shown' = IF dialog.value = None THEN 0 ELSE Older(shown, RevealFor)
  /\ UNCHANGED <<session, entered, unlocked, namespace, rows, ops, formVars, dialog, closing>>

-----------------------------------------------------------------------------

User(o) ==
  \/ SubmitUnlock(o) \/ Load(o) \/ Reveal(o) \/ Create(o) \/ Update(o)
  \/ Delete(o) \/ Rekey(o) \/ Verify(o)

Page ==
  \/ Touch \/ PressLock \/ PageHide
  \/ FillRotation \/ OpenDeletion \/ CancelDeletion \/ CloseDialog

Progress(o) ==
  \/ Import(o) \/ Sign(o) \/ Send(o) \/ Fail(o)
  \/ Loaded(o) \/ Revealed(o) \/ Created(o) \/ Updated(o) \/ Deleted(o)
  \/ Rekeyed(o) \/ Verified(o)

Clock == LockFires \/ CloseEvent \/ Tick \/ \E o \in Operation : RevealFires(o)

Next == Page \/ Clock \/ \E o \in Operation : User(o) \/ Progress(o)

Spec == Init /\ [][Next]_vars

-----------------------------------------------------------------------------
(* Properties *)

\* A signing key in memory is never forgotten: the console says it is unlocked,
\* and one timer will lock it, LockAfter after it was last touched, whichever
\* unlocks, refused unlocks, locks and late answers came in between.
\* (touchSession and the unlock handler.)
KeyExpires ==
  session.key # None =>
    /\ unlocked
    /\ lockTimer # None
    /\ lockTimer + idle = LockAfter

\* A plaintext in the dialog is cleared in time: by the `close' event about to
\* come, or, the dialog being open, by some timer, and not later than
\* RevealFor after it was put there.  (revealSecret and its timers.)
PlaintextExpires ==
  dialog.value # None =>
    \/ closing > 0
    \/ /\ dialog.open
       /\ \E o \in Operation : timers[o] # None /\ timers[o] + shown <= RevealFor

\* The rows on screen are those of the namespace that their buttons write to,
\* in whichever order loads are answered.  (loadNamespace, revealSecret.)
RowsOfNamespace == rows # None => rows = namespace

\* Once the session is locked nothing leaves the console that the vault would
\* accept, until its client has been entered in the unlock form again: not what
\* was being signed at the time, and not what was under way when an import that
\* ended after the lock brought a key back.  (signedHeaders reads state.key and
\* state.clientId after different waits, and lockSession clears both.)
SilentOnceLocked ==
  [][ \A o \in Operation :
        ops'[o].stage = "sent" /\ ops[o].stage # "sent" /\ Accepted(ops'[o])
          => ops'[o].id \in entered ]_vars

-----------------------------------------------------------------------------
(* What the page says of itself *)

\* "Select Rotate in the inventory." (web/console.html): the new version goes
\* to the secret whose row was selected.
RotatesWhatWasSelected ==
  \A o \in Operation : ops[o].kind = "update" => ops[o].ns = ops[o].from

=============================================================================
