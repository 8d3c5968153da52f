--------------------------- MODULE Console_proofs ---------------------------
(***************************************************************************)
(* Proofs about Console for every set of operations, clients and           *)
(* namespaces and every length of its two timers: its types, that a key    *)
(* expires, that a plaintext does, that the rows belong to the namespace   *)
(* their buttons write to, and that a console once locked stays silent.     *)
(***************************************************************************)
EXTENDS Console, TLAPS

-----------------------------------------------------------------------------
(* What the steps do, seen from the session, the dialog and the rows *)

\* Asking touches neither the session nor what is on screen.
LEMMA UserFrame ==
  ASSUME NEW o \in Operation, User(o)
  PROVE  \/ SubmitUnlock(o)
         \/ UNCHANGED <<session, entered, unlocked, namespace, rows,
                        formVars, dialogVars, timerVars>>
BY DEF User, Load, Reveal, Create, Update, Delete, Rekey, Verify, Ask

\* Nor does a request on its way, but for the end of it.
LEMMA ProgressFrame ==
  ASSUME NEW o \in Operation, Progress(o)
  PROVE  /\ entered' = entered
         /\ Import(o) \/ UNCHANGED <<session, unlocked>>
         /\ Import(o) \/ TouchSession \/ UNCHANGED timerVars
         /\ Revealed(o) \/ UNCHANGED dialogVars
         /\ Loaded(o) \/ UNCHANGED <<namespace, rows>>
<1>1. CASE Import(o)
  BY <1>1 DEF Import, dialogVars
<1>2. CASE Sign(o) \/ Send(o) \/ Fail(o)
  BY <1>2 DEF Sign, Send, Fail, stillVars
<1>3. CASE Loaded(o) \/ Revealed(o)
  BY <1>3 DEF Loaded, Revealed, Answered
<1>4. CASE \/ Created(o) \/ Updated(o) \/ Deleted(o)
           \/ Rekeyed(o) \/ Verified(o)
  BY <1>4 DEF Created, Updated, Deleted, Rekeyed, Verified, Answered, stillVars
<1> QED
  BY <1>1, <1>2, <1>3, <1>4 DEF Progress

LEMMA PageFrame ==
  ASSUME Page \/ Clock
  PROVE  \/ LockSession
         \/ Tick
         \/ /\ UNCHANGED <<session, entered, unlocked, namespace, rows>>
            /\ TouchSession \/ UNCHANGED timerVars
            /\ \/ UNCHANGED dialogVars
               \/ CloseDialog
               \/ CloseEvent
               \/ \E o \in Operation : RevealFires(o)
<1>1. CASE Touch
  BY <1>1 DEF Touch
<1>2. CASE PressLock \/ PageHide \/ LockFires
  BY <1>2 DEF PressLock, PageHide, LockFires
<1>3. CASE FillRotation \/ OpenDeletion \/ CancelDeletion
  BY <1>3 DEF FillRotation, OpenDeletion, CancelDeletion
<1>4. CASE CloseDialog \/ CloseEvent \/ \E o \in Operation : RevealFires(o)
  BY <1>4 DEF CloseDialog, CloseEvent, RevealFires, sessionVars
<1> QED
  BY <1>1, <1>2, <1>3, <1>4 DEF Page, Clock

\* All there is to the session and its timer.
LEMMA SessionSteps ==
  ASSUME [Next]_vars
  PROVE  \/ LockSession
         \/ Tick
         \/ \E o \in Operation : SubmitUnlock(o) \/ Import(o)
         \/ /\ UNCHANGED <<session, entered, unlocked>>
            /\ TouchSession \/ UNCHANGED timerVars
<1>1. CASE UNCHANGED vars
  BY <1>1 DEF vars, timerVars
<1> QED
  BY <1>1, UserFrame, ProgressFrame, PageFrame DEF Next

\* To the dialog of a revealed secret.
LEMMA DialogSteps ==
  ASSUME [Next]_vars
  PROVE  \/ LockSession
         \/ Tick
         \/ CloseDialog
         \/ CloseEvent
         \/ \E o \in Operation : RevealFires(o) \/ Revealed(o)
         \/ UNCHANGED dialogVars
<1>1. CASE UNCHANGED vars
  BY <1>1 DEF vars, dialogVars
<1>2. \A o \in Operation : SubmitUnlock(o) => UNCHANGED dialogVars
  BY DEF SubmitUnlock
<1> QED
  BY <1>1, <1>2, UserFrame, ProgressFrame, PageFrame DEF Next

\* To the rows.
LEMMA RowSteps ==
  ASSUME [Next]_vars
  PROVE  \/ LockSession
         \/ \E o \in Operation : Loaded(o)
         \/ UNCHANGED <<namespace, rows>>
<1>1. CASE UNCHANGED vars \/ Tick
  BY <1>1 DEF vars, Tick
<1>2. \A o \in Operation : SubmitUnlock(o) => UNCHANGED <<namespace, rows>>
  BY DEF SubmitUnlock
<1> QED
  BY <1>1, <1>2, UserFrame, ProgressFrame, PageFrame DEF Next

-----------------------------------------------------------------------------
(* Types *)

SessionTypes ==
  session \in Session /\ unlocked \in BOOLEAN /\ entered \subseteq Client
TimerTypes   == lockTimer \in Countdown(LockAfter) /\ idle \in 0 .. LockAfter + 1
DialogTypes  ==
  /\ dialog \in [ open : BOOLEAN, value : Place ]
  /\ closing \in Nat
  /\ timers \in [Operation -> Countdown(RevealFor)]
  /\ shown \in 0 .. RevealFor + 1
RowTypes  == namespace \in Namespace /\ rows \in Place
FormTypes == rotation \in Place /\ deletion \in [ open : BOOLEAN, from : Place ]
OpTypes   == ops \in [Operation -> Record]

LEMMA TypesTogether ==
  TypeOK <=> /\ SessionTypes /\ TimerTypes /\ DialogTypes
             /\ RowTypes /\ FormTypes /\ OpTypes
BY DEF TypeOK, SessionTypes, TimerTypes, DialogTypes, RowTypes, FormTypes, OpTypes

LEMMA SessionTyped == TypeOK /\ [Next]_vars => SessionTypes' /\ TimerTypes'
<1> SUFFICES ASSUME TypeOK, [Next]_vars PROVE SessionTypes' /\ TimerTypes'
  OBVIOUS
<1> USE ConsoleAssumption DEF TypeOK, SessionTypes, TimerTypes, Countdown, Session
<1>1. CASE LockSession
  BY <1>1 DEF LockSession, NoSession
<1>2. CASE Tick
  BY <1>2 DEF Tick, Less, Older
<1>3. ASSUME NEW o \in Operation, SubmitUnlock(o)
      PROVE  SessionTypes' /\ TimerTypes'
  BY <1>3 DEF SubmitUnlock, NoSession, timerVars
<1>4. ASSUME NEW o \in Operation, Import(o)
      PROVE  SessionTypes' /\ TimerTypes'
  <2>1. ops[o].sig \in Client \cup {None}
    BY DEF Record
  <2> QED
    BY <1>4, <2>1 DEF Import
<1>5. CASE UNCHANGED <<session, entered, unlocked>> /\ (TouchSession \/ UNCHANGED timerVars)
  BY <1>5 DEF TouchSession, timerVars
<1> QED
  BY <1>1, <1>2, <1>3, <1>4, <1>5, SessionSteps

LEMMA DialogTyped == TypeOK /\ [Next]_vars => DialogTypes'
<1> SUFFICES ASSUME TypeOK, [Next]_vars PROVE DialogTypes'
  OBVIOUS
<1> USE ConsoleAssumption DEF TypeOK, DialogTypes, Countdown, Place
<1>1. CASE LockSession
  BY <1>1 DEF LockSession
<1>2. CASE Tick
  <2>1. \A o \in Operation : Less(timers[o]) \in Countdown(RevealFor)
    BY <1>2 DEF Tick, Less
  <2> QED
    BY <1>2, <2>1 DEF Tick, Older
<1>3. CASE CloseDialog
  <2>1. /\ dialog' = [dialog EXCEPT !.open = FALSE] /\ closing' = closing + 1
        /\ timers' = timers /\ shown' = shown
    BY <1>3 DEF CloseDialog
  <2>2. dialog' \in [ open : BOOLEAN, value : Place ]
    BY <2>1
  <2> QED
    BY <2>1, <2>2
<1>4. CASE CloseEvent
  BY <1>4 DEF CloseEvent
<1>5. ASSUME NEW o \in Operation, RevealFires(o)
      PROVE  DialogTypes'
  <2>1. dialog' \in [ open : BOOLEAN, value : Place ]
    <3>1. CASE dialog.open
      <4>1. dialog' = [ open |-> FALSE, value |-> None ]
        BY <1>5, <3>1 DEF RevealFires
      <4> QED
        BY <4>1
    <3>2. CASE ~dialog.open
      <4>1. dialog' = dialog
        BY <1>5, <3>2 DEF RevealFires
      <4> QED
        BY <4>1
    <3> QED
      BY <3>1, <3>2
  <2>2. closing' \in Nat
    BY <1>5 DEF RevealFires
  <2>3. timers' \in [Operation -> Countdown(RevealFor)] /\ shown' = shown
    BY <1>5 DEF RevealFires
  <2> QED
    BY <2>1, <2>2, <2>3
<1>6. ASSUME NEW o \in Operation, Revealed(o)
      PROVE  DialogTypes'
  <2>1. ops[o].ns \in Place
    BY DEF Record
  <2>2. timers' \in [Operation -> Countdown(RevealFor)]
    BY <1>6 DEF Revealed
  <2> QED
    BY <1>6, <2>1, <2>2 DEF Revealed
<1>7. CASE UNCHANGED dialogVars
  BY <1>7 DEF dialogVars
<1> QED
  BY <1>1, <1>2, <1>3, <1>4, <1>5, <1>6, <1>7, DialogSteps

\* A load is for one of the namespaces.
LoadsSomewhere ==
  \A o \in Operation :
    ops[o].kind = "load" => ops[o].ns \in Namespace

LEMMA RowsTyped == TypeOK /\ LoadsSomewhere /\ [Next]_vars => RowTypes'
<1> SUFFICES ASSUME TypeOK, LoadsSomewhere, [Next]_vars PROVE RowTypes'
  OBVIOUS
<1> USE DEF TypeOK, RowTypes, Place
<1>1. CASE LockSession
  BY <1>1 DEF LockSession
<1>2. ASSUME NEW o \in Operation, Loaded(o)
      PROVE  RowTypes'
  <2>1. ops[o].kind = "load"
    BY <1>2 DEF Loaded, Answered
  <2> QED
    BY <1>2, <2>1 DEF Loaded, LoadsSomewhere
<1>3. CASE UNCHANGED <<namespace, rows>>
  BY <1>3
<1> QED
  BY <1>1, <1>2, <1>3, RowSteps

\* An operation starts as a request that is sent from nowhere or for a
\* namespace, goes on, turns into a load, or ends.
Becomes(o, op) ==
  /\ op \in Record
  /\ op.kind = "load" => op.ns \in Namespace
  /\ ops' = [ops EXCEPT ![o] = op]

LEMMA OpStep ==
  ASSUME TypeOK, LoadsSomewhere, NEW o \in Operation, User(o) \/ Progress(o)
  PROVE  \E op : Becomes(o, op)
<1> USE DEF TypeOK, LoadsSomewhere
<1>1. ops[o] \in Record /\ (ops[o].kind = "load" => ops[o].ns \in Namespace)
  OBVIOUS
<1>2. ASSUME NEW kind \in Request, NEW ns \in Place, NEW from \in Place,
             kind = "load" => ns \in Namespace, ops' = [ops EXCEPT ![o] = Started(kind, ns, from)]
      PROVE  \E op : Becomes(o, op)
  <2>1. Started(kind, ns, from) \in Record
    BY DEF Started, Record
  <2>2. Started(kind, ns, from).kind = kind /\ Started(kind, ns, from).ns = ns
    BY DEF Started
  <2> QED
    BY <1>2, <2>1, <2>2 DEF Becomes
<1>3. ASSUME End(o)
      PROVE  \E op : Becomes(o, op)
  <2> DEFINE op == Finished(ops[o])
  <2>1. op \in Record /\ op.kind = ops[o].kind /\ op.ns = ops[o].ns
    BY <1>1 DEF Finished, Record
  <2>2. ops' = [ops EXCEPT ![o] = op]
    BY <1>3 DEF End
  <2> HIDE DEF op
  <2> QED
    BY <1>1, <2>1, <2>2 DEF Becomes
<1>4. ASSUME NEW s, ThenLoad(o, s)
      PROVE  \E op : Becomes(o, op)
  <2>1. CASE \E ns \in Namespace : ops' = [ops EXCEPT ![o] = Started("load", ns, None)]
    BY <1>2, <2>1 DEF Request, Place
  <2>2. CASE ops' = [ops EXCEPT ![o] = Finished(@)]
    BY <1>3, <2>2 DEF End
  <2> QED
    BY <1>4, <2>1, <2>2 DEF ThenLoad
<1>5. CASE SubmitUnlock(o)
  <2>1. PICK c \in Client :
          \/ ops' = [ops EXCEPT ![o].kind = "unlock", ![o].stage = "import", ![o].sig = c]
          \/ ops' = [ops EXCEPT ![o].kind = "unlock", ![o].stage = "done"]
    BY <1>5 DEF SubmitUnlock
  <2>2. ops[o] = Idle
    BY <1>5 DEF SubmitUnlock
  <2>3. CASE ops' = [ops EXCEPT ![o].kind = "unlock", ![o].stage = "import", ![o].sig = c]
    <3> DEFINE op == [ kind |-> "unlock", stage |-> "import", ns |-> None, from |-> None,
                       sig |-> c, id |-> None ]
    <3>1. ops' = [ops EXCEPT ![o] = op]
      BY <2>2, <2>3 DEF Idle
    <3>2. op \in Record /\ op.kind # "load"
      BY DEF Record, Place
    <3> QED
      BY <3>1, <3>2 DEF Becomes
  <2>4. CASE ops' = [ops EXCEPT ![o].kind = "unlock", ![o].stage = "done"]
    <3> DEFINE op == [ kind |-> "unlock", stage |-> "done", ns |-> None, from |-> None,
                       sig |-> None, id |-> None ]
    <3>1. ops' = [ops EXCEPT ![o] = op]
      BY <2>2, <2>4 DEF Idle
    <3>2. op \in Record /\ op.kind # "load"
      BY DEF Record, Place
    <3> QED
      BY <3>1, <3>2 DEF Becomes
  <2> QED
    BY <2>1, <2>3, <2>4
<1>6. CASE Load(o)
  <2>1. PICK ns \in Namespace : ops' = [ops EXCEPT ![o] = Started("load", ns, None)]
    BY <1>6 DEF Load, Ask
  <2> QED
    BY <1>2, <2>1 DEF Request, Place
<1>7. CASE Reveal(o) \/ Create(o) \/ Update(o) \/ Delete(o) \/ Rekey(o) \/ Verify(o)
  <2>1. \E kind \in Request \ {"load"}, ns \in Place, from \in Place :
          ops' = [ops EXCEPT ![o] = Started(kind, ns, from)]
    <3>1. /\ namespace \in Place /\ rows \in Place /\ rotation \in Place
          /\ deletion.from \in Place /\ None \in Place
      BY DEF Place
    <3> QED
      BY <1>7, <3>1
      DEF Reveal, Create, Update, Delete, Rekey, Verify, Ask, Request, OnRow
  <2> QED
    BY <1>2, <2>1
<1>8. CASE Import(o)
  BY <1>4, <1>8 DEF Import
<1>9. CASE Sign(o) \/ Send(o)
  <2>1. CASE Sign(o)
    <3> DEFINE op == [ops[o] EXCEPT !.sig = session.key, !.stage = "sign"]
    <3>1. ops' = [ops EXCEPT ![o] = op]
      BY <2>1 DEF Sign
    <3>2. op \in Record /\ op.kind = ops[o].kind /\ op.ns = ops[o].ns
      BY <1>1 DEF Record, Session
    <3> HIDE DEF op
    <3> QED
      BY <1>1, <3>1, <3>2 DEF Becomes
  <2>2. CASE Send(o)
    <3> DEFINE op == [ops[o] EXCEPT !.id = session.id, !.stage = "sent"]
    <3>1. ops' = [ops EXCEPT ![o] = op]
      BY <2>2 DEF Send
    <3>2. op \in Record /\ op.kind = ops[o].kind /\ op.ns = ops[o].ns
      BY <1>1 DEF Record, Session
    <3> HIDE DEF op
    <3> QED
      BY <1>1, <3>1, <3>2 DEF Becomes
  <2> QED
    BY <1>9, <2>1, <2>2
<1>10. CASE Fail(o) \/ Loaded(o) \/ Revealed(o) \/ Rekeyed(o) \/ Verified(o)
  BY <1>3, <1>10 DEF Fail, Loaded, Revealed, Rekeyed, Verified, End
<1>11. CASE Created(o) \/ Updated(o) \/ Deleted(o)
  BY <1>4, <1>11 DEF Created, Updated, Deleted
<1> QED
  BY <1>5, <1>6, <1>7, <1>8, <1>9, <1>10, <1>11 DEF User, Progress

LEMMA OpsTyped == TypeOK /\ LoadsSomewhere /\ [Next]_vars => OpTypes' /\ LoadsSomewhere'
<1> SUFFICES ASSUME TypeOK, LoadsSomewhere, [Next]_vars PROVE OpTypes' /\ LoadsSomewhere'
  OBVIOUS
<1>1. CASE Page \/ Clock \/ UNCHANGED vars
  <2>1. ops' = ops
    BY <1>1 DEF Page, Clock, vars, Touch, PressLock, PageHide, FillRotation, OpenDeletion,
       CancelDeletion, CloseDialog, LockFires, LockSession, CloseEvent, Tick, RevealFires,
       sessionVars
  <2> QED
    BY <2>1 DEF TypeOK, OpTypes, LoadsSomewhere
<1>2. ASSUME NEW o \in Operation, NEW op, Becomes(o, op)
      PROVE  OpTypes' /\ LoadsSomewhere'
  BY <1>2 DEF TypeOK, OpTypes, LoadsSomewhere, Becomes
<1> QED
  BY <1>1, <1>2, OpStep DEF Next

LEMMA FormsTyped == TypeOK /\ [Next]_vars => FormTypes'
<1> SUFFICES ASSUME TypeOK, [Next]_vars PROVE FormTypes'
  OBVIOUS
<1> USE DEF TypeOK, FormTypes, Place, formVars
<1>1. CASE Page \/ Clock
  <2>1. CASE FillRotation \/ OpenDeletion \/ CancelDeletion
    <3>1. CASE FillRotation
      BY <3>1 DEF FillRotation
    <3>2. CASE OpenDeletion
      <4>1. deletion' = [ open |-> TRUE, from |-> rows ] /\ rotation' = rotation
        BY <3>2 DEF OpenDeletion
      <4>2. [ open |-> TRUE, from |-> rows ] \in [ open : BOOLEAN, from : Place ]
        OBVIOUS
      <4> QED
        BY <4>1, <4>2
    <3>3. CASE CancelDeletion
      <4>1. deletion' = [deletion EXCEPT !.open = FALSE] /\ rotation' = rotation
        BY <3>3 DEF CancelDeletion
      <4>2. [deletion EXCEPT !.open = FALSE] \in [ open : BOOLEAN, from : Place ]
        OBVIOUS
      <4> QED
        BY <4>1, <4>2
    <3> QED
      BY <2>1, <3>1, <3>2, <3>3
  <2>2. CASE ~(FillRotation \/ OpenDeletion \/ CancelDeletion)
    BY <1>1, <2>2 DEF Page, Clock, Touch, PressLock, PageHide, CloseDialog, LockFires,
       LockSession, CloseEvent, Tick, RevealFires, sessionVars
  <2> QED
    BY <2>1, <2>2
<1>2. ASSUME NEW o \in Operation, User(o)
      PROVE  FormTypes'
  BY <1>2, UserFrame DEF SubmitUnlock
<1>3. ASSUME NEW o \in Operation, Progress(o)
      PROVE  FormTypes'
  BY <1>3 DEF Progress, Import, Sign, Send, Fail, Loaded, Revealed, Created, Updated,
     Deleted, Rekeyed, Verified, stillVars
<1>4. CASE UNCHANGED vars
  BY <1>4 DEF vars
<1> QED
  BY <1>1, <1>2, <1>3, <1>4 DEF Next

\* All the types, and that loads are for a namespace, without which the
\* namespace on screen would not stay one.
THEOREM Typed == Spec => [](TypeOK /\ LoadsSomewhere)
<1>1. Init => TypeOK /\ LoadsSomewhere
  <2> SUFFICES ASSUME Init PROVE TypeOK /\ LoadsSomewhere
    OBVIOUS
  <2>1. NoSession \in Session
    BY DEF NoSession, Session
  <2>2. Idle \in Record /\ Idle.kind # "load"
    BY DEF Idle, Record, Place
  <2>3. dialog \in [ open : BOOLEAN, value : Place ]
    BY DEF Init, Place
  <2>4. deletion \in [ open : BOOLEAN, from : Place ]
    BY DEF Init, Place
  <2>5. lockTimer \in Countdown(LockAfter) /\ timers \in [Operation -> Countdown(RevealFor)]
    BY DEF Init, Countdown
  <2>6. idle \in 0 .. LockAfter + 1 /\ shown \in 0 .. RevealFor + 1
    BY ConsoleAssumption DEF Init
  <2> QED
    BY ConsoleAssumption, <2>1, <2>2, <2>3, <2>4, <2>5, <2>6
    DEF Init, TypeOK, LoadsSomewhere, Place
<1>2. TypeOK /\ LoadsSomewhere /\ [Next]_vars => TypeOK' /\ LoadsSomewhere'
  BY SessionTyped, DialogTyped, RowsTyped, OpsTyped, FormsTyped, TypesTogether
  DEF TypeOK, SessionTypes, TimerTypes, DialogTypes, RowTypes, FormTypes, OpTypes
<1> QED
  BY <1>1, <1>2, PTL DEF Spec

\* Every value of the state has its type.
THEOREM TypeCorrect == Spec => []TypeOK
BY Typed, PTL

-----------------------------------------------------------------------------
(* The key, the plaintext, the rows *)

\* A key in memory expires, LockAfter after the session was last touched.
THEOREM KeyIsForgotten == Spec => []KeyExpires
<1>1. Init => KeyExpires
  BY DEF Init, KeyExpires, NoSession
<1>2. TypeOK /\ KeyExpires /\ [Next]_vars => KeyExpires'
  <2> SUFFICES ASSUME TypeOK, KeyExpires, [Next]_vars PROVE KeyExpires'
    OBVIOUS
  <2> USE ConsoleAssumption DEF KeyExpires, TypeOK, Countdown
  <2>1. CASE LockSession
    BY <2>1 DEF LockSession, NoSession
  <2>2. CASE Tick
    BY <2>2 DEF Tick, Less, Older
  <2>3. ASSUME NEW o \in Operation, SubmitUnlock(o)
        PROVE  KeyExpires'
    BY <2>3 DEF SubmitUnlock, NoSession, Session
  <2>4. ASSUME NEW o \in Operation, Import(o)
        PROVE  KeyExpires'
    BY <2>4 DEF Import
  <2>5. CASE UNCHANGED <<session, entered, unlocked>> /\ (TouchSession \/ UNCHANGED timerVars)
    BY <2>5 DEF TouchSession, timerVars
  <2> QED
    BY <2>1, <2>2, <2>3, <2>4, <2>5, SessionSteps
<1> QED
  BY <1>1, <1>2, TypeCorrect, PTL DEF Spec

\* PlaintextExpires as it is kept: an open dialog has a timer, even when what
\* it showed has been cleared, because the next secret that is revealed into it
\* may have none of its own; and one that is closed has its event to come.
DialogKept ==
  /\ dialog.value # None /\ ~dialog.open => closing > 0
  /\ dialog.open =>
       \E o \in Operation :
         /\ timers[o] # None
         /\ dialog.value # None => closing > 0 \/ timers[o] + shown <= RevealFor

\* No plaintext stays on screen longer than the timer of a reveal allows: the
\* dialog's timers, the lock and the close event (reveal and lockSession in app.js).
THEOREM PlaintextIsCleared == Spec => []PlaintextExpires
<1>1. Init => DialogKept
  BY DEF Init, DialogKept
<1>2. TypeOK /\ DialogKept /\ [Next]_vars => DialogKept'
  <2> SUFFICES ASSUME TypeOK, DialogKept, [Next]_vars PROVE DialogKept'
    OBVIOUS
  <2>0. /\ RevealFor \in Nat /\ None \notin Nat
        /\ closing \in Nat /\ shown \in Nat
        /\ timers \in [Operation -> (0 .. RevealFor) \cup {None}]
        /\ dialog \in [ open : BOOLEAN, value : Place ]
    BY ConsoleAssumption DEF TypeOK, Countdown
  <2>1. CASE LockSession
    BY <2>0, <2>1 DEF LockSession, DialogKept
  <2>2. CASE Tick
    <3>1. CASE dialog.open
      <4>1. PICK o \in Operation :
              /\ timers[o] # None
              /\ dialog.value # None => closing > 0 \/ timers[o] + shown <= RevealFor
        BY <3>1 DEF DialogKept
      <4>2. /\ closing = 0 /\ timers[o] # 0 /\ timers'[o] = timers[o] - 1
            /\ dialog' = dialog /\ closing' = closing
            /\ shown' = IF dialog.value = None THEN 0 ELSE Older(shown, RevealFor)
        BY <2>2, <4>1 DEF Tick, Less
      <4>3. timers[o] \in 1 .. RevealFor
        BY <2>0, <4>1, <4>2
      <4>4. timers'[o] # None
        BY <2>0, <4>2, <4>3
      <4>5. dialog.value # None => timers'[o] + shown' <= RevealFor
        BY <2>0, <4>1, <4>2, <4>3 DEF Older
      <4> QED
        BY <3>1, <4>2, <4>4, <4>5 DEF DialogKept
    <3>2. CASE ~dialog.open
      BY <2>2, <3>2 DEF Tick, DialogKept
    <3> QED
      BY <3>1, <3>2
  <2>3. CASE CloseDialog
    BY <2>0, <2>3 DEF CloseDialog, DialogKept
  <2>4. CASE CloseEvent
    BY <2>0, <2>4 DEF CloseEvent, DialogKept
  <2>5. ASSUME NEW o \in Operation, RevealFires(o)
        PROVE  DialogKept'
    BY <2>0, <2>5 DEF RevealFires, DialogKept
  <2>6. ASSUME NEW o \in Operation, Revealed(o)
        PROVE  DialogKept'
    <3>1. /\ dialog' = [ open |-> TRUE, value |-> ops[o].ns ] /\ shown' = 0
          /\ \/ timers' = [timers EXCEPT ![o] = RevealFor]
             \/ timers' = timers /\ dialog.open
      BY <2>6 DEF Revealed
    <3>2. PICK p \in Operation : timers'[p] # None
      BY <2>0, <3>1 DEF DialogKept
    <3>3. timers'[p] \in 0 .. RevealFor
      BY <2>0, <3>1, <3>2
    <3>4. timers'[p] + shown' <= RevealFor
      BY <2>0, <3>1, <3>3
    <3> QED
      BY <3>1, <3>2, <3>4 DEF DialogKept
  <2>7. CASE UNCHANGED dialogVars
    BY <2>7 DEF dialogVars, DialogKept
  <2> QED
    BY <2>1, <2>2, <2>3, <2>4, <2>5, <2>6, <2>7, DialogSteps
<1>3. DialogKept => PlaintextExpires
  BY DEF DialogKept, PlaintextExpires
<1> QED
  BY <1>1, <1>2, <1>3, TypeCorrect, PTL DEF Spec

\* The rows on screen belong to the namespace that their buttons write to.
THEOREM RowsBelong == Spec => []RowsOfNamespace
<1>1. Init => RowsOfNamespace
  BY DEF Init, RowsOfNamespace
<1>2. RowsOfNamespace /\ [Next]_vars => RowsOfNamespace'
  BY RowSteps DEF RowsOfNamespace, LockSession, Loaded
<1> QED
  BY <1>1, <1>2, PTL DEF Spec

\* Only a request on its way is sent.
LEMMA OnlySendSends ==
  ASSUME TypeOK, [Next]_vars, NEW o \in Operation,
         ops'[o].stage = "sent", ops[o].stage # "sent"
  PROVE  Send(o)
<1>1. ops \in [Operation -> Record]
  BY DEF TypeOK
<1>2. CASE Page \/ Clock \/ UNCHANGED vars
  BY <1>2 DEF Page, Clock, vars, Touch, PressLock, PageHide, FillRotation,
     OpenDeletion, CancelDeletion, CloseDialog, LockFires, LockSession, CloseEvent, Tick,
     RevealFires, sessionVars
<1>3. ASSUME NEW p \in Operation, User(p) \/ Progress(p)
      PROVE  Send(o)
  <2>1. CASE Send(p)
    <3>1. ops' = [ops EXCEPT ![p].id = session.id, ![p].stage = "sent"]
      BY <2>1 DEF Send
    <3>2. p = o
      BY <1>1, <3>1
    <3> QED
      BY <2>1, <3>2
  <2>2. CASE ~Send(p)
    <3>1. \A q \in Operation : ops'[q].stage = "sent" => ops[q].stage = "sent"
      BY <1>1, <1>3, <2>2 DEF User, Progress, SubmitUnlock, Load, Reveal, Create, Update,
         Delete, Rekey, Verify, Ask, Started, Import, Sign, Fail, Loaded, Revealed, Created,
         Updated, Deleted, Rekeyed, Verified, End, ThenLoad, Finished, Idle, Record
    <3> QED
      BY <3>1
  <2> QED
    BY <2>1, <2>2
<1> QED
  BY <1>2, <1>3 DEF Next

\* Whom the session names has been entered since it was last locked.  A key may
\* be there with no client, the import of one that was entered before the lock.
NamedIsEntered == session.id # None => session.id \in entered

\* Nothing acceptable leaves a console that was locked before its client has
\* been entered again: lockSession clears state.clientId, which signedHeaders
\* reads last, and only the unlock form sets it.
THEOREM LockedIsSilent == Spec => SilentOnceLocked
<1>1. Init => NamedIsEntered
  BY DEF Init, NoSession, NamedIsEntered
<1>2. TypeOK /\ NamedIsEntered /\ [Next]_vars => NamedIsEntered'
  <2> SUFFICES ASSUME TypeOK, NamedIsEntered, [Next]_vars PROVE NamedIsEntered'
    OBVIOUS
  <2> USE DEF NamedIsEntered, TypeOK, Session
  <2>1. CASE LockSession
    BY <2>1 DEF LockSession, NoSession
  <2>2. CASE Tick
    BY <2>2 DEF Tick
  <2>3. ASSUME NEW o \in Operation, SubmitUnlock(o)
        PROVE  NamedIsEntered'
    BY <2>3 DEF SubmitUnlock, NoSession
  <2>4. ASSUME NEW o \in Operation, Import(o)
        PROVE  NamedIsEntered'
    BY <2>4 DEF Import
  <2>5. CASE UNCHANGED <<session, entered>>
    BY <2>5
  <2> QED
    BY <2>1, <2>2, <2>3, <2>4, <2>5, SessionSteps
<1>3. ASSUME TypeOK, NamedIsEntered, [Next]_vars, NEW o \in Operation,
             ops'[o].stage = "sent", ops[o].stage # "sent", Accepted(ops'[o])
      PROVE  ops'[o].id \in entered
  <2>1. Send(o)
    BY <1>3, OnlySendSends
  <2>2. ops'[o].id = session.id
    BY <1>3, <2>1 DEF Send, TypeOK, Record
  <2> QED
    BY <1>3, <2>2 DEF Accepted, NamedIsEntered
<1>4. TypeOK /\ NamedIsEntered /\ [Next]_vars =>
        [\A o \in Operation :
           ops'[o].stage = "sent" /\ ops[o].stage # "sent" /\ Accepted(ops'[o])
             => ops'[o].id \in entered]_vars
  BY <1>3
<1> QED
  BY <1>1, <1>2, <1>4, TypeCorrect, PTL DEF Spec, SilentOnceLocked

=============================================================================
