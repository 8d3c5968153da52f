------------------------ MODULE VaultService_proofs ------------------------
(***************************************************************************)
(* Proofs about VaultService, for every set of requests, nonces, names,    *)
(* keys and wishes: that what VaultStore_proofs and VaultData_proofs prove *)
(* of the store holds behind the service; that nothing gets past the gate  *)
(* of a vault whose log has come apart; that replies and log tell one      *)
(* story; and that a write that is asked for again, or raced by its own    *)
(* copy, takes effect once.                                                *)
(***************************************************************************)
EXTENDS VaultService, VaultData_proofs

-----------------------------------------------------------------------------
(* The service implements the store *)

\* Each step of the service is one of the store, or leaves it alone.
LEMMA StartIsArrival ==
  ASSUME NEW r \in Request, NEW part \in Part, NEW c, NEW where, Start(r, part, c, where)
  PROVE  Next
<1>1. <<r, part>> \in Task
  BY ServiceAssumption
<1> QED
  BY <1>1 DEF Start, Next

LEMMA StoreStep == ASSUME [ServiceNext]_allVars PROVE [Next]_vars
<1>1. CASE Bootstrap /\ UNCHANGED serviceVars
  BY <1>1 DEF Next
<1>2. CASE Die
  BY <1>2 DEF Die, Next
<1>3. CASE \E t \in Task : Step(t) /\ UNCHANGED serviceVars
  BY <1>3 DEF Next
<1>4. ASSUME NEW r \in Request, Receive(r)
      PROVE  [Next]_vars
  BY <1>4, StartIsArrival DEF Receive, TooLarge, AskGate, PassBy, Probe, Part, storeVars
<1>5. ASSUME NEW r \in Request, Claim(r) \/ Fail(r)
      PROVE  [Next]_vars
  BY <1>5, StartIsArrival DEF Claim, Fail, Report, Part, storeVars
<1>6. ASSUME NEW r \in Request,
             Enter(r) \/ TurnAway(r) \/ Refuse(r) \/ Refused(r) \/ Served(r) \/ Failed(r)
      PROVE  UNCHANGED vars
  BY <1>6 DEF Enter, TurnAway, Refuse, Refused, Served, Failed, storeVars
<1>7. CASE UNCHANGED allVars
  BY <1>7 DEF allVars, vars
<1> QED
  BY <1>1, <1>2, <1>3, <1>4, <1>5, <1>6, <1>7 DEF ServiceNext, Handle

\* The service's behaviours, seen from the store, are the store's: what is
\* proved of VaultStore holds of a vault behind its service.
LEMMA ServiceIsStore == ServiceSpec => Spec
<1>1. ServiceInit => Init
  BY DEF ServiceInit
<1> QED
  BY <1>1, StoreStep, PTL DEF ServiceSpec, Spec

\* So the clients of the service see an atomic, audited ledger, however their
\* requests, gates and recordings of failures interleave.
THEOREM ServiceImplements == ServiceSpec => ImplementsLedger
BY ServiceIsStore, Implements, PTL

-----------------------------------------------------------------------------
(* Types *)

\* A request that was received is like something.
Asked == \A r \in Request : stage[r] # "idle" => wish[r] \in Wishes

TypedRest == stage \in [Request -> RequestStage] /\ reply \in [Request -> Reply]

LEMMA StartTyped ==
  ASSUME ServiceTypeOK, NEW r \in Request, NEW part, NEW c,
         NEW where \in RequestStage, Start(r, part, c, where)
  PROVE  stage' \in [Request -> RequestStage]
BY DEF ServiceTypeOK, Start

LEMMA RespondTyped ==
  ASSUME ServiceTypeOK, NEW r \in Request, NEW status \in Codes,
         Respond(r, status) \/ Unhandled(r)
  PROVE  TypedRest'
<1>1. [ status |-> status, secured |-> TRUE ] \in Reply
  BY DEF Reply
<1>2. [ status |-> 500, secured |-> FALSE ] \in Reply
  BY DEF Reply, Codes
<1>3. PICK x \in Reply : reply' = [reply EXCEPT ![r] = x]
  BY <1>1, <1>2, ZenonT(40) DEF Respond, Unhandled
<1>4. reply' \in [Request -> Reply]
  BY <1>3 DEF ServiceTypeOK
<1>5. stage' \in [Request -> RequestStage]
  BY DEF ServiceTypeOK, Respond, Unhandled, RequestStage
<1> QED
  BY <1>4, <1>5 DEF TypedRest

LEMMA DueTyped ==
  ASSUME ServiceTypeOK, NEW r \in Request, NEW status \in Codes, Due(r, status)
  PROVE  reply' \in [Request -> Reply]
BY DEF ServiceTypeOK, Due, Reply

LEMMA ServiceTypeStep ==
  ASSUME ServiceTypeOK, Asked, [ServiceNext]_allVars, TypeOK'
  PROVE  ServiceTypeOK'
<1> USE DEF ServiceTypeOK
<1>1. /\ { "gate", "admission", "refusing", "serving", "failing" } \subseteq RequestStage
      /\ { 200, 400, 401, 403, 404, 409, 413, 422, 429, 500, 503 } \subseteq Codes
      /\ \A r \in Request : reply[r].status \in Codes
  BY DEF RequestStage, Under, Codes, Reply
<1>2. ASSUME NEW r \in Request, stage' = [stage EXCEPT ![r] = "admission"]
      PROVE  stage' \in [Request -> RequestStage]
  BY <1>1, <1>2
<1>3. CASE UNCHANGED serviceVars
  BY <1>3 DEF serviceVars
<1>4. CASE Die
  BY <1>4 DEF Die, RequestStage
<1>5. ASSUME NEW r \in Request, Receive(r)
      PROVE  ServiceTypeOK'
  <2>1. /\ late' \subseteq Request /\ nonces' = nonces
        /\ wish' \in [Request -> Wishes \cup {NoWish}]
    BY <1>5 DEF Receive, TooLarge, AskGate, PassBy, Probe
  <2>2. PICK w \in Wishes :
          \/ Start(r, "call", w.call, "serving") /\ UNCHANGED reply
          \/ Respond(r, 400) \/ Respond(r, 413)
          \/ stage' = [stage EXCEPT ![r] = "admission"] /\ UNCHANGED reply
          \/ Start(r, "gate", Nameless("verify_audit_checkpoint"), "gate") /\ UNCHANGED reply
    BY <1>5 DEF Receive, TooLarge, AskGate, PassBy, Probe
  <2>3. TypedRest'
    BY <1>1, <1>2, <2>2, StartTyped, RespondTyped DEF TypedRest
  <2> QED
    BY <2>1, <2>3 DEF TypedRest
<1>6. ASSUME NEW r \in Request, Claim(r)
      PROVE  ServiceTypeOK'
  <2>1. wish' = wish /\ late' = late
    BY <1>6 DEF Claim
  <2>2. nonces' \subseteq [ nonce : Nonce, by : Request ]
    <3>1. wish[r].nonce \in Nonce
      BY <1>6, ServiceAssumption DEF Claim, Asked, Wish
    <3> QED
      BY <1>6, <3>1 DEF Claim, ClaimNonce
  <2>3. \/ /\ \/ Start(r, "record", Nameless("record_security_event"), "refusing")
              \/ Start(r, "call", wish[r].call, "serving")
           /\ UNCHANGED reply \/ Due(r, 409) \/ Due(r, 403)
        \/ Respond(r, 422)
    BY <1>6 DEF Claim, Report
  <2>4. TypedRest'
    BY <1>1, <2>3, StartTyped, RespondTyped, DueTyped DEF TypedRest
  <2> QED
    BY <2>1, <2>2, <2>4 DEF TypedRest
<1>7. ASSUME NEW r \in Request, Fail(r)
      PROVE  ServiceTypeOK'
  BY <1>1, <1>7, StartTyped, DueTyped DEF Fail, Report
<1>8. ASSUME NEW r \in Request, Enter(r)
      PROVE  ServiceTypeOK'
  BY <1>2, <1>8 DEF Enter
<1>9. ASSUME NEW r \in Request,
             TurnAway(r) \/ Refuse(r) \/ Refused(r) \/ Served(r) \/ Failed(r)
      PROVE  ServiceTypeOK'
  <2>1. wish' = wish /\ late' = late /\ nonces' = nonces
    BY <1>9 DEF TurnAway, Refuse, Refused, Served, Failed
  <2>2. Unhandled(r) \/ \E status \in Codes : Respond(r, status)
    BY <1>1, <1>9 DEF TurnAway, Refuse, Refused, Served, Failed
  <2> QED
    BY <1>1, <2>1, <2>2, RespondTyped DEF TypedRest
<1> QED
  BY <1>3, <1>4, <1>5, <1>6, <1>7, <1>8, <1>9 DEF ServiceNext, Handle, allVars

-----------------------------------------------------------------------------
(* Nothing gets past the gate of a vault that has come apart *)

Gated(r) == wish[r].call.op \notin Ungated

Gate(r) == <<r, "gate">>

\* The checkpoint of a late request: what it has read, it read after the two
\* had come apart, so it cannot find them equal.
GateShut(r) ==
  /\ pc[Gate(r)] \in { "anchor", "tail", "done" }
  /\ pc[Gate(r)] = "tail" => Readable(anchor) /\ seen[Gate(r)].line = LastLine(anchor)
  /\ pc[Gate(r)] = "done" => answer[Gate(r)].status = "invalid"

LateShut(r) ==
  /\ stage[r] \in { "gate", "replied", "lost" }
  /\ stage[r] = "gate" => GateShut(r)
  /\ stage[r] = "replied" => reply[r].status \in { 400, 413, 503 }
  /\ \A row \in nonces : row.by # r

GateInv ==
  /\ Asked
  /\ late # {} => Diverged
  /\ \A r \in late : stage[r] # "idle"
  /\ \A row \in nonces : stage[row.by] # "idle"
  /\ \A r \in late : Gated(r) => LateShut(r)

ServiceInv == Inv /\ ServiceTypeOK /\ GateInv

\* A step of a task is no step of another one.
LEMMA OthersStay ==
  ASSUME Inv, NEW t \in Task, Step(t), NEW u \in Task, u # t
  PROVE  pc'[u] = pc[u] /\ seen'[u] = seen[u] /\ answer'[u] = answer[u]
<1> USE DEF Inv, TypeOK
<1>1. CASE Execute(t)
  <2>1. ASSUME NEW status, Reject(t, status)
        PROVE  pc'[u] = pc[u] /\ seen'[u] = seen[u] /\ answer'[u] = answer[u]
    BY <2>1 DEF Reject, Rollback, Finish
  <2>2. CASE Refuses(t)
    BY <2>1, <2>2 DEF Refuses
  <2>3. ASSUME NEW d, NEW name, NEW result, AppendAudit(t, d, name, result)
        PROVE  pc'[u] = pc[u] /\ seen'[u] = seen[u] /\ answer'[u] = answer[u]
    BY <2>3 DEF AppendAudit, Reject, Rollback, Finish
  <2> QED
    BY <1>1, <2>2, <2>3, ExecuteShape DEF Appends
<1>2. CASE CheckTarget(t) \/ Begin(t) \/ Busy(t)
  BY <1>2 DEF CheckTarget, Begin, Busy, Finish
<1>3. CASE Commit(t) \/ CommitFails(t)
  BY <1>3 DEF Commit, CommitFails, Reject, Rollback, Finish
<1>4. CASE ReadRows(t) \/ ReadAnchor(t) \/ ReadTail(t)
  BY <1>4 DEF ReadRows, ReadAnchor, ReadTail, Finish, unread
<1> QED
  BY <1>1, <1>2, <1>3, <1>4 DEF Step

\* What the checkpoint of a late request does next.
LEMMA GateSteps ==
  ASSUME Inv, Diverged, NEW r \in Request, GateShut(r), Gate(r) \in Task, Step(Gate(r)),
         anchor' = anchor
  PROVE  GateShut(r)'
<1> DEFINE g == Gate(r)
<1> USE DEF Inv, TypeOK
<1>1. pc[g] \in { "anchor", "tail", "done" }
  BY DEF GateShut
<1>2. ReadAnchor(g) \/ ReadTail(g)
  BY <1>1, ExecuteStage
  DEF Step, CheckTarget, Begin, Busy, Commit, CommitFails, ReadRows
<1>3. CASE ReadAnchor(g)
  <2>1. CASE Readable(anchor)
    <3>1. pc'[g] = "tail" /\ seen'[g].line = LastLine(anchor)
      BY <1>3, <2>1 DEF ReadAnchor, Seen
    <3> QED
      BY <2>1, <3>1 DEF GateShut, Readable, LastLine
  <2>2. CASE ~Readable(anchor)
    <3>1. pc'[g] = "done" /\ answer'[g].status = "invalid"
      BY <1>3, <2>2 DEF ReadAnchor, Finish, Result
    <3> QED
      BY <3>1 DEF GateShut
  <2> QED
    BY <2>1, <2>2
<1>4. CASE ReadTail(g)
  <2>1. pc[g] = "tail"
    BY <1>4 DEF ReadTail
  <2>2. ~Matches(seen[g].line, db)
    BY <2>1 DEF GateShut, Diverged, CheckpointHolds
  <2>3. pc'[g] = "done" /\ answer'[g].status = "invalid"
    BY <1>4, <2>2 DEF ReadTail, Finish, Result
  <2> QED
    BY <2>3 DEF GateShut
<1> QED
  BY <1>2, <1>3, <1>4

\* A request's step is no step of another one.
LEMMA RequestFrame ==
  ASSUME ServiceInv, NEW q \in Request, Receive(q) \/ Handle(q)
  PROVE  /\ stage'[q] \in RequestStage \ { "idle", "lost" }
         /\ \A row \in nonces' : row \in nonces \/ row.by = q
         /\ \A r \in Request \ {q} :
              /\ stage'[r] = stage[r] /\ reply'[r] = reply[r] /\ wish'[r] = wish[r]
              /\ pc'[Gate(r)] = pc[Gate(r)] /\ seen'[Gate(r)] = seen[Gate(r)]
              /\ answer'[Gate(r)] = answer[Gate(r)]
<1> USE DEF ServiceInv, ServiceTypeOK, GateInv
<1>1. ASSUME NEW part, NEW c, NEW where \in RequestStage \ { "idle", "lost" },
             Start(q, part, c, where)
      PROVE  /\ stage'[q] \in RequestStage \ { "idle", "lost" }
             /\ \A r \in Request \ {q} : stage'[r] = stage[r]
             /\ \A r \in Request \ {q} : pc'[Gate(r)] = pc[Gate(r)]
             /\ UNCHANGED <<seen, answer>>
  BY <1>1 DEF Start, Arrive, Gate, TypeOK
<1>2. ASSUME NEW status, Respond(q, status) \/ Unhandled(q)
      PROVE  /\ stage'[q] \in RequestStage \ { "idle", "lost" }
             /\ \A r \in Request \ {q} : stage'[r] = stage[r] /\ reply'[r] = reply[r]
  BY <1>2 DEF Respond, Unhandled, RequestStage
<1>3. ASSUME NEW status, Due(q, status)
      PROVE  \A r \in Request \ {q} : reply'[r] = reply[r]
  BY <1>3 DEF Due
<1>4. { "gate", "admission", "refusing", "serving", "failing" }
        \subseteq RequestStage \ { "idle", "lost" }
  BY DEF RequestStage, Under
<1>5. CASE Receive(q)
  <2>1. PICK w \in Wishes :
          /\ wish' = [wish EXCEPT ![q] = w]
          /\ \/ Start(q, "call", w.call, "serving") /\ UNCHANGED reply
             \/ (Respond(q, 400) \/ Respond(q, 413)) /\ UNCHANGED storeVars
             \/ stage' = [stage EXCEPT ![q] = "admission"] /\ UNCHANGED <<storeVars, reply>>
             \/ /\ Start(q, "gate", Nameless("verify_audit_checkpoint"), "gate")
                /\ UNCHANGED reply
    BY <1>5 DEF Receive, TooLarge, AskGate, PassBy, Probe
  <2>2. nonces' = nonces /\ \A r \in Request \ {q} : wish'[r] = wish[r]
    BY <1>5, <2>1 DEF Receive
  <2>3. CASE stage' = [stage EXCEPT ![q] = "admission"] /\ UNCHANGED <<storeVars, reply>>
    BY <1>4, <2>2, <2>3 DEF storeVars, vars
  <2> QED
    BY <1>1, <1>2, <1>4, <2>1, <2>2, <2>3 DEF storeVars, vars
<1>6. CASE Claim(q)
  <2>1. /\ wish' = wish
        /\ \A row \in nonces' : row \in nonces \/ row.by = q
    BY <1>6 DEF Claim, ClaimNonce
  <2>2. \/ /\ \/ Start(q, "record", Nameless("record_security_event"), "refusing")
              \/ Start(q, "call", wish[q].call, "serving")
           /\ UNCHANGED reply \/ Due(q, 409) \/ Due(q, 403)
        \/ Respond(q, 422) /\ UNCHANGED storeVars
    BY <1>6 DEF Claim, Report
  <2> QED
    BY <1>1, <1>2, <1>3, <1>4, <2>1, <2>2 DEF storeVars, vars
<1>7. CASE Fail(q)
  BY <1>1, <1>3, <1>4, <1>7 DEF Fail, Report
<1>8. CASE Enter(q)
  BY <1>4, <1>8 DEF Enter, storeVars, vars
<1>9. CASE TurnAway(q) \/ Refuse(q) \/ Refused(q) \/ Served(q) \/ Failed(q)
  <2>1. UNCHANGED <<storeVars, wish, nonces>>
    BY <1>9 DEF TurnAway, Refuse, Refused, Served, Failed
  <2>2. Unhandled(q) \/ \E status \in Codes : Respond(q, status)
    <3>1. /\ { 200, 400, 401, 403, 404, 409, 413, 422, 429, 500, 503 } \subseteq Codes
          /\ reply[q].status \in Codes
      BY DEF Codes, Reply
    <3> QED
      BY <1>9, <3>1 DEF TurnAway, Refuse, Refused, Served, Failed
  <2> QED
    BY <1>2, <2>1, <2>2 DEF storeVars, vars
<1> QED
  BY <1>5, <1>6, <1>7, <1>8, <1>9 DEF Handle

LEMMA ServiceInitInv == ServiceInit => ServiceInv
<1> SUFFICES ASSUME ServiceInit PROVE ServiceInv
  OBVIOUS
<1>1. Inv
  BY InitInv DEF ServiceInit
<1>2. NoReply \in Reply
  BY DEF NoReply, Reply, Codes
<1> QED
  BY <1>1, <1>2 DEF ServiceInit, ServiceInv, GateInv, ServiceTypeOK, Inv, Asked, RequestStage

LEMMA ServiceNextInv == ServiceInv /\ [ServiceNext]_allVars => ServiceInv'
<1> SUFFICES ASSUME ServiceInv, [ServiceNext]_allVars PROVE ServiceInv'
  OBVIOUS
<1> USE DEF ServiceInv, ServiceTypeOK, GateInv
<1>1. [Next]_vars /\ Inv'
  BY StoreStep, NextInv
<1>2. ServiceTypeOK'
  BY <1>1, ServiceTypeStep DEF Inv
<1>3. Diverged => Diverged' /\ db' = db /\ anchor' = anchor
  BY <1>1, DivergedStep
<1>4. SUFFICES GateInv'
  BY <1>1, <1>2
<1>5. \A r \in Request : Gate(r) \in Task
  BY ServiceAssumption DEF Gate, Part
<1>6. CASE UNCHANGED serviceVars /\ UNCHANGED <<pc, seen, answer>>
  <2>1. \A r \in late : Gated(r) => LateShut(r)'
    BY <1>3, <1>6 DEF serviceVars, LateShut, GateShut, Readable, LastLine
  <2> QED
    BY <1>3, <1>6, <2>1 DEF serviceVars, Asked, Gated
<1>7. ASSUME NEW t \in Task, Step(t), UNCHANGED serviceVars
      PROVE  GateInv'
  <2>1. ASSUME NEW r \in late, Gated(r)
        PROVE  LateShut(r)'
    <3>1. Diverged /\ LateShut(r) /\ anchor' = anchor
      BY <1>3, <2>1
    <3>2. CASE stage[r] # "gate"
      BY <1>7, <3>1, <3>2 DEF LateShut, serviceVars
    <3>3. CASE stage[r] = "gate"
      <4>1. GateShut(r)
        BY <3>1, <3>3 DEF LateShut
      <4>2. CASE t = Gate(r)
        <5>1. GateShut(r)'
          BY <1>7, <3>1, <4>1, <4>2, GateSteps
        <5> QED
          BY <1>7, <3>1, <3>3, <5>1 DEF LateShut, serviceVars
      <4>3. CASE t # Gate(r)
        <5>1. /\ pc'[Gate(r)] = pc[Gate(r)] /\ seen'[Gate(r)] = seen[Gate(r)]
              /\ answer'[Gate(r)] = answer[Gate(r)]
          BY <1>5, <1>7, <4>3, OthersStay
        <5>2. GateShut(r)'
          BY <3>1, <4>1, <5>1 DEF GateShut, Readable, LastLine
        <5> QED
          BY <1>7, <3>1, <3>3, <5>2 DEF LateShut, serviceVars
      <4> QED
        BY <4>2, <4>3
    <3> QED
      BY <3>2, <3>3
  <2> QED
    BY <1>3, <1>7, <2>1 DEF serviceVars, Asked, Gated
<1>8. CASE Die
  <2>1. /\ UNCHANGED <<wish, reply, nonces, late>>
        /\ \A r \in Request :
             stage'[r] = IF stage[r] \in Under THEN "lost" ELSE stage[r]
    BY <1>8 DEF Die
  <2>2. \A r \in late : Gated(r) => LateShut(r)'
    BY <2>1 DEF LateShut, Under
  <2> QED
    BY <1>3, <2>1, <2>2 DEF Asked, Gated, Under
<1>9. ASSUME NEW q \in Request, Receive(q) \/ Handle(q)
      PROVE  GateInv'
  <2>1. /\ stage'[q] \in RequestStage \ { "idle", "lost" }
        /\ \A row \in nonces' : row \in nonces \/ row.by = q
        /\ \A r \in Request \ {q} :
             /\ stage'[r] = stage[r] /\ reply'[r] = reply[r] /\ wish'[r] = wish[r]
             /\ pc'[Gate(r)] = pc[Gate(r)] /\ seen'[Gate(r)] = seen[Gate(r)]
             /\ answer'[Gate(r)] = answer[Gate(r)]
    BY <1>9, RequestFrame
  <2>2. ASSUME NEW r \in late, r # q, Gated(r)
        PROVE  LateShut(r)'
    <3>1. LateShut(r) /\ anchor' = anchor
      BY <1>3, <2>2
    <3>2. /\ stage'[r] = stage[r] /\ reply'[r] = reply[r]
          /\ pc'[Gate(r)] = pc[Gate(r)] /\ seen'[Gate(r)] = seen[Gate(r)]
          /\ answer'[Gate(r)] = answer[Gate(r)]
      BY <2>1, <2>2
    <3>3. GateShut(r) => GateShut(r)'
      BY <3>1, <3>2 DEF GateShut, Readable, LastLine
    <3> QED
      BY <2>1, <2>2, <3>1, <3>2, <3>3 DEF LateShut
  <2>3. CASE Receive(q)
    <3>1. /\ stage[q] = "idle" /\ nonces' = nonces
          /\ late' = IF Diverged THEN late \cup {q} ELSE late
      BY <2>3 DEF Receive
    <3>2. PICK w \in Wishes :
            /\ wish' = [wish EXCEPT ![q] = w]
            /\ \/ w.call.op \in Ungated
               \/ Respond(q, 400) \/ Respond(q, 413)
               \/ Start(q, "gate", Nameless("verify_audit_checkpoint"), "gate")
      BY <2>3, ZenonT(40) DEF Receive, TooLarge, AskGate, PassBy, Probe, Ungated
    <3>3. \A row \in nonces : row.by # q
      BY <3>1
    <3>4. ASSUME Gated(q)' PROVE LateShut(q)'
      <4>1. CASE Respond(q, 400) \/ Respond(q, 413)
        <5>1. stage'[q] = "replied" /\ reply'[q].status \in { 400, 413 }
          BY <4>1 DEF Respond
        <5> QED
          BY <3>1, <3>3, <5>1 DEF LateShut
      <4>2. CASE Start(q, "gate", Nameless("verify_audit_checkpoint"), "gate")
        <5>1. stage'[q] = "gate" /\ pc'[Gate(q)] = "anchor"
          BY <1>1, <1>5, <4>2
          DEF Start, Arrive, Gate, FirstStage, Nameless, Inv, TypeOK
        <5>2. GateShut(q)'
          BY <5>1 DEF GateShut
        <5> QED
          BY <3>1, <3>3, <5>1, <5>2 DEF LateShut
      <4>3. CASE w.call.op \in Ungated
        BY <3>2, <3>4, <4>3 DEF Gated
      <4> QED
        BY <3>2, <4>1, <4>2, <4>3
    <3>5. Asked'
      BY <2>1, <3>2 DEF Asked
    <3>6. \A r \in late : r # q
      BY <3>1
    <3>7. \A r \in late' : Gated(r)' => LateShut(r)'
      BY <2>1, <2>2, <3>1, <3>4, <3>6 DEF Gated
    <3> QED
      BY <1>3, <2>1, <3>1, <3>5, <3>6, <3>7
  <2>4. CASE Handle(q)
    <3>1. stage[q] # "idle" /\ UNCHANGED <<wish, late>>
      BY <2>4
      DEF Handle, Enter, TurnAway, Refuse, Claim, Refused, Served, Fail, Failed, Returned
    <3>2. ASSUME q \in late, Gated(q) PROVE LateShut(q)'
      <4>1. LateShut(q) /\ Diverged
        BY <3>2
      <4>2. stage[q] = "gate"
        BY <2>4, <4>1
        DEF Handle, Enter, TurnAway, Refuse, Claim, Refused, Served, Fail, Failed,
            Returned, LateShut
      <4>3. TurnAway(q)
        BY <2>4, <4>1, <4>2
        DEF Handle, Enter, Refuse, Claim, Refused, Served, Fail, Failed,
            Returned, LateShut, GateShut, Gate
      <4>4. stage'[q] = "replied" /\ reply'[q].status = 503 /\ nonces' = nonces
        BY <4>3 DEF TurnAway, Respond
      <4> QED
        BY <4>1, <4>4 DEF LateShut
    <3>3. Asked'
      BY <2>1, <3>1 DEF Asked
    <3>4. \A r \in late' : Gated(r)' => LateShut(r)'
      BY <2>2, <3>1, <3>2 DEF Gated
    <3> QED
      BY <1>3, <2>1, <3>1, <3>3, <3>4
  <2> QED
    BY <1>9, <2>3, <2>4
<1>10. CASE Bootstrap /\ UNCHANGED serviceVars
  BY <1>6, <1>10
  DEF Bootstrap, Open, StartAnchor, StartAnchorFails, KeepAnchor, Admit, taskVars
<1>11. CASE UNCHANGED allVars
  BY <1>6, <1>11 DEF allVars, vars, serviceVars
<1> QED
  BY <1>7, <1>8, <1>9, <1>10, <1>11 DEF ServiceNext

\* The invariant of the gate holds in every vault behind its service.
THEOREM ServiceInvariance == ServiceSpec => []ServiceInv
BY ServiceInitInv, ServiceNextInv, PTL DEF ServiceSpec

\* Every variable keeps its type.
THEOREM ServiceTypeCorrect == ServiceSpec => []ServiceTypeOK
<1>1. ServiceInv => ServiceTypeOK
  BY DEF ServiceInv
<1> QED
  BY <1>1, ServiceInvariance, PTL

\* A request that arrives once the anchor and the log have come apart is turned
\* away and leaves no trace: whatever the store, other requests, failures and
\* restarts do before its reply.
THEOREM GateHolds == ServiceSpec => []LateTurnedAway
<1>1. ServiceInv => LateTurnedAway
  BY DEF ServiceInv, GateInv, LateTurnedAway, Gated, LateShut
<1> QED
  BY <1>1, ServiceInvariance, PTL

-----------------------------------------------------------------------------
(* The log and the replies *)

\* A verification answers with a verdict, no other call does.
FitOf(t) ==
  pc[t] = "done" => (answer[t].status \in { "valid", "invalid" } <=> call[t].op \in Verification)

LEMMA StepsFit ==
  ASSUME VaultInv, NEW t \in Task, Step(t)
  PROVE  /\ call' = call
         /\ pc[t] \in Waiting /\ pc'[t] \in Waiting \cup {"done"}
         /\ FitOf(t)'
<1>1. /\ pc \in [Task -> Stage] /\ answer \in [Task -> Answer]
      /\ Placed(t) /\ PendingEdit
  BY DEF VaultInv, Inv, TypeOK, DataInv, CallsPlaced
<1>2. ASSUME NEW status, status \notin { "valid", "invalid" }, call' = call,
             call[t].op \notin Verification, Finish(t, Result(status, 0, None, {}))
      PROVE  pc'[t] \in Waiting \cup {"done"} /\ FitOf(t)'
  BY <1>1, <1>2 DEF Finish, Result, FitOf
<1>3. ASSUME NEW next \in Waiting, pc' = [pc EXCEPT ![t] = next]
      PROVE  pc'[t] \in Waiting \cup {"done"} /\ FitOf(t)'
  BY <1>1, <1>3 DEF FitOf, Waiting
<1>4. CASE CheckTarget(t) \/ Begin(t) \/ Busy(t)
  <2>1. call' = call /\ pc[t] \in { "target", "begin" }
    BY <1>4 DEF CheckTarget, Begin, Busy
  <2>2. call[t].op \notin Verification
    BY <1>1, <2>1 DEF Placed, Verification
  <2>3. \/ \E s \in { "begin", "execute" } : pc' = [pc EXCEPT ![t] = s]
        \/ \E status \in { "not_found", "conflict", "error" } :
             Finish(t, Result(status, 0, None, {}))
    BY <1>4 DEF CheckTarget, Begin, Busy
  <2> QED
    BY <1>2, <1>3, <2>1, <2>2, <2>3 DEF Waiting
<1>5. ASSUME NEW status, status \notin { "valid", "invalid" }, Rollback(t, status),
             pc[t] \in { "execute", "commit" }
      PROVE  call' = call /\ pc'[t] \in Waiting \cup {"done"} /\ FitOf(t)'
  BY <1>1, <1>2, <1>5 DEF Rollback, Placed
<1>6. CASE Execute(t)
  <2>1. pc[t] = "execute" /\ call[t] \in Calls
    BY <1>1, <1>6, ExecuteStage DEF Placed
  <2>2. CASE Declines(t)
    BY <1>5, <2>1, <2>2 DEF Declines, Refusable, Waiting
  <2>3. CASE Prepares(t)
    BY <1>3, <2>1, <2>3 DEF Prepares, Waiting
  <2> QED
    BY <1>6, <2>1, <2>2, <2>3, ExecuteOutcome DEF VaultInv, Inv
<1>7. CASE Commit(t)
  <2>1. pc[t] = "commit" /\ UNCHANGED <<call, answer>> /\ pc'[t] = "done"
    BY <1>1, <1>7 DEF Commit
  <2>2. answer[t].status = "ok"
    BY <1>1, <2>1, ReturnsWhat DEF PendingEdit, PendingOf
  <2>3. call[t].op \notin Verification
    BY <1>1, <2>1 DEF Placed
  <2> QED
    BY <2>1, <2>2, <2>3 DEF FitOf, Waiting
<1>8. CASE CommitFails(t)
  BY <1>5, <1>8 DEF CommitFails, Reject, Waiting
<1>9. CASE ReadRows(t) \/ ReadAnchor(t) \/ ReadTail(t)
  <2>1. call' = call /\ pc[t] \in { "rows", "anchor", "tail" }
    BY <1>9 DEF ReadRows, ReadAnchor, ReadTail, unread
  <2>2. call[t].op \in Verification
    BY <1>1, <2>1 DEF Placed, Verification
  <2>3. \/ \E s \in { "anchor", "tail" } : pc' = [pc EXCEPT ![t] = s]
        \/ \E status \in { "valid", "invalid" } : \E n, value :
             Finish(t, Result(status, n, value, {}))
    BY <1>9 DEF ReadRows, ReadAnchor, ReadTail
  <2>4. ASSUME NEW status \in { "valid", "invalid" }, NEW n, NEW value,
               Finish(t, Result(status, n, value, {}))
        PROVE  pc'[t] \in Waiting \cup {"done"} /\ FitOf(t)'
    BY <1>1, <2>1, <2>2, <2>4 DEF Finish, Result, FitOf
  <2> QED
    BY <1>3, <2>1, <2>3, <2>4 DEF Waiting
<1> QED
  BY <1>4, <1>6, <1>7, <1>8, <1>9 DEF Step

\* The call that a request makes for its client, and the one that records why
\* it was refused or has failed.
Method(r) == <<r, "call">>
Note(r)   == <<r, "record">>

Resting == { "idle", "done" }

\* What is recorded of a request was not done: admission or the store refused
\* it, and no other call of it is under way.  The stages of a request follow
\* its calls, and the reply it got tells how they ended.
TaleOf(r) ==
  /\ pc[Note(r)] # "idle" => pc[Method(r)] \in Resting /\ ~Settled(Method(r))
  /\ pc[Method(r)] # "idle" => call[Method(r)] = wish[r].call
  /\ stage[r] \in { "idle", "gate", "admission" } => pc[Method(r)] = "idle"
  /\ stage[r] \in { "idle", "gate", "admission", "serving" } =>
       pc[Note(r)] = "idle" /\ reply[r] = NoReply
  /\ stage[r] = "refusing" => pc[Method(r)] = "idle" /\ reply[r].status \in { 403, 409 }
  /\ stage[r] = "failing" => pc[Method(r)] = "done" /\ reply[r].status \in { 404, 409 }
  /\ stage[r] = "replied" =>
       /\ pc[Method(r)] \in Resting /\ pc[Note(r)] \in Resting
       /\ Settled(Method(r)) <=> reply[r].status = 200 /\ wish[r].call.op \notin Ungated
       /\ reply[r].status = 403 => Settled(Note(r))
       /\ reply[r].secured \/ reply[r].status = 500

TaleInv ==
  /\ \A r \in Request : TaleOf(r)
  /\ \A t \in Task : FitOf(t)
  /\ WritesInv

\* A call is one of its request alone.
LEMMA CallsApart ==
  ASSUME NEW r \in Request
  PROVE  /\ Method(r) \in Task /\ Note(r) \in Task /\ Gate(r) \in Task
         /\ Method(r) # Note(r) /\ Method(r) # Gate(r) /\ Note(r) # Gate(r)
         /\ \A q \in Request : q # r =>
              Method(q) # Method(r) /\ Note(q) # Note(r)
<1>1. "call" # "record" /\ "call" # "gate" /\ "record" # "gate"
  OBVIOUS
<1> QED
  BY <1>1, ServiceAssumption DEF Method, Note, Gate, Part

\* The story of a request goes on as it is while its calls do.
LEMMA TaleSame ==
  ASSUME NEW r \in Request, TaleOf(r),
         stage'[r] = stage[r], reply'[r] = reply[r], wish'[r] = wish[r],
         pc'[Method(r)] = pc[Method(r)], pc'[Note(r)] = pc[Note(r)],
         call'[Method(r)] = call[Method(r)],
         answer'[Method(r)] = answer[Method(r)], answer'[Note(r)] = answer[Note(r)]
  PROVE  TaleOf(r)'
<1>1. Settled(Method(r))' <=> Settled(Method(r))
  BY DEF Settled
<1>2. Settled(Note(r))' <=> Settled(Note(r))
  BY DEF Settled
<1> QED
  BY <1>1, <1>2 DEF TaleOf

\* A step of the store, which is one of one call.
LEMMA TaleStep ==
  ASSUME VaultInv, NEW t \in Task, Step(t), UNCHANGED serviceVars,
         NEW r \in Request, TaleOf(r)
  PROVE  TaleOf(r)'
<1>1. /\ call' = call /\ pc[t] \in Waiting /\ pc'[t] \in Waiting \cup {"done"}
      /\ UNCHANGED <<stage, wish, reply>>
  BY StepsFit DEF serviceVars
<1>2. \A u \in Task : u # t => pc'[u] = pc[u] /\ answer'[u] = answer[u]
  BY OthersStay DEF VaultInv
<1>3. Method(r) \in Task /\ Note(r) \in Task /\ Method(r) # Note(r)
  BY CallsApart
<1>4. CASE t = Method(r)
  <2>1. stage[r] \in { "serving", "lost" } \/ stage[r] \notin RequestStage
    BY <1>1, <1>4 DEF TaleOf, Waiting, Resting, RequestStage, Under
  <2>2. pc[Note(r)] = "idle" /\ pc'[Note(r)] = "idle"
    BY <1>1, <1>2, <1>3, <1>4 DEF TaleOf, Waiting, Resting
  <2>3. pc[Method(r)] # "idle"
    BY <1>1, <1>4 DEF Waiting
  <2> QED
    BY <1>1, <1>4, <2>1, <2>2, <2>3 DEF TaleOf, RequestStage, Under
<1>5. CASE t = Note(r)
  <2>1. pc[Method(r)] \in Resting /\ pc'[Method(r)] = pc[Method(r)]
    BY <1>1, <1>2, <1>3, <1>5 DEF TaleOf, Waiting
  <2>2. Settled(Method(r))' <=> Settled(Method(r))
    BY <1>2, <1>3, <1>5 DEF Settled
  <2>3. stage[r] \notin { "idle", "gate", "admission", "serving", "replied" }
    BY <1>1, <1>5 DEF TaleOf, Waiting, Resting
  <2>4. pc[Note(r)] # "idle"
    BY <1>1, <1>5 DEF Waiting
  <2> QED
    BY <1>1, <1>5, <2>1, <2>2, <2>3, <2>4 DEF TaleOf
<1>6. CASE t # Method(r) /\ t # Note(r)
  BY <1>1, <1>2, <1>3, <1>6, TaleSame
<1> QED
  BY <1>4, <1>5, <1>6

\* The end of the process.
LEMMA TaleDies ==
  ASSUME VaultInv, ServiceTypeOK, Die, NEW r \in Request, TaleOf(r)
  PROVE  TaleOf(r)'
<1>1. /\ UNCHANGED <<wish, reply, call>>
      /\ stage'[r] = IF stage[r] \in Under THEN "lost" ELSE stage[r]
      /\ \A t \in Task :
           /\ pc'[t] = IF pc[t] \in Waiting THEN "lost" ELSE pc[t]
           /\ pc[t] \notin Waiting => answer'[t] = answer[t]
  BY DEF Die, Crash
<1>2. Method(r) \in Task /\ Note(r) \in Task
  BY CallsApart
<1>3. \A t \in Task : /\ Settled(t)' <=> Settled(t)
                      /\ pc[t] \in Resting => pc'[t] = pc[t]
                      /\ pc'[t] = "idle" <=> pc[t] = "idle"
  BY <1>1 DEF Settled, Waiting, Resting
<1>4. stage[r] \in RequestStage
  BY DEF ServiceTypeOK
<1>5. CASE stage[r] \in Under
  BY <1>1, <1>2, <1>3, <1>5 DEF TaleOf
<1>6. CASE stage[r] \notin Under
  BY <1>1, <1>2, <1>3, <1>4, <1>6 DEF TaleOf, RequestStage, Under, Resting
<1> QED
  BY <1>5, <1>6

\* A request that starts a call stands where it waits for it.
LEMMA StartMoves ==
  ASSUME VaultInv, ServiceTypeOK, NEW q \in Request, NEW part \in Part, NEW c,
         NEW where, Start(q, part, c, where)
  PROVE  /\ pc[<<q, part>>] = "idle" /\ pc'[<<q, part>>] \notin Resting
         /\ call'[<<q, part>>] = c /\ stage'[q] = where /\ answer' = answer
         /\ \A t \in Task : t # <<q, part>> => pc'[t] = pc[t] /\ call'[t] = call[t]
<1>1. /\ pc \in [Task -> Stage] /\ call \in [Task -> Calls \cup {NoCall}]
      /\ <<q, part>> \in Task
  BY ServiceAssumption DEF VaultInv, Inv, TypeOK
<1>2. PICK w \in Calls : /\ call' = [call EXCEPT ![<<q, part>>] = w]
                         /\ pc' = [pc EXCEPT ![<<q, part>>] = FirstStage(w.op)]
                         /\ pc[<<q, part>>] = "idle" /\ answer' = answer
  BY DEF Start, Arrive
<1>3. FirstStage(w.op) \notin Resting
  BY DEF FirstStage, Resting
<1> QED
  BY <1>1, <1>2, <1>3 DEF Start, ServiceTypeOK

LEMMA MethodStarts ==
  ASSUME VaultInv, ServiceTypeOK, NEW q \in Request, NEW c, NEW where,
         Start(q, "call", c, where)
  PROVE  /\ stage'[q] = where /\ call'[Method(q)] = c /\ pc'[Method(q)] # "idle"
         /\ pc'[Note(q)] = pc[Note(q)]
<1>1. "call" \in Part
  BY DEF Part
<1>2. Note(q) \in Task /\ Note(q) # <<q, "call">>
  BY CallsApart DEF Method
<1>3. /\ stage'[q] = where /\ call'[<<q, "call">>] = c /\ pc'[<<q, "call">>] \notin Resting
      /\ \A t \in Task : t # <<q, "call">> => pc'[t] = pc[t]
  BY <1>1, StartMoves
<1> QED
  BY <1>2, <1>3 DEF Method, Resting

LEMMA NoteStarts ==
  ASSUME VaultInv, ServiceTypeOK, NEW q \in Request, NEW where, Report(q, where)
  PROVE  /\ stage'[q] = where /\ answer' = answer
         /\ pc'[Method(q)] = pc[Method(q)] /\ call'[Method(q)] = call[Method(q)]
<1>1. "record" \in Part
  BY DEF Part
<1>2. Method(q) \in Task /\ Method(q) # <<q, "record">>
  BY CallsApart DEF Note
<1>3. Start(q, "record", Nameless("record_security_event"), where)
  BY DEF Report
<1>4. stage'[q] = where
  BY <1>3 DEF Start, ServiceTypeOK
<1>5. pc'[Method(q)] = pc[Method(q)] /\ call'[Method(q)] = call[Method(q)]
  <2>1. \A t \in Task : t # <<q, "record">> => pc'[t] = pc[t] /\ call'[t] = call[t]
    BY <1>1, <1>3, StartMoves, ZenonT(40)
  <2> QED
    BY <1>2, <2>1
<1>6. answer' = answer
  BY <1>3 DEF Start, Arrive
<1> QED
  BY <1>4, <1>5, <1>6

\* What the service itself does for a request keeps to its story.
LEMMA ReceiveTells ==
  ASSUME VaultInv, ServiceTypeOK, NEW q \in Request, TaleOf(q), Receive(q)
  PROVE  TaleOf(q)'
<1>1. /\ Method(q) \in Task /\ Note(q) \in Task /\ Gate(q) \in Task
      /\ Method(q) # Note(q) /\ Method(q) # Gate(q) /\ Note(q) # Gate(q)
  BY CallsApart
<1>2. /\ stage[q] = "idle" /\ pc[Method(q)] = "idle" /\ pc[Note(q)] = "idle"
      /\ reply[q] = NoReply
  BY DEF Receive, TaleOf
<1>3. PICK w \in Wishes : /\ wish' = [wish EXCEPT ![q] = w]
                          /\ TooLarge(q, w) \/ AskGate(q, w) \/ PassBy(q, w) \/ Probe(q, w)
  BY DEF Receive
<1>4. wish'[q] = w
  BY <1>3 DEF ServiceTypeOK
<1>5. CASE TooLarge(q, w)
  <2>1. /\ stage'[q] = "replied" /\ reply'[q].status \in { 400, 413 }
        /\ reply'[q].secured = TRUE
        /\ pc' = pc /\ answer' = answer
    BY <1>5 DEF TooLarge, Respond, ServiceTypeOK, storeVars, vars
  <2> QED
    BY <1>2, <2>1 DEF TaleOf, Settled, Resting
<1>6. CASE AskGate(q, w)
  <2>1. /\ stage'[q] = "gate" /\ reply' = reply
        /\ pc'[Method(q)] = "idle" /\ pc'[Note(q)] = "idle"
    <3>1. /\ Start(q, "gate", Nameless("verify_audit_checkpoint"), "gate")
          /\ reply' = reply
      BY <1>6 DEF AskGate
    <3>2. stage'[q] = "gate"
      BY <3>1 DEF Start, ServiceTypeOK
    <3>3. \A t \in Task : t # <<q, "gate">> => pc'[t] = pc[t]
      <4>1. "gate" \in Part
        BY DEF Part
      <4>2. \A t \in Task : t # <<q, "gate">> => pc'[t] = pc[t] /\ call'[t] = call[t]
        BY <3>1, <4>1, StartMoves, ZenonT(40)
      <4> QED
        BY <4>2
    <3> QED
      BY <1>1, <1>2, <3>1, <3>2, <3>3 DEF Gate
  <2> QED
    BY <1>2, <2>1 DEF TaleOf
<1>7. CASE PassBy(q, w)
  <2>1. stage'[q] = "admission" /\ reply' = reply /\ pc' = pc
    BY <1>7 DEF PassBy, ServiceTypeOK, storeVars, vars
  <2> QED
    BY <1>2, <2>1 DEF TaleOf
<1>8. CASE Probe(q, w)
  <2>1. /\ stage'[q] = "serving" /\ reply' = reply /\ pc'[Note(q)] = "idle"
        /\ call'[Method(q)] = w.call /\ pc'[Method(q)] # "idle"
        /\ w.call.op = "verify_audit_checkpoint"
    BY <1>2, <1>8, MethodStarts DEF Probe
  <2> QED
    BY <1>2, <1>4, <2>1 DEF TaleOf
<1> QED
  BY <1>3, <1>5, <1>6, <1>7, <1>8

LEMMA ClaimTells ==
  ASSUME VaultInv, ServiceTypeOK, NEW q \in Request, TaleOf(q), Claim(q)
  PROVE  TaleOf(q)'
<1>1. /\ Method(q) \in Task /\ Note(q) \in Task /\ Method(q) # Note(q)
  BY CallsApart
<1>2. /\ stage[q] = "admission" /\ pc[Method(q)] = "idle" /\ pc[Note(q)] = "idle"
      /\ reply[q] = NoReply /\ wish' = wish
  BY DEF Claim, TaleOf
<1>3. ASSUME Report(q, "refusing"), Due(q, 403) \/ Due(q, 409)
      PROVE  TaleOf(q)'
  <2>1. stage'[q] = "refusing" /\ pc'[Method(q)] = "idle"
    BY <1>2, <1>3, NoteStarts
  <2>2. reply'[q].status \in { 403, 409 }
    BY <1>3 DEF Due, ServiceTypeOK, Reply
  <2> QED
    BY <2>1, <2>2 DEF TaleOf, Settled, Resting
<1>4. CASE Respond(q, 422) /\ UNCHANGED storeVars
  <2>1. /\ stage'[q] = "replied" /\ reply'[q].status = 422 /\ reply'[q].secured = TRUE
        /\ pc' = pc /\ answer' = answer
    BY <1>4 DEF Respond, ServiceTypeOK, storeVars, vars
  <2> QED
    BY <1>2, <2>1 DEF TaleOf, Settled, Resting
<1>5. ASSUME Start(q, "call", wish[q].call, "serving"), UNCHANGED reply
      PROVE  TaleOf(q)'
  <2>1. /\ stage'[q] = "serving" /\ pc'[Note(q)] = "idle"
        /\ call'[Method(q)] = wish[q].call
    BY <1>2, <1>5, MethodStarts
  <2> QED
    BY <1>2, <1>5, <2>1 DEF TaleOf
<1> QED
  BY <1>3, <1>4, <1>5 DEF Claim

LEMMA HandleTells ==
  ASSUME VaultInv, ServiceTypeOK, NEW q \in Request, TaleOf(q),
         FitOf(Method(q)), Handle(q)
  PROVE  TaleOf(q)'
<1>1. /\ Method(q) \in Task /\ Note(q) \in Task /\ Method(q) # Note(q)
  BY CallsApart
<1>2. CASE Claim(q)
  BY <1>2, ClaimTells
<1>3. CASE Fail(q)
  <2>1. /\ stage[q] = "serving" /\ pc[Method(q)] = "done" /\ pc[Note(q)] = "idle"
        /\ answer[Method(q)].status \in { "not_found", "conflict" }
        /\ wish' = wish
    BY <1>3 DEF Fail, Returned, Method, TaleOf
  <2>2. /\ stage'[q] = "failing" /\ pc'[Method(q)] = "done" /\ answer' = answer
        /\ call'[Method(q)] = call[Method(q)]
    BY <1>3, <2>1, NoteStarts DEF Fail
  <2>3. reply'[q].status \in { 404, 409 }
    BY <1>3 DEF Fail, Due, ServiceTypeOK, Reply
  <2> QED
    BY <2>1, <2>2, <2>3 DEF TaleOf, Settled, Resting
<1>4. CASE Enter(q)
  <2>1. /\ stage[q] = "gate" /\ stage'[q] = "admission"
        /\ UNCHANGED <<pc, call, answer, wish, reply>>
    BY <1>4 DEF Enter, Returned, ServiceTypeOK, storeVars, vars
  <2> QED
    BY <2>1 DEF TaleOf, Settled
<1>5. ASSUME UNCHANGED <<storeVars, wish>>, stage'[q] = "replied",
             pc[Method(q)] \in Resting, pc[Note(q)] \in Resting,
             Settled(Method(q)) <=> reply'[q].status = 200 /\ wish[q].call.op \notin Ungated,
             reply'[q].status = 403 => Settled(Note(q)),
             reply'[q].secured \/ reply'[q].status = 500
      PROVE  TaleOf(q)'
  BY <1>5 DEF TaleOf, Settled, storeVars, vars
<1>6. ASSUME NEW status, Respond(q, status)
      PROVE  stage'[q] = "replied" /\ reply'[q].status = status /\ reply'[q].secured
  BY <1>6 DEF Respond, ServiceTypeOK
<1>7. ASSUME Unhandled(q)
      PROVE  stage'[q] = "replied" /\ reply'[q].status = 500
  BY <1>7 DEF Unhandled, ServiceTypeOK
<1>8. CASE TurnAway(q) \/ Refuse(q)
  <2>1. /\ pc[Method(q)] = "idle" /\ pc[Note(q)] = "idle"
        /\ UNCHANGED <<storeVars, wish>>
    BY <1>8 DEF TurnAway, Refuse, Returned, TaleOf
  <2>2. Unhandled(q) \/ \E status \in { 401, 422, 429, 503 } : Respond(q, status)
    BY <1>8 DEF TurnAway, Refuse
  <2>3. /\ stage'[q] = "replied" /\ reply'[q].status \in { 401, 422, 429, 500, 503 }
        /\ reply'[q].secured \/ reply'[q].status = 500
    BY <1>6, <1>7, <2>2
  <2>4. ~Settled(Method(q))
    BY <2>1 DEF Settled
  <2> QED
    BY <1>5, <2>1, <2>3, <2>4 DEF Resting
<1>9. CASE Refused(q)
  <2>1. /\ pc[Method(q)] = "idle" /\ pc[Note(q)] = "done"
        /\ reply[q].status \in { 403, 409 }
        /\ UNCHANGED <<storeVars, wish>>
    BY <1>9 DEF Refused, Returned, TaleOf, Note
  <2>2. \/ Unhandled(q) \/ Respond(q, 503)
        \/ Settled(Note(q)) /\ Respond(q, reply[q].status)
    BY <1>9 DEF Refused, Returned, Note, Settled
  <2>3. /\ stage'[q] = "replied"
        /\ \/ reply'[q].status \in { 500, 503 }
           \/ Settled(Note(q)) /\ reply'[q].status \in { 403, 409 }
        /\ reply'[q].secured \/ reply'[q].status = 500
    BY <1>6, <1>7, <2>1, <2>2
  <2>4. ~Settled(Method(q))
    BY <2>1 DEF Settled
  <2> QED
    BY <1>5, <2>1, <2>3, <2>4 DEF Resting
<1>10. CASE Failed(q)
  <2>1. /\ pc[Method(q)] = "done" /\ pc[Note(q)] = "done" /\ ~Settled(Method(q))
        /\ reply[q].status \in { 404, 409 }
        /\ UNCHANGED <<storeVars, wish>>
    BY <1>10 DEF Failed, Returned, TaleOf, Note
  <2>2. Unhandled(q) \/ Respond(q, reply[q].status)
    BY <1>10 DEF Failed
  <2>3. /\ stage'[q] = "replied" /\ reply'[q].status \in { 404, 409, 500 }
        /\ reply'[q].secured \/ reply'[q].status = 500
    BY <1>6, <1>7, <2>1, <2>2
  <2> QED
    BY <1>5, <2>1, <2>3 DEF Resting
<1>11. CASE Served(q)
  <2>1. /\ pc[Method(q)] = "done" /\ pc[Note(q)] = "idle"
        /\ UNCHANGED <<storeVars, wish>>
    BY <1>11 DEF Served, Returned, TaleOf, Method
  <2>2. answer[Method(q)].status \in { "valid", "invalid" } <=> wish[q].call.op \in Ungated
    BY <2>1 DEF FitOf, TaleOf, Verification, Ungated
  <2>3. /\ stage'[q] = "replied"
        /\ reply'[q].secured \/ reply'[q].status = 500
        /\ \/ answer[Method(q)].status \in { "ok", "valid" } /\ reply'[q].status = 200
           \/ answer[Method(q)].status = "invalid" /\ reply'[q].status \in { 200, 503 }
           \/ answer[Method(q)].status \in { "crypto", "error" }
              /\ reply'[q].status \in { 500, 503 }
    BY <1>6, <1>7, <1>11 DEF Served, Returned, Method
  <2> QED
    BY <1>5, <2>1, <2>2, <2>3 DEF Settled, Resting
<1> QED
  BY <1>2, <1>3, <1>4, <1>8, <1>9, <1>10, <1>11 DEF Handle

\* A request's step starts one of its calls at most.
LEMMA RequestCalls ==
  ASSUME VaultInv, ServiceTypeOK, NEW q \in Request, Receive(q) \/ Handle(q)
  PROVE  /\ answer' = answer
         /\ \A t \in Task : \/ pc'[t] = pc[t] /\ call'[t] = call[t]
                            \/ pc'[t] \notin Resting
         /\ \A r \in Request \ {q} :
              /\ pc'[Method(r)] = pc[Method(r)] /\ call'[Method(r)] = call[Method(r)]
              /\ pc'[Note(r)] = pc[Note(r)]
<1> DEFINE StartsOne ==
             /\ answer' = answer
             /\ \A t \in Task : \/ pc'[t] = pc[t] /\ call'[t] = call[t]
                                \/ pc'[t] \notin Resting
             /\ \A r \in Request \ {q} :
                  /\ pc'[Method(r)] = pc[Method(r)] /\ call'[Method(r)] = call[Method(r)]
                  /\ pc'[Note(r)] = pc[Note(r)]
<1>1. ASSUME NEW part \in Part, NEW c, NEW where, Start(q, part, c, where)
      PROVE  StartsOne
  <2>1. /\ pc'[<<q, part>>] \notin Resting /\ answer' = answer
        /\ \A t \in Task : t # <<q, part>> => pc'[t] = pc[t] /\ call'[t] = call[t]
    BY <1>1, StartMoves
  <2>2. \A r \in Request \ {q} :
          /\ Method(r) \in Task /\ Note(r) \in Task
          /\ Method(r) # <<q, part>> /\ Note(r) # <<q, part>>
    BY CallsApart DEF Method, Note
  <2> QED
    BY <2>1, <2>2
<1>2. ASSUME UNCHANGED storeVars
      PROVE  StartsOne
  BY <1>2 DEF storeVars, vars
<1>3. StartsOne
  <2>1. "gate" \in Part /\ "call" \in Part /\ "record" \in Part
    BY DEF Part
  <2>2. ASSUME NEW w, TooLarge(q, w) \/ AskGate(q, w) \/ PassBy(q, w) \/ Probe(q, w)
        PROVE  StartsOne
    BY <1>1, <1>2, <2>1, <2>2 DEF TooLarge, AskGate, PassBy, Probe
  <2>3. CASE Claim(q) \/ Fail(q)
    BY <1>1, <1>2, <2>1, <2>3 DEF Claim, Fail, Report
  <2>4. CASE Enter(q) \/ TurnAway(q) \/ Refuse(q) \/ Refused(q) \/ Served(q) \/ Failed(q)
    BY <1>2, <2>4 DEF Enter, TurnAway, Refuse, Refused, Served, Failed
  <2> QED
    BY <2>2, <2>3, <2>4 DEF Receive, Handle
<1> QED
  BY <1>3

LEMMA TaleInit == ServiceInit => TaleInv
<1> SUFFICES ASSUME ServiceInit PROVE TaleInv
  OBVIOUS
<1>1. /\ pc = [t \in Task |-> "idle"]
      /\ stage = [r \in Request |-> "idle"] /\ reply = [r \in Request |-> NoReply]
  BY DEF ServiceInit, Init
<1>2. \A t \in Task : pc[t] = "idle" /\ ~Settled(t)
  BY <1>1 DEF Settled
<1>3. WritesInv
  BY <1>2 DEF WritesInv, EffectOf, DistinctWrites
<1>4. ASSUME NEW r \in Request
      PROVE  TaleOf(r)
  <2>1. pc[Method(r)] = "idle" /\ pc[Note(r)] = "idle"
    BY <1>2, CallsApart
  <2>2. stage[r] = "idle" /\ reply[r] = NoReply
    BY <1>1
  <2> QED
    BY <2>1, <2>2 DEF TaleOf
<1> QED
  BY <1>1, <1>2, <1>3, <1>4 DEF TaleInv, FitOf

LEMMA FitsStep ==
  ASSUME VaultInv, ServiceInv, \A t \in Task : FitOf(t), [ServiceNext]_allVars
  PROVE  \A t \in Task : FitOf(t)'
<1>1. ASSUME NEW t \in Task, FitOf(t),
             \/ pc'[t] = pc[t] /\ call'[t] = call[t] /\ answer'[t] = answer[t]
             \/ pc'[t] # "done"
      PROVE  FitOf(t)'
  BY <1>1 DEF FitOf
<1>2. ASSUME NEW u \in Task, Step(u), NEW t \in Task
      PROVE  FitOf(t)'
  <2>1. call' = call /\ FitOf(u)'
    BY <1>2, StepsFit
  <2>2. CASE t # u
    BY <1>1, <1>2, <2>1, <2>2, OthersStay DEF VaultInv
  <2> QED
    BY <2>1, <2>2
<1>3. ASSUME NEW q \in Request, Receive(q) \/ Handle(q), NEW t \in Task
      PROVE  FitOf(t)'
  BY <1>1, <1>3, RequestCalls DEF ServiceInv, Resting
<1>4. ASSUME Die, NEW t \in Task
      PROVE  FitOf(t)'
  <2>1. /\ call' = call
        /\ pc'[t] = IF pc[t] \in Waiting THEN "lost" ELSE pc[t]
        /\ pc[t] \notin Waiting => answer'[t] = answer[t]
    BY <1>4 DEF Die, Crash
  <2> QED
    BY <1>1, <2>1
<1>5. CASE Bootstrap \/ UNCHANGED allVars
  <2>1. UNCHANGED <<pc, call, answer>>
    BY <1>5
    DEF Bootstrap, Open, StartAnchor, StartAnchorFails, KeepAnchor, Admit, taskVars, allVars, vars
  <2> QED
    BY <1>1, <2>1
<1> QED
  BY <1>2, <1>3, <1>4, <1>5 DEF ServiceNext

LEMMA TaleNext == VaultInv /\ ServiceInv /\ TaleInv /\ [ServiceNext]_allVars => TaleInv'
<1> SUFFICES ASSUME VaultInv, ServiceInv, TaleInv, [ServiceNext]_allVars PROVE TaleInv'
  OBVIOUS
<1>1. WritesInv'
  BY StoreStep, WritesStep DEF TaleInv
<1>2. \A t \in Task : FitOf(t)'
  BY FitsStep DEF TaleInv
<1>3. ASSUME NEW r \in Request
      PROVE  TaleOf(r)'
  <2>1. TaleOf(r) /\ FitOf(Method(r)) /\ ServiceTypeOK
    BY <1>3, CallsApart DEF TaleInv, ServiceInv
  <2>2. ASSUME NEW t \in Task, Step(t), UNCHANGED serviceVars
        PROVE  TaleOf(r)'
    BY <2>1, <2>2, TaleStep
  <2>3. CASE Die
    BY <2>1, <2>3, TaleDies
  <2>4. ASSUME NEW q \in Request, Receive(q) \/ Handle(q)
        PROVE  TaleOf(r)'
    <3>1. CASE r = q
      BY <2>1, <2>4, <3>1, ReceiveTells, HandleTells
    <3>2. CASE r # q
      <4>1. stage'[r] = stage[r] /\ reply'[r] = reply[r] /\ wish'[r] = wish[r]
        BY <2>4, <3>2, RequestFrame
      <4>2. /\ answer' = answer
            /\ pc'[Method(r)] = pc[Method(r)] /\ call'[Method(r)] = call[Method(r)]
            /\ pc'[Note(r)] = pc[Note(r)]
        BY <2>1, <2>4, <3>2, RequestCalls
      <4> QED
        BY <2>1, <4>1, <4>2, TaleSame
    <3> QED
      BY <3>1, <3>2
  <2>5. CASE (Bootstrap /\ UNCHANGED serviceVars) \/ UNCHANGED allVars
    <3>1. UNCHANGED <<pc, call, answer, serviceVars>>
      BY <2>5
      DEF Bootstrap, Open, StartAnchor, StartAnchorFails, KeepAnchor, Admit, taskVars,
          allVars, vars
    <3> QED
      BY <2>1, <3>1, TaleSame DEF serviceVars
  <2> QED
    BY <2>2, <2>3, <2>4, <2>5 DEF ServiceNext
<1> QED
  BY <1>1, <1>2, <1>3 DEF TaleInv

\* What is proved of the store, what is proved of the service, and the stories.
ToldInv == VaultInv /\ ServiceInv /\ TaleInv

\* They hold together, for every interleaving of requests, failures and restarts.
THEOREM TaleInvariance == ServiceSpec => []ToldInv
<1>1. ServiceInit => ToldInv
  BY InitData, ServiceInitInv, TaleInit DEF ToldInv, ServiceInit
<1>2. ToldInv /\ [ServiceNext]_allVars => ToldInv'
  BY StoreStep, NextData, ServiceNextInv, TaleNext DEF ToldInv
<1> QED
  BY <1>1, <1>2, PTL DEF ServiceSpec

LEMMA InLogIsSettled ==
  ASSUME VaultInv, NEW t \in Task
  PROVE  InLog(t) <=> Settled(t)
BY DEF LoggedIsDone, InLog, VaultInv, DataInv, Settled

\* The log and the replies tell one story: what was answered as done is on the
\* log, what was refused is on it as refused before the client hears of it, and
\* nothing is both.
THEOREM LogAndReplies == ServiceSpec => []LogTellsReplies
<1>1. ASSUME ToldInv, NEW r \in Request
      PROVE  /\ InLog(<<r, "call">>) <=> Settled(Method(r))
             /\ InLog(<<r, "record">>) <=> Settled(Note(r))
  <2>1. Method(r) \in Task /\ Note(r) \in Task
    BY CallsApart
  <2> QED
    BY <1>1, <2>1, InLogIsSettled DEF ToldInv, Method, Note
<1>2. ASSUME ToldInv, NEW r \in Request
      PROVE  /\ ~(InLog(<<r, "call">>) /\ InLog(<<r, "record">>))
             /\ stage[r] = "replied" =>
                  /\ InLog(<<r, "call">>) <=>
                       reply[r].status = 200 /\ wish[r].call.op \notin Ungated
                  /\ reply[r].status = 403 => InLog(<<r, "record">>)
                  /\ reply[r].secured \/ reply[r].status = 500
  <2>1. TaleOf(r)
    BY <1>2 DEF ToldInv, TaleInv
  <2>2. ~(Settled(Method(r)) /\ Settled(Note(r)))
    BY <2>1 DEF TaleOf, Settled
  <2> QED
    BY <1>1, <1>2, <2>1, <2>2 DEF TaleOf
<1>3. ToldInv => LogTellsReplies
  BY <1>2, Zenon DEF LogTellsReplies
<1> QED
  BY <1>3, TaleInvariance, PTL

\* A write that is asked for again is done once: two requests for the same one
\* are not both on the log, with whatever nonces, and whichever of these have
\* been purged.
THEOREM RepetitionIsHarmless == ServiceSpec => []DoneOnce
<1>1. ASSUME ToldInv PROVE DoneOnce
  <2> SUFFICES ASSUME NEW q \in Request, NEW r \in Request, q # r,
                      Settled(Method(q)), Settled(Method(r))
               PROVE  ~Alike(q, r)
    BY <1>1, CallsApart, InLogIsSettled DEF DoneOnce, ToldInv, Method
  <2>1. ASSUME NEW x \in Request, Settled(Method(x))
        PROVE  call[Method(x)] = wish[x].call
    BY <1>1, <2>1 DEF ToldInv, TaleInv, TaleOf, Settled
  <2>2. DistinctWrites /\ Method(q) \in Task /\ Method(r) \in Task /\ Method(q) # Method(r)
    BY <1>1, CallsApart DEF ToldInv, TaleInv, WritesInv
  <2> QED
    BY <2>1, <2>2 DEF Alike, DistinctWrites, Writes
<1> QED
  BY <1>1, TaleInvariance, PTL

=============================================================================
