---------------------------- MODULE VaultService ----------------------------
(***************************************************************************)
(* The HTTP service of Echo Vault (src/echo_vault/app.py) around its       *)
(* store: what becomes of a request between its receipt and its reply.     *)
(*                                                                         *)
(* A request passes the checkpoint gate of the middleware, admission       *)
(* (auth.py), its route, which calls the store, and, if the store refuses  *)
(* it, the handler that records the failure before it replies.  Each of    *)
(* these may call the store, in a transaction of its own, and everything   *)
(* waits in between: for the write lock, the disk, the other requests.  A  *)
(* call is a task of VaultStore, so every failure and crash of VaultStore  *)
(* can happen at each of them, and every step of the service is a step of  *)
(* VaultStore or leaves it alone.                                          *)
(*                                                                         *)
(* Abstractions                                                            *)
(*  - There is no clock: stamps and the budget are the business of         *)
(*    Admission.  Here a refusal by budget is always possible, and any of  *)
(*    the nonces on record may have expired when claim_nonce purges them.  *)
(*  - The client's lines are left out, so a repetition is another request  *)
(*    that asks for the same, with the same nonce or a new one.            *)
(*  - The pages of the console, /healthz and 404s of no route are left out:*)
(*    they touch nothing.                                                  *)
(***************************************************************************)
EXTENDS VaultStore

CONSTANTS
  Request,   \* the requests received
  Nonce,     \* the nonces clients draw
  Wishes     \* what a request may be like

Part == { "gate", "call", "record" }

\* What a request asks the store for, its nonce, and what the service finds
\* out on the way: its size, whether it can be read at all, its signature, its
\* client's grant, its fields.
Wish == [ call : Calls, nonce : Nonce, small : BOOLEAN, readable : BOOLEAN,
          signed : BOOLEAN, allowed : BOOLEAN, valid : BOOLEAN ]

\* Each request has three tasks of the store, one for each call it may make.
ASSUME ServiceAssumption ==
  /\ Task = Request \X Part
  /\ Wishes \subseteq { w \in Wish : w.call.op # "record_security_event" }
  /\ \A op \in { "verify_audit_checkpoint", "record_security_event" } :
       [ op |-> op, name |-> None, expected |-> 0, key |-> None ] \in Calls

VARIABLES
  stage,   \* where each request is
  wish,    \* what each request is like
  reply,   \* the status it got, or will get once its failure is recorded
  nonces,  \* the table request_nonces, with (history) who claimed
  late     \* (history) the requests received when anchor and log had diverged

serviceVars == <<stage, wish, reply, nonces, late>>

storeVars == vars

allVars == <<vars, serviceVars>>

-----------------------------------------------------------------------------

Under == { "gate", "admission", "refusing", "serving", "failing" }

RequestStage == { "idle", "replied", "lost" } \cup Under

Codes == { 0, 200, 400, 401, 403, 404, 409, 413, 422, 429, 500, 503 }
Reply == [ status : Codes, secured : BOOLEAN ]

NoReply == [ status |-> 0, secured |-> TRUE ]

NoWish == [ call |-> NoCall, nonce |-> None ]

ServiceTypeOK ==
  /\ TypeOK
  /\ stage \in [Request -> RequestStage]
  /\ wish \in [Request -> Wishes \cup {NoWish}]
  /\ reply \in [Request -> Reply]
  /\ nonces \subseteq [ nonce : Nonce, by : Request ]
  /\ late \subseteq Request

ServiceInit ==
  /\ Init
  /\ stage = [r \in Request |-> "idle"]
  /\ wish = [r \in Request |-> NoWish]
  /\ reply = [r \in Request |-> NoReply]
  /\ nonces = {}
  /\ late = {}

-----------------------------------------------------------------------------
(* Calls of the store, and replies *)

Nameless(op) == [ op |-> op, name |-> None, expected |-> 0, key |-> None ]

\* The request starts one of its calls and waits for it at `where'.
Start(r, part, c, where) ==
  /\ Arrive(<<r, part>>)
  /\ call'[<<r, part>>] = c
  /\ stage' = [stage EXCEPT ![r] = where]

Report(r, where) == Start(r, "record", Nameless("record_security_event"), where)

\* secure_response: what the middleware answers, or what call_next returned.
Respond(r, status) ==
  /\ stage' = [stage EXCEPT ![r] = "replied"]
  /\ reply' = [reply EXCEPT ![r] = [ status |-> status, secured |-> TRUE ]]

\* An exception no handler takes leaves the middleware as well; the framework
\* answers for it.
Unhandled(r) ==
  /\ stage' = [stage EXCEPT ![r] = "replied"]
  /\ reply' = [reply EXCEPT ![r] = [ status |-> 500, secured |-> FALSE ]]

\* (slip) What the client did wrong is reported as a failure of the server.
DueAsFailure(r, status) == reply' = [reply EXCEPT ![r].status = status + 100]

\* The reply is settled and waits for its record.
Due(r, status) == reply' = [reply EXCEPT ![r].status = status]

Returned(r, part, where, statuses) ==
  /\ stage[r] = where
  /\ pc[<<r, part>>] = "done"
  /\ answer[<<r, part>>].status \in statuses

\* Paths that are not under /v1, and the one that is but asks no checkpoint.
Ungated == { "verify_audit_checkpoint", "verify_audit_chain" }

-----------------------------------------------------------------------------
(* The life of a request *)

\* (slip) The verdict of the gate is not looked at.
EnterUnchecked(r) ==
  /\ Returned(r, "gate", "gate", { "valid", "invalid" })
  /\ stage' = [stage EXCEPT ![r] = "admission"]
  /\ UNCHANGED <<storeVars, wish, reply, nonces, late>>

\* The middleware: the size, then the gate.  A declared length that is no number
\* is refused as well.
TooLarge(r, w) ==
  /\ w.call.op # "verify_audit_checkpoint" /\ ~w.small
  /\ Respond(r, 400) \/ Respond(r, 413)
  /\ UNCHANGED storeVars

AskGate(r, w) ==
  /\ w.call.op \notin Ungated /\ w.small
  /\ Start(r, "gate", Nameless("verify_audit_checkpoint"), "gate")
  /\ UNCHANGED reply

\* A deep verification is let through to find out what is wrong.
PassBy(r, w) ==
  /\ w.call.op = "verify_audit_chain" /\ w.small
  /\ stage' = [stage EXCEPT ![r] = "admission"]
  /\ UNCHANGED <<storeVars, reply>>

\* /readyz: a checkpoint, with neither size, gate nor admission.
Probe(r, w) ==
  /\ w.call.op = "verify_audit_checkpoint"
  /\ Start(r, "call", w.call, "serving")
  /\ UNCHANGED reply

Receive(r) ==
  /\ phase = "serving"
  /\ stage[r] = "idle"
  /\ \E w \in Wishes :
       /\ wish' = [wish EXCEPT ![r] = w]
       /\ TooLarge(r, w) \/ AskGate(r, w) \/ PassBy(r, w) \/ Probe(r, w)
  /\ late' = IF Diverged THEN late \cup {r} ELSE late
  /\ UNCHANGED nonces

Enter(r) ==
  /\ Returned(r, "gate", "gate", { "valid" })
  /\ stage' = [stage EXCEPT ![r] = "admission"]
  /\ UNCHANGED <<storeVars, wish, reply, nonces, late>>

TurnAway(r) ==
  /\ Returned(r, "gate", "gate", { "invalid" })
  /\ Respond(r, 503)
  /\ UNCHANGED <<storeVars, wish, nonces, late>>

\* A body or namespace that cannot be read, no signature, no budget left; a
\* table that cannot be written to, or that is locked for too long.
Refuse(r) ==
  /\ stage[r] = "admission"
  /\ \/ ~wish[r].readable /\ Respond(r, 422)
     \/ wish[r].readable /\ ~wish[r].signed /\ Respond(r, 401)
     \/ wish[r].readable /\ wish[r].signed /\ Respond(r, 429)
     \/ wish[r].readable /\ wish[r].signed /\ Unhandled(r)
  /\ UNCHANGED <<storeVars, wish, nonces, late>>

Claimed(n, table) == \E row \in table : row.nonce = n

\* claim_nonce: the purge leaves the nonces `kept', and the insertion finds this
\* one among them or adds it.  A replay rolls the purge back.
ClaimNonce(r, kept) ==
  /\ ~Claimed(wish[r].nonce, kept)
  /\ nonces' = kept \cup { [ nonce |-> wish[r].nonce, by |-> r ] }

\* A transaction of its own.  Then the grant, and the fields of the request,
\* which are looked at when its client is known.
Claim(r) ==
  /\ stage[r] = "admission"
  /\ wish[r].readable /\ wish[r].signed
  /\ writer = None
  /\ \E kept \in SUBSET nonces :
       \/ /\ Claimed(wish[r].nonce, kept)
          /\ Report(r, "refusing")
          /\ Due(r, 409)
          /\ UNCHANGED nonces
       \/ /\ ClaimNonce(r, kept)
          /\ \/ ~wish[r].allowed /\ Report(r, "refusing") /\ Due(r, 403)
             \/ /\ wish[r].allowed /\ ~wish[r].valid
                /\ Respond(r, 422) /\ UNCHANGED storeVars
             \/ /\ wish[r].allowed /\ wish[r].valid
                /\ Start(r, "call", wish[r].call, "serving") /\ UNCHANGED reply
  /\ UNCHANGED <<wish, late>>

\* (slip) The refusal is given whether or not it could be recorded.
RefusedAnyway(r) ==
  /\ Returned(r, "record", "refusing", { "ok", "crypto", "error" })
  /\ Respond(r, reply[r].status)
  /\ UNCHANGED <<storeVars, wish, nonces, late>>

\* A refusal is given once it is on the log.
Refused(r) ==
  /\ \/ Returned(r, "record", "refusing", { "ok" }) /\ Respond(r, reply[r].status)
     \/ Returned(r, "record", "refusing", { "crypto" }) /\ Respond(r, 503)
     \/ Returned(r, "record", "refusing", { "error" }) /\ Unhandled(r)
  /\ UNCHANGED <<storeVars, wish, nonces, late>>

\* What the route returns (200 stands for 201, too), or the exception it raises
\* but for the two below.  The verdict of a deep verification is in the body.
Served(r) ==
  /\ \/ Returned(r, "call", "serving", { "ok", "valid" }) /\ Respond(r, 200)
     \/ /\ Returned(r, "call", "serving", { "invalid" })
        /\ Respond(r, IF wish[r].call.op = "verify_audit_chain" THEN 200 ELSE 503)
     \/ Returned(r, "call", "serving", { "crypto" }) /\ Respond(r, 503)
     \/ Returned(r, "call", "serving", { "error" }) /\ Unhandled(r)
  /\ UNCHANGED <<storeVars, wish, nonces, late>>

\* conflict_handler and not_found_handler record the failure first.
Fail(r) ==
  /\ \/ Returned(r, "call", "serving", { "not_found" }) /\ Due(r, 404)
     \/ Returned(r, "call", "serving", { "conflict" }) /\ Due(r, 409)
  /\ Report(r, "failing")
  /\ UNCHANGED <<wish, nonces, late>>

\* (slip) Tried again until it is written.
FailedPersisting(r) ==
  \/ /\ Returned(r, "record", "failing", { "ok" })
     /\ Respond(r, reply[r].status)
     /\ UNCHANGED <<storeVars, wish, nonces, late>>
  \/ /\ Returned(r, "record", "failing", { "crypto", "error" })
     /\ pc' = [pc EXCEPT ![<<r, "record">>] = "begin"]
     /\ UNCHANGED <<db, anchor, processVars, writer, work, call, seen, answer>>
     /\ UNCHANGED serviceVars

\* Whatever record_security_event raises is passed over, but sqlite3's errors.
Failed(r) ==
  /\ \/ /\ Returned(r, "record", "failing", { "ok", "crypto", "error" })
        /\ Respond(r, reply[r].status)
     \/ Returned(r, "record", "failing", { "error" }) /\ Unhandled(r)
  /\ UNCHANGED <<storeVars, wish, nonces, late>>

\* The requests under way are lost with the process.
Die ==
  /\ Crash
  /\ stage' = [r \in Request |-> IF stage[r] \in Under THEN "lost" ELSE stage[r]]
  /\ UNCHANGED <<wish, reply, nonces, late>>

-----------------------------------------------------------------------------

Handle(r) ==
  \/ Enter(r) \/ TurnAway(r) \/ Refuse(r) \/ Claim(r) \/ Refused(r)
  \/ Served(r) \/ Fail(r) \/ Failed(r)

ServiceNext ==
  \/ Bootstrap /\ UNCHANGED serviceVars
  \/ Die
  \/ \E t \in Task : Step(t) /\ UNCHANGED serviceVars
  \/ \E r \in Request : Receive(r) \/ Handle(r)

ServiceSpec == ServiceInit /\ [][ServiceNext]_allVars

\* What VaultStore counts on, and the same for the rest of a request.
FairServiceSpec ==
  ServiceSpec /\ Fairness /\ \A r \in Request : WF_allVars(Handle(r))

-----------------------------------------------------------------------------
(* Properties *)

InLog(t) == \E i \in DOMAIN db.events : db.events[i].entry_hash = t

\* The log and the replies tell one story.  A call that was answered as done is
\* in the log, one that was answered otherwise is not, whatever was rolled
\* back, refused, or failed to be recorded in between; a refusal by admission
\* is in the log before the client hears of it; and never does the log say of
\* one request both that it was done and that it failed.  A reply without the
\* headers of secure_response is the framework's plain 500.
LogTellsReplies ==
  \A r \in Request :
    LET done == InLog(<<r, "call">>)
        told == InLog(<<r, "record">>)
    IN  /\ ~(done /\ told)
        /\ stage[r] = "replied" =>
             /\ done <=> reply[r].status = 200 /\ wish[r].call.op \notin Ungated
             /\ reply[r].status = 403 => told
             /\ reply[r].secured \/ reply[r].status = 500

\* Once the anchor and the log have come apart, a request that arrives gets
\* nothing out of the vault: no claim of its nonce, no refusal that would tell
\* what it lacks, only the closed gate.  (The checkpoint in the middleware.)
LateTurnedAway ==
  \A r \in late :
    wish[r].call.op \notin Ungated =>
      /\ \A row \in nonces : row.by # r
      /\ stage[r] = "replied" => reply[r].status \in { 400, 413, 503 }

Alike(q, r) ==
  /\ wish[q].call = wish[r].call
  /\ wish[q].call.op \in { "create", "update", "delete" }

\* A client that repeats a write, because the answer was lost or came late, does
\* no harm: of the requests that ask for the same write at most one is ever
\* done, with whatever nonces, and also when theirs has expired in between, so
\* that admission lets the same request pass again.
DoneOnce ==
  \A q, r \in Request :
    q # r /\ InLog(<<q, "call">>) /\ InLog(<<r, "call">>) => ~Alike(q, r)

\* A request that was received is answered, or dies with the process.
EveryRequestEnds ==
  \A r \in Request : stage[r] \in Under ~> stage[r] \notin Under

=============================================================================
