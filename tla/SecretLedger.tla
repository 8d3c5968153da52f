---------------------------- MODULE SecretLedger ----------------------------
(***************************************************************************)
(* What Echo Vault's store promises, with nothing of how it keeps it: no   *)
(* lock, no transaction, no ciphertext, no anchor, no process that dies.   *)
(* Each secret is the sequence of payloads it has held, the log lists what *)
(* was done and read, and a call takes effect in one step or not at all.   *)
(* A call that reads or writes a secret adds itself to the log in the same *)
(* step that answers it; a call that is refused, fails or is never         *)
(* answered leaves both untouched.                                         *)
(***************************************************************************)
EXTENDS Naturals, Sequences, FiniteSets

CONSTANTS Task, Name, Calls, None

VARIABLES
  history,  \* the payloads each secret has held, oldest first
  deleted,  \* the names of deleted secrets
  log,      \* what was done, by which call, to which secret
  call,     \* the call each task makes, once it makes it
  answer    \* its answer, once it has one

vars == <<history, deleted, log, call, answer>>

Result(status, n, value, rows) ==
  [ status |-> status, n |-> n, value |-> value, rows |-> rows ]
NoAnswer == Result("none", 0, None, {})

\* What a task that has called nothing yet holds in `call'.
CONSTANT NoCall

Init ==
  /\ history = [n \in Name |-> << >>]
  /\ deleted = {}
  /\ log = << >>
  /\ call = [t \in Task |-> NoCall]
  /\ answer = [t \in Task |-> NoAnswer]

Version(n) == Len(history[n])
Live(n)    == history[n] # << >> /\ n \notin deleted

Invoke(t) ==
  /\ call[t] = NoCall
  /\ \E c \in Calls : call' = [call EXCEPT ![t] = c]
  /\ UNCHANGED <<history, deleted, log, answer>>

Asks(t, op) == answer[t] = NoAnswer /\ call[t].op = op

Answer(t, result) == answer' = [answer EXCEPT ![t] = result] /\ UNCHANGED call

Logged(t, name) ==
  log' = Append(log, [ by |-> t, action |-> call[t].op, name |-> name ])

\* A secret is created once: the name of a deleted one stays taken.
Create(t) ==
  /\ Asks(t, "create")
  /\ history[call[t].name] = << >>
  /\ history' = [history EXCEPT ![call[t].name] = <<t>>]
  /\ Logged(t, call[t].name)
  /\ Answer(t, Result("ok", 1, None, {}))
  /\ UNCHANGED deleted

\* The caller names the version it means to replace or delete.
Agrees(t) == Live(call[t].name) /\ Version(call[t].name) = call[t].expected

Update(t) ==
  /\ Asks(t, "update")
  /\ Agrees(t)
  /\ history' = [history EXCEPT ![call[t].name] = Append(@, t)]
  /\ Logged(t, call[t].name)
  /\ Answer(t, Result("ok", call[t].expected + 1, None, {}))
  /\ UNCHANGED deleted

Delete(t) ==
  /\ Asks(t, "delete")
  /\ Agrees(t)
  /\ deleted' = deleted \cup {call[t].name}
  /\ Logged(t, call[t].name)
  /\ Answer(t, Result("ok", call[t].expected, None, {}))
  /\ UNCHANGED history

Get(t) ==
  /\ Asks(t, "get")
  /\ Live(call[t].name)
  /\ Logged(t, call[t].name)
  /\ LET n == call[t].name
     IN  Answer(t, Result("ok", Version(n), history[n][Version(n)], {}))
  /\ UNCHANGED <<history, deleted>>

ListVersions(t) ==
  /\ Asks(t, "list_versions")
  /\ Live(call[t].name)
  /\ Logged(t, call[t].name)
  /\ LET n == call[t].name
     IN  Answer(t, Result("ok", 0, None, {n} \X (1 .. Version(n))))
  /\ UNCHANGED <<history, deleted>>

ListMetadata(t) ==
  /\ Asks(t, "list_metadata")
  /\ Logged(t, None)
  /\ Answer(t, Result("ok", 0, None, { <<n, Version(n)>> : n \in { m \in Name : Live(m) } }))
  /\ UNCHANGED <<history, deleted>>

\* Sealing every version again changes nothing anyone can read.
RekeyAll(t) ==
  /\ Asks(t, "rekey_all")
  /\ Logged(t, None)
  /\ Answer(t, Result("ok", 0, None, {}))
  /\ UNCHANGED <<history, deleted>>

RecordSecurityEvent(t) ==
  /\ Asks(t, "record_security_event")
  /\ Logged(t, None)
  /\ Answer(t, Result("ok", 0, None, {}))
  /\ UNCHANGED <<history, deleted>>

LastWriter == IF log = << >> THEN None ELSE log[Len(log)].by

\* A verification that succeeds names the end of the log as it is now, and
\* counts all of it, or, for the deep one, what there was when it began.
Verify(t) ==
  /\ \/ /\ Asks(t, "verify_audit_checkpoint")
        /\ Answer(t, Result("valid", Len(log), LastWriter, {}))
     \/ /\ Asks(t, "verify_audit_chain")
        /\ \E n \in 0 .. Len(log) : Answer(t, Result("valid", n, LastWriter, {}))
  /\ UNCHANGED <<history, deleted, log>>

\* A refusal tells the truth about the secret at the time it is given.
Refuse(t) ==
  /\ answer[t] = NoAnswer
  /\ call[t] # NoCall
  /\ \/ /\ call[t].op \in { "update", "delete", "get", "list_versions" }
        /\ ~Live(call[t].name)
        /\ Answer(t, Result("not_found", 0, None, {}))
     \/ /\ \/ call[t].op = "create" /\ history[call[t].name] # << >>
           \/ /\ call[t].op \in { "update", "delete" }
              /\ Live(call[t].name)
              /\ Version(call[t].name) # call[t].expected
        /\ Answer(t, Result("conflict", 0, None, {}))
     \/ /\ call[t].op = "rekey_all"
        /\ \E status \in { "not_found", "conflict" } :
             Answer(t, Result(status, 0, None, {}))
  /\ UNCHANGED <<history, deleted, log>>

\* Anything may fail; what failed has done nothing.
Fail(t) ==
  /\ answer[t] = NoAnswer
  /\ call[t] # NoCall
  /\ \/ \E status \in { "crypto", "error" } : Answer(t, Result(status, 0, None, {}))
     \/ /\ call[t].op \in { "verify_audit_checkpoint", "verify_audit_chain" }
        /\ \E n \in 0 .. Len(log), value \in Task \cup {None} :
             Answer(t, Result("invalid", n, value, {}))
  /\ UNCHANGED <<history, deleted, log>>

Next ==
  \E t \in Task :
    \/ Invoke(t)
    \/ Create(t) \/ Update(t) \/ Delete(t)
    \/ Get(t) \/ ListVersions(t) \/ ListMetadata(t)
    \/ RekeyAll(t) \/ RecordSecurityEvent(t)
    \/ Verify(t) \/ Refuse(t) \/ Fail(t)

Spec == Init /\ [][Next]_vars

=============================================================================
