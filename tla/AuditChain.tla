----------------------------- MODULE AuditChain -----------------------------
(***************************************************************************)
(* The hash chain of Echo Vault's audit log (_audit_hash, _append_audit    *)
(* and verify_audit_chain of src/echo_vault/store.py), in a database that  *)
(* others can write too: docs/THREAT_MODEL.md counts on the log against "a *)
(* database writer who does not hold encryption or audit keys", and the    *)
(* test of tampering changes rows of audit_events through a connection of  *)
(* its own.  VaultStore takes the hash of a row for its identity; here it  *)
(* is made of what the row says, so that a row can be changed.             *)
(*                                                                         *)
(* Abstractions                                                            *)
(*  - The keyed hash is collision-free and nobody else can compute one: a  *)
(*    hash IS the tuple of what was hashed, and a writer without the key   *)
(*    has only the hashes that the vault has left in the files.            *)
(*  - A row's value is what its hashed columns say after details_json has  *)
(*    been parsed; its form is how details_json is spelled.                *)
(*  - The anchor is intact and takes whole records (VaultStore has it      *)
(*    fail): `journal' is the hash each of its records vouches for, with   *)
(*    the value that was hashed, by event id.  Its genesis record is left  *)
(*    out.                                                                 *)
(*  - One verification runs at a time: they share nothing.                 *)
(*  - A definition marked (slip) is used nowhere: it is the definition     *)
(*    after it as a plausible mistake would have it.                       *)
(***************************************************************************)
EXTENDS Naturals, Sequences

CONSTANTS
  Value,      \* what an event may say
  MaxEvents,  \* bound: the events the vault appends
  MaxEdits    \* bound: the changes others make

ASSUME BoundsAssumption == MaxEvents \in Nat /\ MaxEdits \in Nat

VARIABLES
  rows,      \* audit_events, ORDER BY id
  sequence,  \* its AUTOINCREMENT
  pending,   \* the row the writing transaction has inserted, or NoRow
  journal,   \* what the anchor vouches for
  check,     \* the current or latest verification, with the number of events
             \* that were due in the table and of edits when it read the rows
  edits      \* the changes others have made

vars == <<rows, sequence, pending, journal, check, edits>>

-----------------------------------------------------------------------------
(* Hashes and rows *)

Zero == << >>                    \* "0" * 64
Hash(id, value, previous) == <<id, value, previous>>
Junk == <<0>>                    \* a text that is no hash of anything

\* How details_json is spelled: as json.dumps has it, otherwise but equal when
\* parsed (a space, another order of keys), or so that it does not parse.
Form == { "canonical", "respelled", "unparsable" }

Row(id, value, form, previous, entry) ==
  [ id |-> id, value |-> value, form |-> form,
    previous |-> previous, entry |-> entry ]

NoRow == [ id |-> 0 ]

\* (slip) The rows counted instead.
Counted(log) == Len(log)

TailId(log)   == IF log = << >> THEN 0 ELSE log[Len(log)].id
TailHash(log) == IF log = << >> THEN Zero ELSE log[Len(log)].entry

\* The hash the anchor holds for event i, and so the one event i + 1 links to.
Anchored(i) == IF i = 0 THEN Zero ELSE journal[i].entry

\* Everything a writer without the key can put in a hash column.
Copied == { Anchored(i) : i \in 0 .. Len(journal) } \cup {Junk}

-----------------------------------------------------------------------------
(* A verification: what it read and where it is *)

Idle == [ at |-> "idle", rows |-> << >>, next |-> 1,
          line |-> NoRow, status |-> "none", bad |-> 0,
          due |-> 0, since |-> 0 ]

Init ==
  /\ rows = << >>
  /\ sequence = 0
  /\ pending = NoRow
  /\ journal = << >>
  /\ check = Idle
  /\ edits = 0

-----------------------------------------------------------------------------
(* The vault appends *)

\* _append_audit: the new row continues the last one, the insertion (which goes
\* on from its AUTOINCREMENT or from the last row, whichever is more) gives it
\* the number meant and finds the hash free, the anchor's last record is that of
\* the last row.  Otherwise it raises and the transaction is rolled back.
AppendAudit(value) ==
  LET id    == TailId(rows) + 1
      entry == Hash(id, value, TailHash(rows))
  IN  /\ pending = NoRow
      /\ Len(journal) < MaxEvents
      /\ sequence < id
      /\ \A i \in DOMAIN rows : rows[i].entry # entry
      /\ TailId(rows) = Len(journal)
      /\ TailHash(rows) = Anchored(Len(journal))
      /\ pending' = Row(id, value, "canonical", TailHash(rows), entry)
      /\ journal' = Append(journal, [ value |-> value, entry |-> entry ])
      /\ UNCHANGED <<rows, sequence, check, edits>>

Commit ==
  /\ pending # NoRow
  /\ rows' = Append(rows, pending)
  /\ sequence' = pending.id
  /\ pending' = NoRow
  /\ UNCHANGED <<journal, check, edits>>

\* The commit failed, or the process died: the anchor keeps the record.
Rollback ==
  /\ pending # NoRow
  /\ pending' = NoRow
  /\ UNCHANGED <<rows, sequence, journal, check, edits>>

-----------------------------------------------------------------------------
(* Others write, between the vault's transactions *)

Edits ==
  /\ pending = NoRow
  /\ edits < MaxEdits
  /\ edits' = edits + 1
  /\ UNCHANGED <<pending, journal, check>>

Unused(entry) == \A i \in DOMAIN rows : rows[i].entry # entry

\* The numbers others give: one in a gap, or after the last row with a gap.
Ids == 1 .. TailId(rows) + 2

\* ORDER BY id puts a row with this number after the k-th.
Fits(log, k, id) ==
  /\ k > 0 => log[k].id < id
  /\ k < Len(log) => id < log[k + 1].id

Without(log, i) ==
  [ k \in 1 .. Len(log) - 1 |-> log[IF k < i THEN k ELSE k + 1] ]

With(log, k, row) ==
  [ i \in 1 .. Len(log) + 1 |->
      IF i <= k THEN log[i] ELSE IF i = k + 1 THEN row ELSE log[i - 1] ]

\* UPDATE of one column of one row, the number (RenumberRow) apart.
Altered(row) ==
       { [row EXCEPT !.value = v] : v \in Value }
  \cup { [row EXCEPT !.form = f] : f \in Form }
  \cup { [row EXCEPT !.previous = h] : h \in Copied }
  \cup { [row EXCEPT !.entry = h] : h \in { c \in Copied : Unused(c) } }

AlterRow ==
  /\ Edits
  /\ \E i \in DOMAIN rows : \E row \in Altered(rows[i]) :
       rows' = [rows EXCEPT ![i] = row]
  /\ UNCHANGED sequence

\* An UPDATE leaves the AUTOINCREMENT alone.
RenumberRow ==
  /\ Edits
  /\ \E i \in DOMAIN rows, id \in Ids :
       LET rest == Without(rows, i)
       IN  \E k \in 0 .. Len(rest) :
             /\ Fits(rest, k, id)
             /\ rows' = With(rest, k, [rows[i] EXCEPT !.id = id])
  /\ UNCHANGED sequence

\* The contents of two rows change places.
SwapRows ==
  /\ Edits
  /\ \E i, j \in DOMAIN rows :
       /\ i < j
       /\ rows' = [rows EXCEPT ![i] = [rows[j] EXCEPT !.id = rows[i].id],
                               ![j] = [rows[i] EXCEPT !.id = rows[j].id]]
  /\ UNCHANGED sequence

DeleteRow ==
  /\ Edits
  /\ \E i \in DOMAIN rows : rows' = Without(rows, i)
  /\ UNCHANGED sequence

\* A row wherever there is a number for it.
InsertRow ==
  /\ Edits
  /\ \E k \in 0 .. Len(rows), id \in Ids, value \in Value, previous \in Copied,
        entry \in { c \in Copied : Unused(c) } :
       /\ Fits(rows, k, id)
       /\ rows' = With(rows, k, Row(id, value, "canonical", previous, entry))
       /\ sequence' = IF id > sequence THEN id ELSE sequence

-----------------------------------------------------------------------------
(* Deep verification *)

unread == <<rows, sequence, pending, journal, edits>>

\* The events the anchor holds, but for the one being written.
Due == IF pending = NoRow THEN Len(journal) ELSE Len(journal) - 1

\* SELECT * FROM audit_events ORDER BY id.
ReadRows ==
  /\ check.at \in { "idle", "done" }
  /\ check' = [Idle EXCEPT !.at = "rows", !.rows = rows,
                           !.due = Due, !.since = edits]
  /\ UNCHANGED unread

Ends(status, bad) ==
  check' = [check EXCEPT !.at = "done", !.status = status, !.bad = bad]

\* The previous_hash of the loop: the entry_hash of the row before.
PreviousHash ==
  IF check.next = 1 THEN Zero ELSE check.rows[check.next - 1].entry

\* (slip) The stored previous_hash is not compared, only hashed over.
FollowsById(row) == row.id = check.next

Follows(row) == row.id = check.next /\ row.previous = PreviousHash

Recomputes(row) == row.entry = Hash(row.id, row.value, PreviousHash)

\* (slip) The loop stops at the row, but blames the number it expected.
BlameExpected ==
  /\ check.at = "rows"
  /\ check.next <= Len(check.rows)
  /\ LET row == check.rows[check.next]
     IN  \/ /\ ~(Follows(row) /\ (row.form = "unparsable" \/ Recomputes(row)))
            /\ Ends("invalid", check.next)
         \/ /\ Follows(row)
            /\ row.form = "unparsable"
            /\ Ends("raised", 0)
         \/ /\ Follows(row)
            /\ row.form # "unparsable"
            /\ Recomputes(row)
            /\ check' = [check EXCEPT !.next = @ + 1]
  /\ UNCHANGED unread

\* One turn of the loop.  A details_json that does not parse raises out of it.
CheckRow ==
  /\ check.at = "rows"
  /\ check.next <= Len(check.rows)
  /\ LET row == check.rows[check.next]
     IN  \/ /\ ~Follows(row)
            /\ Ends("invalid", row.id)
         \/ /\ Follows(row)
            /\ row.form = "unparsable"
            /\ Ends("raised", 0)
         \/ /\ Follows(row)
            /\ row.form # "unparsable"
            /\ ~Recomputes(row)
            /\ Ends("invalid", row.id)
         \/ /\ Follows(row)
            /\ row.form # "unparsable"
            /\ Recomputes(row)
            /\ check' = [check EXCEPT !.next = @ + 1]
  /\ UNCHANGED unread

\* The checkpoint reads the anchor, and then the tail as it is by then.
ReadAnchor ==
  /\ check.at = "rows"
  /\ check.next > Len(check.rows)
  /\ check' = [check EXCEPT !.at = "tail",
                 !.line = [ id |-> Len(journal), entry |-> Anchored(Len(journal)) ]]
  /\ UNCHANGED unread

\* (slip) The rows were just recomputed: why compare the tail again?
ReadNoTail ==
  /\ check.at = "tail"
  /\ Ends("valid", 0)
  /\ UNCHANGED unread

ReadTail ==
  /\ check.at = "tail"
  /\ IF check.line = [ id |-> TailId(rows), entry |-> TailHash(rows) ]
     THEN Ends("valid", 0)
     ELSE Ends("invalid", Len(check.rows))
  /\ UNCHANGED unread

-----------------------------------------------------------------------------

Vault  == (\E v \in Value : AppendAudit(v)) \/ Commit \/ Rollback
Others == AlterRow \/ RenumberRow \/ SwapRows \/ DeleteRow \/ InsertRow
Verify == ReadRows \/ CheckRow \/ ReadAnchor \/ ReadTail

Next == Vault \/ Others \/ Verify

Spec == Init /\ [][Next]_vars

-----------------------------------------------------------------------------

\* No hash in a row is one that the vault did not leave somewhere.
Written == [ id : Nat \ {0}, value : Value, form : Form,
             previous : Copied, entry : Copied ]

Verification == [ at : { "idle", "rows", "tail", "done" },
                  rows : Seq(Written), next : Nat \ {0},
                  line : [ id : Nat, entry : Copied ] \cup {NoRow},
                  status : { "none", "valid", "invalid", "raised" },
                  bad : Nat, due : Nat, since : Nat ]

\* The table is a table: its numbers ascend.
TypeOK ==
  /\ rows \in Seq(Written)
  /\ \A i, j \in DOMAIN rows : i < j => rows[i].id < rows[j].id
  /\ sequence \in Nat
  /\ pending \in Written \cup {NoRow}
  /\ journal \in Seq([ value : Value, entry : Copied ])
  /\ Len(journal) <= MaxEvents
  /\ edits \in 0 .. MaxEdits
  /\ check \in Verification

\* The row is event i as the vault appended it, but for the spelling.
Original(row, i) ==
  /\ row.id = i
  /\ i <= Len(journal)
  /\ row.value = journal[i].value
  /\ row.previous = Anchored(i - 1)
  /\ row.entry = journal[i].entry

\* A log that a deep verification calls valid says what the vault wrote: the
\* rows it read are the first events the vault appended, each in its place and
\* unchanged, whatever was altered, swapped, removed or added before or since,
\* and whichever appends and rollbacks ran meanwhile.
\* (verify_audit_chain, over the hashes of _audit_hash.)
ValidMeansOriginal ==
  check.status = "valid" =>
    \A i \in DOMAIN check.rows : Original(check.rows[i], i)

\* When it stops at a row, first_bad_event_id is exact: that row is not the
\* one the vault wrote in its place, and every row before it is.
BlameExact ==
  check.status = "invalid" /\ check.line = NoRow =>
    \E k \in DOMAIN check.rows :
      /\ check.rows[k].id = check.bad
      /\ ~Original(check.rows[k], k)
      /\ \A i \in 1 .. k - 1 : Original(check.rows[i], i)

\* And it has no end cut off: unless somebody changes the table while the
\* verification runs, a log it calls valid held every event that the anchor
\* vouched for when the rows were read, however many were appended, committed
\* or rolled back before the tail was read.
\* (verify_audit_checkpoint after the loop.)
NothingCutOff ==
  [][ check'.status = "valid" /\ check.status # "valid" /\ check.since = edits
        => Len(check.rows) >= check.due ]_vars

\* "Protected operations remain fail-closed" (web/app.js, when the verification
\* has stopped at an event): nothing is committed while the log is in the state
\* in which it was found bad.
FailClosedWhenBad ==
  [][ check.status = "invalid" /\ check.line = NoRow /\ rows = check.rows
        => pending' = pending ]_vars

=============================================================================
