-------------------------- MODULE AuditChain_proofs --------------------------
(***************************************************************************)
(* Proofs about AuditChain, for every set of values and every bound on the *)
(* events and the changes: what a deep verification calls valid is what    *)
(* the vault wrote, the row it blames is the first that is not, and a log  *)
(* that lacks its end does not pass.                                       *)
(***************************************************************************)
EXTENDS AuditChain, TLAPS

-----------------------------------------------------------------------------
(* The keyed hash *)

\* A hash determines what was hashed, and is neither the first row's previous
\* hash nor a text that is no hash.
LEMMA HashFacts ==
  /\ \A i, v, p, j, w, q :
       Hash(i, v, p) = Hash(j, w, q) => i = j /\ v = w /\ p = q
  /\ \A i, v, p : Hash(i, v, p) # Zero /\ Hash(i, v, p) # Junk
<1>1. \A i, v, p, j, w, q :
        Hash(i, v, p) = Hash(j, w, q) => i = j /\ v = w /\ p = q
  BY DEF Hash
<1>2. \A i, v, p : Len(Hash(i, v, p)) = 3 /\ Len(Zero) = 0 /\ Len(Junk) = 1
  BY DEF Hash, Zero, Junk
<1>3. \A i, v, p : Hash(i, v, p) # Zero /\ Hash(i, v, p) # Junk
  BY <1>2
<1> QED
  BY <1>1, <1>3

-----------------------------------------------------------------------------
(* The inductive invariant *)

\* Each record of the anchor is the hash of its event and of the record before.
Linked ==
  \A i \in DOMAIN journal :
    journal[i].entry = Hash(i, journal[i].value, Anchored(i - 1))

\* The row being written is next in number and is the anchor's last.
Numbered ==
  pending # NoRow => /\ pending.id = TailId(rows) + 1
                     /\ TailId(rows) + 1 = Len(journal)

\* The rows the loop has passed are original; where it stopped at a row, the
\* row did not follow or did not recompute, which nothing can change any more.
Passed ==
  /\ check.next <= Len(check.rows) + 1
  /\ \A i \in 1 .. check.next - 1 : Original(check.rows[i], i)
  /\ check.at = "tail" \/ check.status = "valid"
       => check.next = Len(check.rows) + 1
  /\ check.at # "done" => check.status = "none"
  /\ check.at = "rows" => check.line = NoRow
  /\ check.at = "tail" => check.line # NoRow
  /\ check.status = "invalid" /\ check.line = NoRow =>
       /\ check.next <= Len(check.rows)
       /\ check.bad = check.rows[check.next].id
       /\ ~( /\ Follows(check.rows[check.next])
             /\ Recomputes(check.rows[check.next]) )

\* A table that is short of what the anchor held when it was read stays as it
\* is until somebody changes it: the vault does not append to it.
Frozen ==
  /\ check.since <= edits
  /\ check.due <= Len(journal)
  /\ check.at = "tail" => check.line.id >= check.due
  /\ check.at \in { "rows", "tail" } /\ check.since = edits =>
       \/ TailId(check.rows) >= check.due
       \/ rows = check.rows /\ pending = NoRow

IInv == TypeOK /\ Linked /\ Numbered /\ Passed /\ Frozen

-----------------------------------------------------------------------------
(* What an append to the anchor leaves alone *)

LEMMA TailFacts ==
  ASSUME NEW log \in Seq(Written)
  PROVE  /\ TailId(log) \in Nat
         /\ TailHash(log) \in Copied
         /\ \A i \in DOMAIN log : log[i] \in Written
         /\ log # << >> => Len(log) \in DOMAIN log /\ TailId(log) = log[Len(log)].id
<1>1. CASE log = << >>
  <2>1. Anchored(0) \in Copied
    BY DEF Copied
  <2> QED
    BY <1>1, <2>1 DEF TailId, TailHash, Anchored
<1>2. CASE log # << >>
  <2>1. /\ \A i \in DOMAIN log : log[i] \in Written
        /\ Len(log) \in DOMAIN log
    BY <1>2
  <2>2. log[Len(log)].id \in Nat /\ log[Len(log)].entry \in Copied
    BY <2>1 DEF Written
  <2>3. TailId(log) = log[Len(log)].id /\ TailHash(log) = log[Len(log)].entry
    BY <1>2 DEF TailId, TailHash
  <2> QED
    BY <2>1, <2>2, <2>3
<1> QED
  BY <1>1, <1>2

\* The numbers ascend, so that none exceeds the last.
LEMMA TailIsLast ==
  ASSUME TypeOK
  PROVE  \A i \in DOMAIN rows : rows[i].id \in Nat /\ rows[i].id <= TailId(rows)
<1> SUFFICES ASSUME NEW i \in DOMAIN rows
             PROVE  rows[i].id \in Nat /\ rows[i].id <= TailId(rows)
  OBVIOUS
<1>1. /\ rows \in Seq(Written)
      /\ \A j, k \in DOMAIN rows : j < k => rows[j].id < rows[k].id
  BY DEF TypeOK
<1>2. /\ rows # << >>
      /\ i \in 1 .. Len(rows)
      /\ Len(rows) \in DOMAIN rows
      /\ rows[i] \in Written
      /\ rows[Len(rows)] \in Written
  BY <1>1
<1>3. /\ rows[i].id \in Nat
      /\ rows[Len(rows)].id \in Nat
      /\ TailId(rows) = rows[Len(rows)].id
  BY <1>2 DEF Written, TailId
<1>4. CASE i = Len(rows)
  BY <1>3, <1>4
<1>5. CASE i < Len(rows)
  BY <1>1, <1>2, <1>3, <1>5
<1> QED
  BY <1>2, <1>4, <1>5

\* A record that is added takes nothing from what was there before.
LEMMA Grows ==
  ASSUME TypeOK,
         NEW r,
         journal' = journal \/ journal' = Append(journal, r)
  PROVE  /\ Len(journal') >= Len(journal)
         /\ Len(journal) \in Nat /\ Len(journal') \in Nat
         /\ \A i \in 1 .. Len(journal) : journal'[i] = journal[i]
         /\ \A i \in 0 .. Len(journal) : Anchored(i)' = Anchored(i)
         /\ Copied \subseteq Copied'
         /\ Written \subseteq Written'
         /\ \A s : s \in Seq(Written) => s \in Seq(Written')
         /\ \A row, i : i \in Nat \ {0} /\ Original(row, i) => Original(row, i)'
<1>1. /\ journal \in Seq([ value : Value, entry : Copied ])
  BY DEF TypeOK
<1>2. /\ Len(journal') >= Len(journal)
      /\ Len(journal) \in Nat /\ Len(journal') \in Nat
      /\ \A i \in 1 .. Len(journal) : journal'[i] = journal[i]
  BY <1>1
<1>3. \A i \in 0 .. Len(journal) : Anchored(i)' = Anchored(i)
  BY <1>2 DEF Anchored
<1>4. Copied \subseteq Copied'
  BY <1>2, <1>3 DEF Copied
<1>5. Written \subseteq Written'
  BY <1>4 DEF Written
<1>6. \A s : s \in Seq(Written) => s \in Seq(Written')
  BY <1>5
<1>7. ASSUME NEW row, NEW i \in Nat \ {0}, Original(row, i)
      PROVE  Original(row, i)'
  BY <1>2, <1>3, <1>7 DEF Original
<1> QED
  BY <1>2, <1>3, <1>4, <1>5, <1>6, <1>7

-----------------------------------------------------------------------------
(* Types *)

LEMMA SeqMonotone ==
  ASSUME NEW S, NEW T, S \subseteq T, NEW s \in Seq(S)
  PROVE  s \in Seq(T)
OBVIOUS

LEMMA AltersToWritten ==
  ASSUME NEW row \in Written, NEW new \in Altered(row)
  PROVE  new \in Written /\ new.id = row.id
BY DEF Altered, Written

LEMMA TypeInit == Init => TypeOK
<1> SUFFICES ASSUME Init PROVE TypeOK
  OBVIOUS
<1>1. rows \in Seq(Written) /\ journal \in Seq([ value : Value, entry : Copied ])
  BY DEF Init
<1>2. check \in Verification
  <2>1. << >> \in Seq(Written)
    OBVIOUS
  <2> QED
    BY <2>1 DEF Init, Idle, Verification
<1> QED
  BY <1>1, <1>2, BoundsAssumption DEF Init, TypeOK

\* A step of the vault keeps the types.
LEMMA TypeVault ==
  ASSUME TypeOK, Numbered, Vault
  PROVE  TypeOK'
<1>1. ASSUME NEW v \in Value, AppendAudit(v) PROVE TypeOK'
  <2> DEFINE entry == Hash(TailId(rows) + 1, v, TailHash(rows))
             r     == [ value |-> v, entry |-> entry ]
             new   == Row(TailId(rows) + 1, v, "canonical", TailHash(rows), entry)
  <2>1. journal' = Append(journal, r) /\ pending' = new
    BY <1>1 DEF AppendAudit
  <2>2. journal \in Seq([ value : Value, entry : Copied ]) /\ Len(journal) < MaxEvents
    BY <1>1 DEF AppendAudit, TypeOK
  <2>3. entry \in Copied'
    <3> HIDE DEF entry
    <3>1. Len(journal') = Len(journal) + 1 /\ journal'[Len(journal) + 1] = r
      BY <2>1, <2>2, BoundsAssumption
    <3>2. Anchored(Len(journal))' = entry
      BY <3>1, <2>2 DEF Anchored
    <3>3. Len(journal') \in 0 .. Len(journal')
      BY <3>1, <2>2
    <3> QED
      BY <3>2, <3>3 DEF Copied
  <2>4. r \in [ value : Value, entry : Copied' ]
    BY <2>3
  <2> HIDE DEF entry
  <2>5. /\ Copied \subseteq Copied' /\ Written \subseteq Written'
        /\ \A s : s \in Seq(Written) => s \in Seq(Written')
    BY <2>1, Grows
  <2>6. new \in Written'
    <3>1. TailId(rows) \in Nat /\ TailHash(rows) \in Copied
      BY TailFacts DEF TypeOK
    <3> QED
      BY <3>1, <2>3, <2>5 DEF Written, Row, Form
  <2>7. journal' \in Seq([ value : Value, entry : Copied' ]) /\ Len(journal') <= MaxEvents
    <3>1. [ value : Value, entry : Copied ] \subseteq [ value : Value, entry : Copied' ]
      BY <2>5
    <3>2. journal \in Seq([ value : Value, entry : Copied' ])
      BY <2>2, <3>1, SeqMonotone
    <3> QED
      BY <3>2, <2>1, <2>2, <2>4, BoundsAssumption
  <2>8. UNCHANGED <<rows, sequence, check, edits>>
    BY <1>1 DEF AppendAudit
  <2>9. check' \in Verification'
    BY <2>5, <2>8 DEF TypeOK, Verification
  <2>10. rows' \in Seq(Written')
    BY <2>5, <2>8 DEF TypeOK
  <2> QED
    BY <2>1, <2>6, <2>7, <2>8, <2>9, <2>10 DEF TypeOK, Verification
<1>2. ASSUME Commit PROVE TypeOK'
  <2>1. /\ pending \in Written
        /\ rows' = Append(rows, pending)
        /\ sequence' = pending.id
        /\ pending' = NoRow
        /\ UNCHANGED <<journal, check, edits>>
    BY <1>2 DEF Commit, TypeOK
  <2>2. rows \in Seq(Written) /\ pending.id = TailId(rows) + 1
    BY <1>2 DEF Commit, TypeOK, Numbered
  <2>3. rows' \in Seq(Written) /\ sequence' \in Nat
    BY <2>1, <2>2 DEF Written
  <2>4. Written' = Written /\ Copied' = Copied /\ Verification' = Verification
    BY <2>1 DEF Written, Copied, Anchored, Verification
  <2>5. \A i \in DOMAIN rows : rows[i].id \in Nat /\ rows[i].id <= TailId(rows)
    BY TailIsLast
  <2>6. /\ DOMAIN rows' = 1 .. Len(rows) + 1
        /\ \A i \in DOMAIN rows : rows'[i] = rows[i]
        /\ rows'[Len(rows) + 1] = pending
        /\ Len(rows) \in Nat /\ DOMAIN rows = 1 .. Len(rows)
    BY <2>1, <2>2
  <2>7. TailId(rows) \in Nat
    BY TailFacts DEF TypeOK
  <2>8. ASSUME NEW i \in DOMAIN rows', NEW j \in DOMAIN rows', i < j
        PROVE  rows'[i].id < rows'[j].id
    <3>1. i \in DOMAIN rows
      BY <2>6, <2>8
    <3>2. CASE j \in DOMAIN rows
      BY <3>1, <3>2, <2>6, <2>8 DEF TypeOK
    <3>3. CASE j = Len(rows) + 1
      BY <3>1, <3>3, <2>2, <2>5, <2>6, <2>7
    <3> QED
      BY <2>6, <3>2, <3>3
  <2> QED
    BY <2>1, <2>3, <2>4, <2>8 DEF TypeOK
<1>3. ASSUME Rollback PROVE TypeOK'
  BY <1>3 DEF Rollback, TypeOK, Written, Copied, Anchored, Verification
<1> QED
  BY <1>1, <1>2, <1>3 DEF Vault

\* Rows without one of them are still a table.
LEMMA WithoutIsTable ==
  ASSUME TypeOK, NEW i \in DOMAIN rows
  PROVE  LET rest == Without(rows, i)
         IN  /\ rest \in Seq(Written)
             /\ \A k, m \in DOMAIN rest : k < m => rest[k].id < rest[m].id
<1> DEFINE at(k) == IF k < i THEN k ELSE k + 1
           rest == Without(rows, i)
<1>1. /\ rows \in Seq(Written) /\ Len(rows) \in Nat /\ DOMAIN rows = 1 .. Len(rows)
      /\ \A k, m \in DOMAIN rows : k < m => rows[k].id < rows[m].id
  BY DEF TypeOK
<1>2. /\ \A k \in 1 .. Len(rows) - 1 : at(k) \in DOMAIN rows
      /\ \A k, m \in 1 .. Len(rows) - 1 : k < m => at(k) < at(m)
  BY <1>1
<1>3. /\ Len(rows) - 1 \in Nat
      /\ rest = [ k \in 1 .. Len(rows) - 1 |-> rows[at(k)] ]
  BY <1>1 DEF Without
<1> HIDE DEF at, rest
<1>4. /\ DOMAIN rest = 1 .. Len(rows) - 1
      /\ \A k \in 1 .. Len(rows) - 1 : rest[k] = rows[at(k)] /\ rest[k] \in Written
  BY <1>1, <1>2, <1>3
<1>5. rest \in Seq(Written)
  BY <1>3, <1>4
<1>6. \A k, m \in DOMAIN rest : k < m => rest[k].id < rest[m].id
  BY <1>1, <1>2, <1>4
<1> QED
  BY <1>5, <1>6 DEF rest

\* And so are they with another one where its number fits.
LEMMA WithIsTable ==
  ASSUME NEW log \in Seq(Written),
         \A i, j \in DOMAIN log : i < j => log[i].id < log[j].id,
         NEW k \in 0 .. Len(log), NEW row \in Written, Fits(log, k, row.id)
  PROVE  LET all == With(log, k, row)
         IN  /\ all \in Seq(Written)
             /\ \A i, j \in DOMAIN all : i < j => all[i].id < all[j].id
<1> DEFINE all == With(log, k, row)
<1>1. /\ Len(log) \in Nat /\ DOMAIN log = 1 .. Len(log)
      /\ \A i \in DOMAIN log : log[i] \in Written /\ log[i].id \in Nat
      /\ row.id \in Nat
  <2>1. \A r \in Written : r.id \in Nat
    BY DEF Written
  <2>2. Len(log) \in Nat /\ DOMAIN log = 1 .. Len(log)
    OBVIOUS
  <2>3. \A i \in DOMAIN log : log[i] \in Written
    BY <2>2
  <2> QED
    BY <2>1, <2>2, <2>3
<1>2. /\ DOMAIN all = 1 .. Len(log) + 1
      /\ \A i \in 1 .. k : all[i] = log[i] /\ i \in DOMAIN log
      /\ all[k + 1] = row
      /\ \A i \in k + 2 .. Len(log) + 1 : all[i] = log[i - 1] /\ i - 1 \in DOMAIN log
  BY <1>1 DEF With
<1>3. all = [ i \in 1 .. Len(log) + 1 |->
                IF i <= k THEN log[i] ELSE IF i = k + 1 THEN row ELSE log[i - 1] ]
  BY DEF With
<1> HIDE DEF all
<1>4. \A i \in DOMAIN all : i \in 1 .. k \/ i = k + 1 \/ i \in k + 2 .. Len(log) + 1
  BY <1>1, <1>2
<1>5. \A i \in DOMAIN all : all[i] \in Written
  BY <1>1, <1>2, <1>4
<1>6. all \in Seq(Written)
  BY <1>1, <1>3, <1>5
<1>7. \A i \in 1 .. k : log[i].id < row.id
  <2> SUFFICES ASSUME NEW i \in 1 .. k PROVE log[i].id < row.id
    OBVIOUS
  <2>1. k \in DOMAIN log /\ i \in DOMAIN log /\ log[k].id < row.id
    BY <1>1 DEF Fits
  <2> QED
    BY <1>1, <2>1
<1>8. \A i \in k + 1 .. Len(log) : row.id < log[i].id
  <2> SUFFICES ASSUME NEW i \in k + 1 .. Len(log) PROVE row.id < log[i].id
    OBVIOUS
  <2>1. k + 1 \in DOMAIN log /\ i \in DOMAIN log /\ row.id < log[k + 1].id
    BY <1>1 DEF Fits
  <2> QED
    BY <1>1, <2>1, SMTT(20)
<1>9. ASSUME NEW i \in DOMAIN all, NEW j \in DOMAIN all, i < j
      PROVE  all[i].id < all[j].id
  <2>1. CASE i \in 1 .. k
    <3>1. CASE j \in 1 .. k
      BY <1>1, <1>2, <1>9, <2>1, <3>1
    <3>2. CASE j = k + 1
      BY <1>1, <1>2, <1>7, <2>1, <3>2
    <3>3. CASE j \in k + 2 .. Len(log) + 1
      <4>1. i \in DOMAIN log /\ j - 1 \in DOMAIN log /\ i < j - 1
        BY <1>1, <2>1, <3>3
      <4> QED
        BY <1>2, <2>1, <3>3, <4>1
    <3> QED
      BY <1>4, <3>1, <3>2, <3>3
  <2>2. CASE i = k + 1
    <3>1. j \in k + 2 .. Len(log) + 1 /\ j - 1 \in k + 1 .. Len(log)
      BY <1>1, <1>2, <1>9, <2>2
    <3> QED
      BY <1>2, <1>8, <2>2, <3>1
  <2>3. CASE i \in k + 2 .. Len(log) + 1
    <3>1. j \in k + 2 .. Len(log) + 1
      BY <1>1, <1>2, <1>9, <2>3
    <3>2. i - 1 \in DOMAIN log /\ j - 1 \in DOMAIN log /\ i - 1 < j - 1
      BY <1>1, <1>9, <2>3, <3>1
    <3> QED
      BY <1>2, <2>3, <3>1, <3>2
  <2> QED
    BY <1>4, <2>1, <2>2, <2>3
<1> QED
  BY <1>6, <1>9 DEF all

\* So does a change that somebody else makes.
LEMMA TypeOthers ==
  ASSUME TypeOK, Others
  PROVE  TypeOK'
<1>1. /\ UNCHANGED <<pending, journal, check>>
      /\ edits' \in 0 .. MaxEdits
  BY BoundsAssumption
  DEF TypeOK, Others, AlterRow, RenumberRow, SwapRows, DeleteRow, InsertRow, Edits
<1>2. /\ Written' = Written /\ Copied' = Copied /\ Verification' = Verification
  BY <1>1 DEF Written, Copied, Anchored, Verification
<1>3. /\ rows \in Seq(Written) /\ sequence \in Nat
      /\ \A i \in DOMAIN rows : rows[i] \in Written
      /\ \A i, j \in DOMAIN rows : i < j => rows[i].id < rows[j].id
      /\ \A i \in DOMAIN rows : rows[i].id \in Nat
      /\ Len(rows) \in Nat /\ DOMAIN rows = 1 .. Len(rows)
      /\ Ids \subseteq Nat \ {0}
  <2>1. \A i \in DOMAIN rows : rows[i] \in Written
    BY DEF TypeOK
  <2>2. TailId(rows) \in Nat
    BY TailFacts DEF TypeOK
  <2> QED
    BY <2>1, <2>2 DEF TypeOK, Written, Ids
<1> SUFFICES /\ rows' \in Seq(Written) /\ sequence' \in Nat
             /\ \A i, j \in DOMAIN rows' : i < j => rows'[i].id < rows'[j].id
  BY <1>1, <1>2 DEF TypeOK
<1>4. CASE AlterRow
  <2>1. PICK i \in DOMAIN rows : \E row \in Altered(rows[i]) :
                                   rows' = [rows EXCEPT ![i] = row]
    BY <1>4 DEF AlterRow
  <2>2. PICK row \in Altered(rows[i]) : rows' = [rows EXCEPT ![i] = row]
    BY <2>1
  <2>3. row \in Written /\ row.id = rows[i].id
    BY <1>3, AltersToWritten
  <2>4. /\ rows' \in Seq(Written) /\ DOMAIN rows' = DOMAIN rows
        /\ \A k \in DOMAIN rows : rows'[k].id = rows[k].id
    BY <1>3, <2>2, <2>3
  <2> QED
    BY <1>3, <1>4, <2>4 DEF AlterRow
<1>5. CASE RenumberRow
  <2>1. PICK i \in DOMAIN rows, id \in Ids :
          \E k \in 0 .. Len(Without(rows, i)) :
            /\ Fits(Without(rows, i), k, id)
            /\ rows' = With(Without(rows, i), k, [rows[i] EXCEPT !.id = id])
    BY <1>5 DEF RenumberRow
  <2> DEFINE rest == Without(rows, i)
             row  == [rows[i] EXCEPT !.id = id]
  <2>2. row \in Written /\ row.id = id
    BY <1>3 DEF Written
  <2>3. /\ rest \in Seq(Written)
        /\ \A k, m \in DOMAIN rest : k < m => rest[k].id < rest[m].id
    BY WithoutIsTable
  <2> HIDE DEF rest, row
  <2>4. PICK k \in 0 .. Len(rest) : Fits(rest, k, row.id) /\ rows' = With(rest, k, row)
    BY <2>1, <2>2 DEF rest, row
  <2>5. /\ rows' \in Seq(Written)
        /\ \A j, m \in DOMAIN rows' : j < m => rows'[j].id < rows'[m].id
    BY <2>2, <2>3, <2>4, WithIsTable
  <2> QED
    BY <1>3, <1>5, <2>5 DEF RenumberRow
<1>6. CASE SwapRows
  <2>1. PICK i, j \in DOMAIN rows :
          rows' = [rows EXCEPT ![i] = [rows[j] EXCEPT !.id = rows[i].id],
                               ![j] = [rows[i] EXCEPT !.id = rows[j].id]]
    BY <1>6 DEF SwapRows
  <2> DEFINE mine   == [rows[j] EXCEPT !.id = rows[i].id]
             theirs == [rows[i] EXCEPT !.id = rows[j].id]
  <2>2. /\ mine \in Written /\ mine.id = rows[i].id
        /\ theirs \in Written /\ theirs.id = rows[j].id
    BY <1>3 DEF Written
  <2>3. rows' = [rows EXCEPT ![i] = mine, ![j] = theirs]
    BY <2>1
  <2> HIDE DEF mine, theirs
  <2>4. /\ rows' \in Seq(Written) /\ DOMAIN rows' = DOMAIN rows
        /\ \A k \in DOMAIN rows :
             rows'[k] = IF k = j THEN theirs ELSE IF k = i THEN mine ELSE rows[k]
    BY <1>3, <2>2, <2>3
  <2>5. \A k \in DOMAIN rows : rows'[k].id = rows[k].id
    BY <2>2, <2>4
  <2>6. sequence' = sequence
    BY <1>6 DEF SwapRows
  <2> QED
    BY <1>3, <2>4, <2>5, <2>6
<1>7. CASE DeleteRow
  <2>1. PICK i \in DOMAIN rows : rows' = Without(rows, i)
    BY <1>7 DEF DeleteRow
  <2> QED
    BY <1>3, <1>7, <2>1, WithoutIsTable DEF DeleteRow
<1>8. CASE InsertRow
  <2>1. PICK k \in 0 .. Len(rows), id \in Ids, value \in Value, previous \in Copied,
             entry \in { c \in Copied : Unused(c) } :
          /\ Fits(rows, k, id)
          /\ rows' = With(rows, k, Row(id, value, "canonical", previous, entry))
          /\ sequence' = IF id > sequence THEN id ELSE sequence
    BY <1>8 DEF InsertRow
  <2> DEFINE new == Row(id, value, "canonical", previous, entry)
  <2>2. new \in Written /\ new.id = id
    BY <1>3 DEF Row, Written, Form
  <2> HIDE DEF new
  <2>3. Fits(rows, k, new.id) /\ rows' = With(rows, k, new)
    BY <2>1, <2>2 DEF new
  <2>4. /\ rows' \in Seq(Written)
        /\ \A i, j \in DOMAIN rows' : i < j => rows'[i].id < rows'[j].id
    BY <1>3, <2>2, <2>3, WithIsTable
  <2> QED
    BY <1>3, <2>1, <2>4
<1> QED
  BY <1>4, <1>5, <1>6, <1>7, <1>8 DEF Others

\* And a step of the verification.
LEMMA TypeVerify ==
  ASSUME TypeOK, Numbered, Verify
  PROVE  TypeOK'
<1>1. UNCHANGED unread
  BY DEF Verify, ReadRows, CheckRow, ReadAnchor, ReadTail
<1>2. /\ Written' = Written /\ Copied' = Copied /\ Verification' = Verification
  BY <1>1 DEF Written, Copied, Anchored, Verification, unread
<1> SUFFICES check' \in Verification
  BY <1>1, <1>2 DEF TypeOK, unread
<1>3. CASE ReadRows
  <2>1. Due \in Nat /\ edits \in Nat /\ rows \in Seq(Written)
    <3>1. pending # NoRow => Len(journal) # 0
      BY TailFacts DEF TypeOK, Numbered
    <3> QED
      BY <3>1 DEF TypeOK, Due
  <2>2. check' = [ at |-> "rows", rows |-> rows, next |-> 1, line |-> NoRow,
                   status |-> "none", bad |-> 0, due |-> Due, since |-> edits ]
    BY <1>3 DEF ReadRows, Idle
  <2> QED
    BY <2>1, <2>2 DEF Verification
<1>4. CASE CheckRow
  <2> DEFINE row == check.rows[check.next]
  <2>1. check \in Verification /\ check.next <= Len(check.rows)
    BY <1>4 DEF CheckRow, TypeOK
  <2>2. check.rows \in Seq(Written) /\ check.next \in DOMAIN check.rows
    BY <2>1 DEF Verification
  <2>3. row.id \in Nat
    <3>1. row \in Written
      BY <2>2
    <3> QED
      BY <3>1 DEF Written
  <2>4. \/ check' = [check EXCEPT !.next = @ + 1]
        \/ \E status \in { "invalid", "raised" }, bad \in Nat : Ends(status, bad)
    BY <1>4, <2>3 DEF CheckRow
  <2>5. CASE check' = [check EXCEPT !.next = @ + 1]
    <3>1. check.next + 1 \in Nat \ {0}
      BY <2>1 DEF Verification
    <3> QED
      BY <2>1, <2>5, <3>1 DEF Verification
  <2>6. CASE \E status \in { "invalid", "raised" }, bad \in Nat : Ends(status, bad)
    BY <2>1, <2>6 DEF Ends, Verification
  <2> QED
    BY <2>4, <2>5, <2>6
<1>5. CASE ReadAnchor
  <2>1. [ id |-> Len(journal), entry |-> Anchored(Len(journal)) ]
          \in [ id : Nat, entry : Copied ]
    BY DEF TypeOK, Copied
  <2> QED
    BY <1>5, <2>1 DEF ReadAnchor, TypeOK, Verification
<1>6. CASE ReadTail
  <2>1. check \in Verification /\ Len(check.rows) \in Nat
    BY DEF TypeOK, Verification
  <2>2. \E status \in { "valid", "invalid" }, bad \in Nat : Ends(status, bad)
    BY <1>6, <2>1 DEF ReadTail
  <2> QED
    BY <2>1, <2>2 DEF Ends, Verification
<1> QED
  BY <1>3, <1>4, <1>5, <1>6 DEF Verify

-----------------------------------------------------------------------------
(* The anchor is a chain, and the row being written its last link *)

LEMMA LinkedStep ==
  ASSUME TypeOK, Linked, Next
  PROVE  Linked'
<1>1. CASE UNCHANGED journal
  BY <1>1 DEF Linked, Anchored
<1>2. CASE \E v \in Value : AppendAudit(v)
  <2>1. PICK v \in Value : AppendAudit(v)
    BY <1>2
  <2> DEFINE entry == Hash(TailId(rows) + 1, v, TailHash(rows))
             r     == [ value |-> v, entry |-> entry ]
  <2>2. /\ journal' = Append(journal, r)
        /\ TailId(rows) = Len(journal)
        /\ TailHash(rows) = Anchored(Len(journal))
    BY <2>1 DEF AppendAudit
  <2>3. /\ journal \in Seq([ value : Value, entry : Copied ])
        /\ Len(journal) \in Nat
    BY DEF TypeOK
  <2>4. entry = Hash(Len(journal) + 1, v, Anchored(Len(journal)))
    BY <2>2
  <2> HIDE DEF entry
  <2>5. /\ Len(journal') = Len(journal) + 1
        /\ \A i \in 1 .. Len(journal) : journal'[i] = journal[i]
        /\ journal'[Len(journal) + 1] = r
    BY <2>2, <2>3
  <2>6. \A i \in 0 .. Len(journal) : Anchored(i)' = Anchored(i)
    BY <2>3, <2>5 DEF Anchored
  <2>7. ASSUME NEW i \in DOMAIN journal'
        PROVE  journal'[i].entry = Hash(i, journal'[i].value, Anchored(i - 1)')
    <3>1. DOMAIN journal' = 1 .. Len(journal) + 1
      BY <2>2, <2>3
    <3>2. CASE i <= Len(journal)
      <4>1. i \in DOMAIN journal /\ i - 1 \in 0 .. Len(journal)
        BY <2>3, <3>1, <3>2
      <4> QED
        BY <2>3, <2>5, <2>6, <4>1 DEF Linked
    <3>3. CASE i = Len(journal) + 1
      <4>1. i - 1 = Len(journal) /\ i - 1 \in 0 .. Len(journal)
        BY <2>3, <3>3
      <4> QED
        BY <2>4, <2>5, <2>6, <3>3, <4>1
    <3> QED
      BY <2>3, <3>1, <3>2, <3>3
  <2> QED
    BY <2>7 DEF Linked
<1> QED
  BY <1>1, <1>2 DEF Next, Vault, Others, Verify, Commit, Rollback,
                    AlterRow, RenumberRow, SwapRows,
       DeleteRow, InsertRow, Edits, ReadRows, CheckRow, ReadAnchor, ReadTail, unread

LEMMA NumberedStep ==
  ASSUME TypeOK, Numbered, Next
  PROVE  Numbered'
<1>1. CASE \E v \in Value : AppendAudit(v)
  <2>1. PICK v \in Value : AppendAudit(v)
    BY <1>1
  <2>2. /\ pending'.id = TailId(rows) + 1
        /\ TailId(rows) = Len(journal)
        /\ rows' = rows /\ sequence' = sequence
    BY <2>1 DEF AppendAudit, Row
  <2>3. Len(journal') = Len(journal) + 1
    BY <2>1 DEF AppendAudit, TypeOK
  <2>4. TailId(rows)' = TailId(rows)
    BY <2>2 DEF TailId
  <2> QED
    BY <2>2, <2>3, <2>4 DEF Numbered
<1>2. CASE pending' = NoRow
  BY <1>2 DEF Numbered
<1>3. CASE UNCHANGED <<rows, sequence, pending, journal>>
  BY <1>3 DEF Numbered, TailId
<1> QED
  BY <1>1, <1>2, <1>3 DEF Next, Vault, Others, Verify, Commit, Rollback, AlterRow, RenumberRow,
       SwapRows, DeleteRow, InsertRow, Edits, ReadRows, CheckRow, ReadAnchor,
       ReadTail, unread

-----------------------------------------------------------------------------
(* The loop *)

LEMMA LoopTypes ==
  ASSUME TypeOK
  PROVE  /\ check \in Verification
         /\ check.rows \in Seq(Written)
         /\ Len(check.rows) \in Nat /\ DOMAIN check.rows = 1 .. Len(check.rows)
         /\ check.next \in Nat \ {0}
         /\ \A i \in 1 .. Len(check.rows) :
              check.rows[i].id \in Nat /\ check.rows[i].entry \in Copied
<1>1. check \in Verification /\ check.rows \in Seq(Written) /\ check.next \in Nat \ {0}
  BY DEF TypeOK, Verification
<1>2. \A i \in 1 .. Len(check.rows) : check.rows[i] \in Written
  BY <1>1
<1> QED
  BY <1>1, <1>2 DEF Written

\* After original rows, the hash the loop carries is the anchored one.
LEMMA CarriesAnchored ==
  ASSUME TypeOK, Passed
  PROVE  PreviousHash = Anchored(check.next - 1)
<1>1. check.next \in Nat \ {0}
  BY LoopTypes
<1>2. CASE check.next = 1
  BY <1>2 DEF PreviousHash, Anchored
<1>3. CASE check.next # 1
  <2>1. Original(check.rows[check.next - 1], check.next - 1)
    BY <1>1, <1>3 DEF Passed
  <2>2. check.next - 1 # 0
    BY <1>1, <1>3
  <2> QED
    BY <1>3, <2>1, <2>2 DEF PreviousHash, Anchored, Original
<1> QED
  BY <1>2, <1>3

\* A row that follows the original ones and recomputes is original: its hash is
\* one the vault left, and that is the hash of one event only.
LEMMA RecomputedIsOriginal ==
  ASSUME TypeOK, Linked, Passed, check.next <= Len(check.rows),
         Follows(check.rows[check.next]), Recomputes(check.rows[check.next])
  PROVE  Original(check.rows[check.next], check.next)
<1> DEFINE row == check.rows[check.next]
           k   == check.next
<1>1. /\ k \in Nat \ {0} /\ row.id = k /\ row.entry \in Copied
      /\ row.previous = PreviousHash /\ row.entry = Hash(k, row.value, PreviousHash)
  BY LoopTypes DEF Follows, Recomputes
<1>2. PreviousHash = Anchored(k - 1)
  BY CarriesAnchored
<1>3. journal \in Seq([ value : Value, entry : Copied ]) /\ Len(journal) \in Nat
  BY DEF TypeOK
<1>4. PICK j \in 0 .. Len(journal) : row.entry = Anchored(j)
  BY <1>1, HashFacts DEF Copied
<1>5. j # 0
  <2>1. Hash(k, row.value, PreviousHash) # Zero
    BY HashFacts
  <2> QED
    BY <1>1, <1>4, <2>1 DEF Anchored
<1>6. row.entry = journal[j].entry
  BY <1>4, <1>5 DEF Anchored
<1>7. row.entry = Hash(j, journal[j].value, Anchored(j - 1))
  BY <1>3, <1>5, <1>6 DEF Linked
<1>8. j = k /\ row.value = journal[j].value
  <2>1. Hash(k, row.value, PreviousHash) = Hash(j, journal[j].value, Anchored(j - 1))
    BY <1>1, <1>7
  <2> HIDE DEF k, row
  <2> QED
    BY <2>1, HashFacts
<1> QED
  BY <1>1, <1>2, <1>3, <1>6, <1>8 DEF Original

\* And an original row follows and recomputes.
LEMMA OriginalRecomputes ==
  ASSUME TypeOK, Linked, Passed, check.next <= Len(check.rows),
         Original(check.rows[check.next], check.next)
  PROVE  Follows(check.rows[check.next]) /\ Recomputes(check.rows[check.next])
<1> DEFINE row == check.rows[check.next]
           k   == check.next
<1>1. PreviousHash = Anchored(k - 1) /\ k \in Nat \ {0}
  BY CarriesAnchored, LoopTypes
<1>2. k \in DOMAIN journal
  BY <1>1 DEF Original, TypeOK
<1>3. journal[k].entry = Hash(k, journal[k].value, Anchored(k - 1))
  BY <1>2 DEF Linked
<1> QED
  BY <1>1, <1>3 DEF Original, Follows, Recomputes

LEMMA PassedStep ==
  ASSUME TypeOK, Linked, Passed, Next
  PROVE  Passed'
<1> USE LoopTypes
<1>1. CASE UNCHANGED check
  <2>1. PICK r : journal' = journal \/ journal' = Append(journal, r)
    BY DEF Next, Vault, Others, Verify, AppendAudit, Commit, Rollback, AlterRow, RenumberRow,
       SwapRows, DeleteRow, InsertRow, Edits, ReadRows, CheckRow, ReadAnchor,
       ReadTail, unread
  <2>2. /\ Len(journal) \in Nat /\ Len(journal') \in Nat /\ Len(journal') >= Len(journal)
        /\ \A i \in 1 .. Len(journal) : journal'[i] = journal[i]
        /\ \A i \in 0 .. Len(journal) : Anchored(i)' = Anchored(i)
    BY <2>1, Grows
  <2>3. ASSUME NEW i \in 1 .. check.next - 1
        PROVE  Original(check.rows[i], i)'
    <3>1. Original(check.rows[i], i)
      BY DEF Passed
    <3>2. i - 1 \in 0 .. Len(journal) /\ i \in 1 .. Len(journal)
      BY <2>2, <3>1 DEF Original
    <3> QED
      BY <1>1, <2>2, <3>1, <3>2 DEF Original
  <2>4. \A i \in 1 .. check'.next - 1 : Original(check.rows[i], i)'
    BY <1>1, <2>3
  <2>5. /\ Follows(check.rows[check.next])' <=> Follows(check.rows[check.next])
        /\ Recomputes(check.rows[check.next])' <=> Recomputes(check.rows[check.next])
    BY <1>1 DEF Follows, Recomputes, PreviousHash
  <2> QED
    BY <1>1, <2>4, <2>5 DEF Passed
<1>2. CASE ReadRows
  <2>1. check' = [ at |-> "rows", rows |-> rows, next |-> 1, line |-> NoRow,
                   status |-> "none", bad |-> 0, due |-> Due, since |-> edits ]
    BY <1>2 DEF ReadRows, Idle
  <2>2. Len(rows) \in Nat
    BY DEF TypeOK
  <2> QED
    BY <2>1, <2>2 DEF Passed
<1>3. CASE CheckRow
  <2> DEFINE row == check.rows[check.next]
  <2>1. /\ check.at = "rows" /\ check.next <= Len(check.rows)
        /\ check.line = NoRow /\ check.status = "none"
        /\ UNCHANGED journal
    BY <1>3 DEF CheckRow, Passed, unread
  <2>2. \A r, i : Original(r, i)' <=> Original(r, i)
    BY <2>1 DEF Original, Anchored
  <2>3. CASE Ends("invalid", row.id) /\ ~(Follows(row) /\ Recomputes(row))
    <3>1. check' = [check EXCEPT !.at = "done", !.status = "invalid", !.bad = row.id]
      BY <2>3 DEF Ends
    <3>2. /\ check'.at = "done" /\ check'.status = "invalid" /\ check'.bad = row.id
          /\ check'.rows = check.rows /\ check'.next = check.next
          /\ check'.line = check.line
      BY <3>1 DEF Verification
    <3> QED
      BY <2>1, <2>2, <2>3, <3>2 DEF Passed, Follows, Recomputes, PreviousHash
  <2>4. CASE Ends("raised", 0)
    <3>1. check' = [check EXCEPT !.at = "done", !.status = "raised", !.bad = 0]
      BY <2>4 DEF Ends
    <3>2. /\ check'.at = "done" /\ check'.status = "raised"
          /\ check'.rows = check.rows /\ check'.next = check.next
      BY <3>1 DEF Verification
    <3> QED
      BY <2>1, <2>2, <3>2 DEF Passed
  <2>5. CASE Follows(row) /\ Recomputes(row) /\ check' = [check EXCEPT !.next = @ + 1]
    <3>1. /\ check'.at = "rows" /\ check'.status = "none" /\ check'.line = NoRow
          /\ check'.rows = check.rows /\ check'.next = check.next + 1
      BY <2>1, <2>5 DEF Verification
    <3>2. Original(row, check.next)
      BY <2>1, <2>5, RecomputedIsOriginal
    <3>3. \A i \in 1 .. check.next : Original(check.rows[i], i)
      BY <3>2 DEF Passed
    <3> QED
      BY <2>1, <2>2, <3>1, <3>3 DEF Passed
  <2> QED
    BY <1>3, <2>3, <2>4, <2>5 DEF CheckRow
<1>4. CASE ReadAnchor
  <2> DEFINE tip == [ id |-> Len(journal), entry |-> Anchored(Len(journal)) ]
  <2>1. /\ check.at = "rows" /\ check.next > Len(check.rows) /\ UNCHANGED journal
        /\ check' = [check EXCEPT !.at = "tail", !.line = tip]
    BY <1>4 DEF ReadAnchor, unread
  <2>2. tip # NoRow
    <3>1. DOMAIN tip # DOMAIN NoRow
      BY SMTT(20) DEF NoRow
    <3> QED
      BY <3>1
  <2> HIDE DEF tip
  <2>3. /\ check'.at = "tail" /\ check'.line = tip /\ check'.status = check.status
        /\ check'.rows = check.rows /\ check'.next = check.next
    BY <2>1 DEF Verification
  <2>4. \A r, i : Original(r, i)' <=> Original(r, i)
    BY <2>1 DEF Original, Anchored
  <2> QED
    BY <2>1, <2>2, <2>3, <2>4 DEF Passed
<1>5. CASE ReadTail
  <2>1. /\ check.at = "tail" /\ UNCHANGED journal
        /\ \E status \in { "valid", "invalid" } : \E bad : Ends(status, bad)
    BY <1>5 DEF ReadTail, unread
  <2>2. /\ check'.at = "done" /\ check'.line = check.line
        /\ check'.status \in { "valid", "invalid" }
        /\ check'.rows = check.rows /\ check'.next = check.next
    BY <2>1 DEF Verification, Ends
  <2>3. \A r, i : Original(r, i)' <=> Original(r, i)
    BY <2>1 DEF Original, Anchored
  <2> QED
    BY <2>1, <2>2, <2>3 DEF Passed
<1> QED
  BY <1>1, <1>2, <1>3, <1>4, <1>5 DEF Next, Vault, Others, Verify, AppendAudit, Commit,
       Rollback, AlterRow, RenumberRow, SwapRows, DeleteRow, InsertRow, Edits

-----------------------------------------------------------------------------
(* The end of the log *)

LEMMA FrozenStep ==
  ASSUME TypeOK, Numbered, Passed, Frozen, Next
  PROVE  Frozen'
<1> USE LoopTypes
<1>1. /\ journal \in Seq([ value : Value, entry : Copied ]) /\ Len(journal) \in Nat
      /\ check.due \in Nat /\ check.since \in Nat /\ edits \in Nat
      /\ TailId(rows) \in Nat /\ TailId(check.rows) \in Nat
  BY TailFacts DEF TypeOK, Verification
<1>2. ASSUME NEW v \in Value, AppendAudit(v) PROVE Frozen'
  <2>1. /\ TailId(rows) = Len(journal) /\ UNCHANGED <<rows, check, edits>>
        /\ pending = NoRow /\ Len(journal') = Len(journal) + 1
    BY <1>1, <1>2 DEF AppendAudit
  <2> QED
    BY <1>1, <2>1 DEF Frozen, TailId
<1>3. CASE Commit
  <2>1. pending # NoRow /\ UNCHANGED <<journal, check, edits>>
    BY <1>3 DEF Commit
  <2> QED
    BY <1>1, <2>1 DEF Frozen, TailId
<1>4. CASE Rollback
  BY <1>1, <1>4 DEF Frozen, Rollback, TailId
<1>5. CASE Others
  <2>1. edits' = edits + 1 /\ UNCHANGED <<journal, check>>
    BY <1>5 DEF Others, AlterRow, RenumberRow, SwapRows, DeleteRow, InsertRow, Edits
  <2> QED
    BY <1>1, <2>1 DEF Frozen, TailId
<1>6. CASE ReadRows
  <2>1. check' = [ at |-> "rows", rows |-> rows, next |-> 1, line |-> NoRow,
                   status |-> "none", bad |-> 0, due |-> Due, since |-> edits ]
    BY <1>6 DEF ReadRows, Idle
  <2>2. UNCHANGED <<rows, pending, journal, edits>>
    BY <1>6 DEF ReadRows, unread
  <2>3. Due <= Len(journal) /\ (pending # NoRow => TailId(rows) >= Due)
    BY <1>1 DEF Due, Numbered
  <2>4. TailId(check'.rows) = TailId(rows)
    BY <2>1
  <2> QED
    BY <1>1, <2>1, <2>2, <2>3, <2>4 DEF Frozen, TailId
<1>7. CASE CheckRow
  <2>1. /\ UNCHANGED unread
        /\ check'.rows = check.rows /\ check'.due = check.due
        /\ check'.since = check.since /\ check'.at \in { "rows", "done" }
        /\ check.at = "rows"
    BY <1>7 DEF CheckRow, Ends, Verification
  <2> QED
    BY <1>1, <2>1 DEF Frozen, TailId, unread
<1>8. CASE ReadAnchor
  <2>1. /\ UNCHANGED unread
        /\ check'.rows = check.rows /\ check'.due = check.due
        /\ check'.since = check.since /\ check'.at = "tail"
        /\ check'.line.id = Len(journal) /\ check.at = "rows"
    BY <1>8 DEF ReadAnchor, Verification
  <2> QED
    BY <1>1, <2>1 DEF Frozen, TailId, unread
<1>9. CASE ReadTail
  <2>1. /\ UNCHANGED unread
        /\ check'.due = check.due
        /\ check'.since = check.since /\ check'.at = "done"
    BY <1>9 DEF ReadTail, Ends, Verification
  <2> QED
    BY <1>1, <2>1 DEF Frozen, TailId, unread
<1> QED
  BY <1>2, <1>3, <1>4, <1>5, <1>6, <1>7, <1>8, <1>9 DEF Next, Vault, Verify

-----------------------------------------------------------------------------
(* The theorems *)

LEMMA Inductive == IInv /\ [Next]_vars => IInv'
<1> SUFFICES ASSUME IInv, [Next]_vars PROVE IInv'
  OBVIOUS
<1>1. CASE Next
  <2>1. TypeOK'
    BY <1>1, TypeVault, TypeOthers, TypeVerify DEF IInv, Next
  <2> QED
    BY <1>1, <2>1, LinkedStep, NumberedStep, PassedStep, FrozenStep DEF IInv
<1>2. CASE UNCHANGED vars
  BY <1>2 DEF vars, IInv, TypeOK, Written, Copied, Anchored, Verification, Linked,
       Numbered, Passed, Frozen, Original, Follows, Recomputes, PreviousHash, TailId
<1> QED
  BY <1>1, <1>2

LEMMA Initially == Init => IInv
<1> SUFFICES ASSUME Init PROVE IInv
  OBVIOUS
<1>1. TypeOK
  BY TypeInit
<1>2. /\ check.at = "idle" /\ check.rows = << >> /\ check.next = 1
      /\ check.status = "none" /\ check.due = 0 /\ check.since = 0
      /\ edits = 0 /\ journal = << >> /\ pending = NoRow
  BY DEF Init, Idle
<1> QED
  BY <1>1, <1>2 DEF IInv, Linked, Numbered, Passed, Frozen

LEMMA Invariance == Spec => []IInv
BY Initially, Inductive, PTL DEF Spec

\* The tables are tables, whatever others write: the numbers of the rows
\* ascend, and no column holds a hash that the vault did not leave somewhere.
THEOREM TypeCorrect == Spec => []TypeOK
<1>1. IInv => TypeOK
  BY DEF IInv
<1> QED
  BY <1>1, Invariance, PTL

\* A log that a deep verification calls valid is the log the vault wrote.
THEOREM ValidIsOriginal == Spec => []ValidMeansOriginal
<1>1. IInv => ValidMeansOriginal
  <2> SUFFICES ASSUME IInv, check.status = "valid", NEW i \in DOMAIN check.rows
               PROVE  Original(check.rows[i], i)
    BY DEF ValidMeansOriginal
  <2>1. TypeOK /\ Passed
    BY DEF IInv
  <2>2. i \in 1 .. check.next - 1
    BY <2>1, LoopTypes DEF Passed
  <2> QED
    BY <2>1, <2>2 DEF Passed
<1> QED
  BY <1>1, Invariance, PTL

\* The event a verification stops at is the first that is not as it was written.
THEOREM BlamesFirst == Spec => []BlameExact
<1>1. IInv => BlameExact
  <2> SUFFICES ASSUME IInv, check.status = "invalid", check.line = NoRow
               PROVE  \E k \in DOMAIN check.rows :
                        /\ check.rows[k].id = check.bad
                        /\ ~Original(check.rows[k], k)
                        /\ \A i \in 1 .. k - 1 : Original(check.rows[i], i)
    BY DEF BlameExact
  <2>1. TypeOK /\ Linked /\ Passed
    BY DEF IInv
  <2>2. check.next \in DOMAIN check.rows /\ check.next <= Len(check.rows)
    BY <2>1, LoopTypes DEF Passed
  <2>3. ~Original(check.rows[check.next], check.next)
    BY <2>1, <2>2, OriginalRecomputes DEF Passed
  <2> QED
    BY <2>1, <2>2, <2>3 DEF Passed
<1> QED
  BY <1>1, Invariance, PTL

\* A log whose end is missing is not called valid, unless somebody changes it
\* under the verification.
THEOREM EndIsThere == Spec => NothingCutOff
<1>1. IInv /\ [Next]_vars =>
        [ check'.status = "valid" /\ check.status # "valid" /\ check.since = edits
            => Len(check.rows) >= check.due ]_vars
  <2> SUFFICES ASSUME IInv, Next, check'.status = "valid", check.status # "valid",
                      check.since = edits
               PROVE  Len(check.rows) >= check.due
    OBVIOUS
  <2>1. TypeOK /\ Passed /\ Frozen
    BY DEF IInv
  <2>2. check \in Verification
    BY <2>1 DEF TypeOK
  <2>3. ReadTail
    BY <2>2 DEF Next, Vault, Others, Verify, AppendAudit, Commit, Rollback, AlterRow, RenumberRow,
         SwapRows, DeleteRow, InsertRow, Edits, ReadRows, CheckRow, ReadAnchor, Ends,
         Verification, Idle
  <2>4. /\ check.at = "tail"
        /\ check.line = [ id |-> TailId(rows), entry |-> TailHash(rows) ]
    BY <2>2, <2>3 DEF ReadTail, Ends, Verification
  <2>5. check.line.id = TailId(rows) /\ check.line.id >= check.due
    BY <2>1, <2>4 DEF Frozen
  <2>6. /\ TailId(check.rows) \in Nat /\ TailId(rows) \in Nat /\ check.due \in Nat
        /\ check.rows \in Seq(Written) /\ Len(check.rows) \in Nat
    BY <2>1, <2>2, TailFacts DEF TypeOK, Verification
  <2>7. TailId(check.rows) >= check.due
    BY <2>1, <2>4, <2>5, <2>6 DEF Frozen
  <2>8. TailId(check.rows) = Len(check.rows)
    <3>1. CASE check.rows = << >>
      BY <3>1 DEF TailId
    <3>2. CASE check.rows # << >>
      <4>1. Len(check.rows) \in 1 .. check.next - 1
        BY <2>1, <2>4, <2>6, <3>2 DEF Passed
      <4>2. Original(check.rows[Len(check.rows)], Len(check.rows))
        BY <2>1, <4>1 DEF Passed
      <4> QED
        BY <3>2, <4>2 DEF TailId, Original
    <3> QED
      BY <3>1, <3>2
  <2> QED
    BY <2>6, <2>7, <2>8
<1> QED
  BY <1>1, Invariance, PTL DEF Spec, NothingCutOff

=============================================================================
