--------------------------- MODULE MCVaultService ---------------------------
(* VaultService for TLC: a name, and few kinds of requests.                *)
EXTENDS VaultService, TLC

CONSTANTS n1, a, b

RequestParts == Request \X Part

Named(op, expected) == [ op |-> op, name |-> n1, expected |-> expected, key |-> None ]

ServiceCalls ==
  { Named("create", 0), Named("update", 1),
    Nameless("verify_audit_chain"), Nameless("verify_audit_checkpoint"),
    Nameless("record_security_event") }

Good(c, nonce) ==
  [ call |-> c, nonce |-> nonce, small |-> TRUE, readable |-> TRUE,
    signed |-> TRUE, allowed |-> TRUE, valid |-> TRUE ]

\* Writes that are repeated and compete, one that lacks each thing in turn.
EveryWish ==
  LET create == Good(Named("create", 0), a)
  IN  { create, [create EXCEPT !.nonce = b], Good(Named("update", 1), b),
        Good(Nameless("verify_audit_chain"), b),
        Good(Nameless("verify_audit_checkpoint"), a),
        [create EXCEPT !.small = FALSE],
        [create EXCEPT !.readable = FALSE],
        [create EXCEPT !.signed = FALSE],
        [create EXCEPT !.allowed = FALSE],
        [create EXCEPT !.valid = FALSE] }

\* Writes that are repeated and compete.
FewWishes ==
  { Good(Named("create", 0), a), Good(Named("update", 1), b) }

RequestSymmetry == Permutations(Request)
=============================================================================
