---------------------------- MODULE MCAdmission ----------------------------
(* Admission for TLC: one client with a narrow grant, and its requests.    *)
EXTENDS Admission, TLC

CONSTANTS c1, n1, n2, ns1, ns2, read, write

Grants == [c \in Client |-> [ scopes |-> {read}, namespaces |-> {ns1} ]]

Signed(nonce, stamp, scope, namespace) ==
  [ client |-> c1, nonce |-> nonce, stamp |-> stamp, scope |-> scope,
    namespace |-> namespace, signed |-> TRUE ]

\* A request stamped on time; another with the same nonce, later; two that the
\* client may not make; one for no namespace; and two it did not sign.
Various ==
  { Signed(n1, Skew, read, ns1), Signed(n1, 2 * Skew + 1, read, ns1),
    Signed(n2, Skew, write, ns1), Signed(n2, Skew, read, ns2),
    Signed(n2, Skew, read, Nowhere),
    [ Signed(n1, Skew, read, ns1) EXCEPT !.signed = FALSE ],
    [ Signed(n1, Skew, read, ns1) EXCEPT !.client = Stranger ] }

OneRequest == { Signed(n1, Skew, read, ns1) }

DeliverySymmetry == Permutations(Delivery)
=============================================================================
