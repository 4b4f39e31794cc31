----------------------------- MODULE AtMostOnce -----------------------------
(***************************************************************************)
(* What an idempotency key promises to a client, with no storage, no       *)
(* claims and no failures: the work of a scope (one subject, one           *)
(* operation, one key) is done for at most one request body, once, and     *)
(* every success a client sees for the scope is the outcome of that work.  *)
(***************************************************************************)
CONSTANTS Scopes, Bodies

VARIABLES done, answered

vars == <<done, answered>>

TypeOK ==
    /\ done \subseteq Scopes \X Bodies
    /\ answered \subseteq Scopes \X Bodies

Init ==
    /\ done = {}
    /\ answered = {}

(* The work of a scope is done once; its caller may or may not learn of it. *)
Execute(s, b) ==
    /\ \A d \in done : d[1] # s
    /\ done' = done \cup {<<s, b>>}
    /\ answered' \in {answered, answered \cup {<<s, b>>}}

(* A later request of the same body is told the outcome of that work. *)
Answer(s, b) ==
    /\ <<s, b>> \in done
    /\ answered' = answered \cup {<<s, b>>}
    /\ UNCHANGED done

Next == \E s \in Scopes, b \in Bodies : Execute(s, b) \/ Answer(s, b)

Spec == Init /\ [][Next]_vars
=============================================================================
