----------------------------- MODULE RequestLife -----------------------------
(***************************************************************************)
(* What libmp promises about its requests, whatever the queues, guards,    *)
(* streams and polls behind them: a request completes only after the HCA   *)
(* executed its work request, and its structure goes back to the pool only *)
(* when it is complete, or when nothing was ever posted for it.            *)
(***************************************************************************)
CONSTANT Reqs

\* life[r]: the request structure is free, has no work request yet, has one that
\* is not executed, executed or reported, or has one that reports nothing.
VARIABLE life

Lives == {"free", "created", "active", "executed", "complete", "unsignaled"}

\* A call takes a free structure; it may already have posted when it returns.
Create(r) ==
    /\ life[r] = "free"
    /\ \E l \in {"created", "active", "unsignaled"} : life' = [life EXCEPT ![r] = l]

Post(r) ==
    /\ life[r] = "created"
    /\ \E l \in {"active", "unsignaled"} : life' = [life EXCEPT ![r] = l]

Execute(r)  == life[r] = "active"   /\ life' = [life EXCEPT ![r] = "executed"]
Complete(r) == life[r] = "executed" /\ life' = [life EXCEPT ![r] = "complete"]
Undo(r)     == life[r] = "created"  /\ life' = [life EXCEPT ![r] = "free"]

\* A wait for all of rs returned.
Retire(rs) ==
    /\ \A r \in rs : life[r] = "complete"
    /\ life' = [r \in Reqs |-> IF r \in rs THEN "free" ELSE life[r]]

Init == life = [r \in Reqs |-> "free"]

Next ==
    \/ \E r \in Reqs : Create(r) \/ Post(r) \/ Execute(r) \/ Complete(r) \/ Undo(r)
    \/ \E rs \in SUBSET Reqs : Retire(rs)

Spec == Init /\ [][Next]_life
=============================================================================
