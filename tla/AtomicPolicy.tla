---------------------------- MODULE AtomicPolicy ----------------------------
(***************************************************************************)
(* What the firewall side of OptiGate promises: the kernel enforces, at    *)
(* every moment, either nothing or the whole of one policy the controller  *)
(* published, policies are enforced in the order they were published, and  *)
(* a policy that is missing is never taken for an empty one.               *)
(***************************************************************************)
CONSTANTS Policy,       \* the policies the controller may publish
          None,         \* no policy: the row or its column is missing
          Resolve(_),   \* the set contents that enforce a policy
          Empty         \* the set contents when nothing is enforced

VARIABLES published,    \* the policy on offer
          taken,        \* the policy a round of the firewall manager works from
          enforced      \* the set contents in the kernel

vars == <<published, taken, enforced>>

Init == published = None /\ taken = None /\ enforced = Empty

Publish == published' \in Policy \union {None} /\ UNCHANGED <<taken, enforced>>

\* A round starts from the policy on offer at that moment, or from none.
Take == taken' \in {published, None} /\ UNCHANGED <<published, enforced>>

\* All of the policy taken replaces all of what was enforced.
Enforce == taken # None /\ enforced' = Resolve(taken) /\ UNCHANGED <<published, taken>>

\* The firewall is taken down as a whole, between rounds.
Withdraw == enforced' = Empty /\ taken' = None /\ UNCHANGED published

Next == Publish \/ Take \/ Enforce \/ Withdraw

Spec == Init /\ [][Next]_vars
=============================================================================
