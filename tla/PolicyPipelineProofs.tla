------------------------ MODULE PolicyPipelineProofs ------------------------
(***************************************************************************)
(* The policy pipeline, for any devices, addresses, fields and bounds:     *)
(* its types, the disjointness of the kernel's sets, the account of every  *)
(* connection a restriction should end, the honesty of "running", and that *)
(* it implements AtomicPolicy.                                             *)
(*                                                                         *)
(* RevokedFlowsAreFlushed is not inductive alone.  It needs that nothing   *)
(* is left to flush outside the flush step (Rounds), so that ApplyDiffs    *)
(* may start a new list, and that a permitted address is not a restricted  *)
(* one (KernelDisjoint), so that OpenFlow never marks one.                 *)
(***************************************************************************)
EXTENDS PolicyPipeline, TLAPS

\* The types of the variables the steps below read.
Typed ==
    /\ computed \in Policy \union {None} /\ published \in Policy \union {None}
    /\ taken \in Policy \union {None} /\ kernel \in Policy
    /\ pc \in {"down", "idle", "read", "flush"}
    /\ todo \subseteq Ip /\ marked \subseteq Ip /\ missed \subseteq Ip

\* Where a round stands: a policy in hand while it works, a flush list only while it
\* flushes, and the policy enforced by then.
Rounds ==
    /\ pc \in {"read", "flush"} => taken # None
    /\ pc # "flush" => todo = {}
    /\ pc = "flush" => kernel = ResolveConflicts(taken)

IInv == Typed /\ Rounds /\ KernelDisjoint /\ RevokedFlowsAreFlushed /\ RunningMeansApplied

-----------------------------------------------------------------------------
(* The operators                                                           *)

\* The five names are five different names.
LEMMA Names ==
    /\ Exclusive = {"bypass_v4", "authenticated_v4", "unauthenticated_v4", "quarantine_v4"}
    /\ SetName = Exclusive \union {"bump_v4"}
    /\ "bump_v4" \notin Exclusive
<1>1. Exclusive = {"bypass_v4", "authenticated_v4", "unauthenticated_v4", "quarantine_v4"}
  <2>1. 1..4 = {1, 2, 3, 4}
    OBVIOUS
  <2>2. Exclusive = {AllSetNames[1], AllSetNames[2], AllSetNames[3], AllSetNames[4]}
    BY <2>1 DEF Exclusive
  <2>3. QED  BY <2>2 DEF AllSetNames
<1>2. QED  BY <1>1 DEF SetName

\* compute_desired_policy returns a policy.
LEMMA DesiredIsPolicy == DesiredPolicy \in Policy
BY DEF DesiredPolicy, Policy

\* ResolveConflicts returns a policy.
LEMMA ResolveIsPolicy ==
    ASSUME NEW p \in Policy
    PROVE  ResolveConflicts(p) \in Policy
<1> DEFINE kept(s) == {i \in Asked(p) : AllSetNames[Winner(p, i)] = s}
<1>1. Asked(p) \subseteq Ip
  BY DEF Asked, Policy, SetName
<1>2. \A s : kept(s) \in SUBSET Ip
  BY <1>1
<1>3. \A s \in SetName : (IF s = "bump_v4" THEN p[s] \intersect kept("authenticated_v4")
                          ELSE kept(s)) \in SUBSET Ip
  BY <1>2
<1> HIDE DEF kept
<1>4. [s \in SetName |-> IF s = "bump_v4" THEN p[s] \intersect kept("authenticated_v4")
                         ELSE kept(s)] \in [SetName -> SUBSET Ip]
  BY <1>3
<1>5. QED  BY <1>4 DEF ResolveConflicts, Policy, kept

\* Its four classes are disjoint and its bump set is authenticated.
LEMMA ResolveSeparates ==
    ASSUME NEW p
    PROVE  /\ \A s, t \in Exclusive :
                 s # t => ResolveConflicts(p)[s] \intersect ResolveConflicts(p)[t] = {}
           /\ ResolveConflicts(p)["bump_v4"] \subseteq ResolveConflicts(p)["authenticated_v4"]
<1> DEFINE kept(s) == {i \in Asked(p) : AllSetNames[Winner(p, i)] = s}
<1>1. \A s \in Exclusive : ResolveConflicts(p)[s] = kept(s)
  BY Names DEF ResolveConflicts
<1>2. ResolveConflicts(p)["bump_v4"] = p["bump_v4"] \intersect kept("authenticated_v4")
  BY Names DEF ResolveConflicts
<1>3. \A s, t \in Exclusive : s # t => kept(s) \intersect kept(t) = {}
  OBVIOUS
<1>4. "authenticated_v4" \in Exclusive
  BY Names
<1>5. QED  BY <1>1, <1>2, <1>3, <1>4

\* Applying a diff against what the kernel holds replaces it by what was desired.
LEMMA DiffReplaces ==
    ASSUME NEW want \in Policy, NEW have \in Policy
    PROVE  [s \in SetName |-> (have[s] \union Reconcile(want, have)[s].add)
                                \ Reconcile(want, have)[s].remove] = want
<1>1. \A s \in SetName : /\ Reconcile(want, have)[s].add = want[s] \ have[s]
                         /\ Reconcile(want, have)[s].remove = have[s] \ want[s]
  BY DEF Reconcile
<1>2. \A s \in SetName : (have[s] \union (want[s] \ have[s])) \ (have[s] \ want[s]) = want[s]
  OBVIOUS
<1>3. want = [s \in SetName |-> want[s]]
  BY DEF Policy
<1>4. QED  BY <1>1, <1>2, <1>3

\* What ApplyDiffs does to the kernel and to the flush list.
LEMMA ApplyEffect ==
    ASSUME Typed, Rounds, ApplyDiffs
    PROVE  /\ taken \in Policy
           /\ kernel' = ResolveConflicts(taken)
           /\ kernel' \in Policy
           /\ todo' = (kernel'["unauthenticated_v4"] \ kernel["unauthenticated_v4"])
                      \union (kernel'["quarantine_v4"] \ kernel["quarantine_v4"])
           /\ todo' \subseteq Ip
<1> DEFINE want == ResolveConflicts(taken)
<1>1. taken \in Policy /\ kernel \in Policy
  BY DEF Typed, Rounds, ApplyDiffs
<1>2. want \in Policy
  BY <1>1, ResolveIsPolicy
<1>3. kernel' = [s \in SetName |-> (kernel[s] \union Reconcile(want, kernel)[s].add)
                                     \ Reconcile(want, kernel)[s].remove]
  BY DEF ApplyDiffs
<1> HIDE DEF want
<1>4. kernel' = want
  BY <1>1, <1>2, <1>3, DiffReplaces
<1>5. todo' = ToFlush(Reconcile(want, kernel))
  BY DEF ApplyDiffs, want
<1>6. todo' = (want["unauthenticated_v4"] \ kernel["unauthenticated_v4"])
              \union (want["quarantine_v4"] \ kernel["quarantine_v4"])
  BY <1>5, Names DEF ToFlush, Reconcile
<1>7. want["unauthenticated_v4"] \subseteq Ip /\ want["quarantine_v4"] \subseteq Ip
  BY <1>2, Names DEF Policy
<1>8. QED  BY <1>1, <1>2, <1>4, <1>6, <1>7 DEF want

-----------------------------------------------------------------------------
(* The invariant                                                           *)

LEMMA InitInv == Init => IInv
<1> SUFFICES ASSUME Init PROVE IInv
  OBVIOUS
<1>1. Empty \in Policy /\ \A s \in SetName : Empty[s] = {}
  BY DEF Empty, Policy
<1>2. Typed
  BY <1>1 DEF Init, Typed
<1>3. Rounds
  BY DEF Init, Rounds
<1>4. KernelDisjoint
  BY <1>1, Names DEF Init, KernelDisjoint
<1>5. RevokedFlowsAreFlushed /\ RunningMeansApplied
  BY DEF Init, RevokedFlowsAreFlushed, RunningMeansApplied
<1>6. QED  BY <1>2, <1>3, <1>4, <1>5 DEF IInv

\* Steps outside the manager and the connections leave what the invariant reads.
LEMMA OutsideInv ==
    ASSUME IInv, UNCHANGED <<manager, kernel, marked, missed>>,
           computed' \in Policy \union {None}, published' \in Policy \union {None}
    PROVE  IInv'
BY DEF IInv, Typed, Rounds, KernelDisjoint, RevokedFlowsAreFlushed, RunningMeansApplied,
       Restricted, manager

\* Steps of the manager that leave the kernel and have nothing to flush.
LEMMA IdleInv ==
    ASSUME IInv, pc' \in {"down", "idle", "read"}, todo' = {},
           taken' \in Policy \union {None},
           pc' = "read" => taken' # None,
           missed' \subseteq Ip, missed \union todo \subseteq missed',
           UNCHANGED <<computed, published, kernel, marked>>,
           RunningMeansApplied'
    PROVE  IInv'
<1>1. Typed' /\ Rounds' /\ KernelDisjoint'
  BY DEF IInv, Typed, Rounds, KernelDisjoint
<1>2. RevokedFlowsAreFlushed'
  BY DEF IInv, RevokedFlowsAreFlushed, Restricted
<1>3. QED  BY <1>1, <1>2 DEF IInv

LEMMA ApplyDiffsInv ==
    ASSUME IInv, ApplyDiffs
    PROVE  IInv'
<1> USE DEF IInv
<1>1. /\ taken \in Policy /\ kernel' = ResolveConflicts(taken) /\ kernel' \in Policy
      /\ todo' = (kernel'["unauthenticated_v4"] \ kernel["unauthenticated_v4"])
                 \union (kernel'["quarantine_v4"] \ kernel["quarantine_v4"])
      /\ todo' \subseteq Ip
  BY ApplyEffect
<1>2. /\ pc' = "flush" /\ taken # None
      /\ missed' = (missed \intersect Restricted(kernel')) \ todo'
      /\ UNCHANGED <<computed, published, taken, marked>>
  BY DEF ApplyDiffs, Rounds
<1>3. Typed'
  BY <1>1, <1>2 DEF Typed
<1>4. Rounds' /\ RunningMeansApplied'
  BY <1>1, <1>2 DEF Rounds, RunningMeansApplied
<1>5. KernelDisjoint'
  BY <1>1, ResolveSeparates DEF KernelDisjoint
<1>6. RevokedFlowsAreFlushed'
  <2> SUFFICES ASSUME NEW i \in marked', i \in Restricted(kernel'), i \notin todo'
               PROVE  i \in missed'
    BY DEF RevokedFlowsAreFlushed, Restricted
  <2>1. i \in Restricted(kernel)
    BY <1>1 DEF Restricted
  <2>2. todo = {}
    BY DEF ApplyDiffs, Rounds
  <2>3. i \in missed
    BY <1>2, <2>1, <2>2 DEF RevokedFlowsAreFlushed
  <2>4. QED  BY <1>2, <2>3
<1>7. QED  BY <1>3, <1>4, <1>5, <1>6

LEMMA FlushInv ==
    ASSUME IInv, NEW i \in Ip, Flush(i) \/ FlushFails(i)
    PROVE  IInv'
<1>1. /\ pc = "flush" /\ pc' = pc
      /\ todo' = todo \ {i}
      /\ marked' \subseteq marked /\ missed' \subseteq missed \union {i} /\ missed \subseteq missed'
      /\ i \notin marked' \/ i \in missed'
      /\ UNCHANGED <<computed, published, taken, kernel>>
  BY DEF Flush, FlushFails
<1>2. Typed' /\ Rounds' /\ KernelDisjoint' /\ RunningMeansApplied'
  BY <1>1 DEF IInv, Typed, Rounds, KernelDisjoint, RunningMeansApplied
<1>3. RevokedFlowsAreFlushed'
  BY <1>1 DEF IInv, RevokedFlowsAreFlushed, Restricted
<1>4. QED  BY <1>2, <1>3 DEF IInv

LEMMA StopInv ==
    ASSUME IInv, Stop
    PROVE  IInv'
<1>1. Empty \in Policy /\ \A s \in SetName : Empty[s] = {}
  BY DEF Empty, Policy
<1>2. /\ kernel' = Empty /\ pc' = "down" /\ todo = {} /\ missed' = {} /\ taken' = None
      /\ UNCHANGED <<computed, published, todo, marked>>
  BY DEF IInv, Rounds, Stop
<1>3. Restricted(kernel') = {} /\ KernelDisjoint'
  BY <1>1, <1>2, Names DEF Restricted, KernelDisjoint
<1>4. Typed' /\ Rounds' /\ RunningMeansApplied'
  BY <1>1, <1>2 DEF IInv, Typed, Rounds, RunningMeansApplied
<1>5. RevokedFlowsAreFlushed'
  BY <1>3 DEF RevokedFlowsAreFlushed, Restricted
<1>6. QED  BY <1>3, <1>4, <1>5 DEF IInv

LEMMA OpenFlowInv ==
    ASSUME IInv, NEW i \in Ip, OpenFlow(i)
    PROVE  IInv'
<1>1. i \notin Restricted(kernel)
  BY Names DEF IInv, KernelDisjoint, OpenFlow, Permitted, Restricted
<1>2. /\ marked' = marked \union {i}
      /\ UNCHANGED <<computed, published, pc, taken, todo, nftMode, kernel, missed>>
  BY DEF OpenFlow, manager
<1>3. Typed' /\ Rounds' /\ KernelDisjoint' /\ RunningMeansApplied'
  BY <1>2 DEF IInv, Typed, Rounds, KernelDisjoint, RunningMeansApplied
<1>4. RevokedFlowsAreFlushed'
  BY <1>1, <1>2 DEF IInv, RevokedFlowsAreFlushed, Restricted
<1>5. QED  BY <1>3, <1>4 DEF IInv

LEMMA CloseFlowInv ==
    ASSUME IInv, NEW i \in Ip, CloseFlow(i)
    PROVE  IInv'
BY DEF IInv, Typed, Rounds, KernelDisjoint, RevokedFlowsAreFlushed, RunningMeansApplied,
       Restricted, CloseFlow, manager

\* Every step preserves the invariant.
LEMMA NextInv ==
    ASSUME IInv, [Next]_vars
    PROVE  IInv'
<1>a. /\ computed \in Policy \union {None} /\ published \in Policy \union {None}
      /\ taken \in Policy \union {None} /\ missed \subseteq Ip /\ todo \subseteq Ip
  BY DEF IInv, Typed
<1>1. CASE \E d \in Device : DeleteDevice(d)
  <2>1. UNCHANGED <<computed, published, manager, kernel, marked, missed>>
    BY <1>1 DEF DeleteDevice
  <2>2. QED  BY <2>1, <1>a, OutsideInv
<1>2. CASE \E d \in Device, f \in Flag : EditDevice(d, f)
  <2>1. UNCHANGED <<computed, published, manager, kernel, marked, missed>>
    BY <1>2 DEF EditDevice
  <2>2. QED  BY <2>1, <1>a, OutsideInv
<1>3. CASE \E d \in Device, i \in Ip : Sighting(d, i)
  <2>1. UNCHANGED <<computed, published, manager, kernel, marked, missed>>
    BY <1>3 DEF Sighting
  <2>2. QED  BY <2>1, <1>a, OutsideInv
<1>4. CASE Compute
  BY <1>4, <1>a, DesiredIsPolicy, OutsideInv DEF Compute
<1>5. CASE Write
  BY <1>5, <1>a, OutsideInv DEF Write
<1>6. CASE WriteFails
  BY <1>6, <1>a, OutsideInv DEF WriteFails
<1>7. CASE LoseRow
  BY <1>7, <1>a, OutsideInv DEF LoseRow
<1>8. CASE Start
  <2>1. RunningMeansApplied'
    BY <1>8 DEF Start, RunningMeansApplied
  <2>2. todo = {}
    BY <1>8 DEF Start, IInv, Rounds
  <2>3. QED  BY <1>8, <1>a, <2>1, <2>2, IdleInv DEF Start
<1>9. CASE ReadDesired
  <2>1. RunningMeansApplied'
    BY <1>9 DEF ReadDesired, Report, RunningMeansApplied
  <2>2. todo = {}
    BY <1>9 DEF ReadDesired, IInv, Rounds
  <2>3. pc' \in {"idle", "read"} /\ (pc' = "read" => taken' # None)
    BY <1>9 DEF ReadDesired, Report
  <2>4. QED  BY <1>9, <1>a, <2>1, <2>2, <2>3, IdleInv DEF ReadDesired
<1>10. CASE ReadFails \/ ApplyFails
  <2>1. /\ pc' = "idle" /\ RunningMeansApplied' /\ todo = {}
        /\ UNCHANGED <<computed, published, taken, kernel, todo, marked, missed>>
    BY <1>10 DEF ReadFails, ApplyFails, Report, RunningMeansApplied, IInv, Rounds
  <2>2. QED  BY <1>a, <2>1, IdleInv
<1>11. CASE ApplyDiffs
  BY <1>11, ApplyDiffsInv
<1>12. CASE \E i \in Ip : Flush(i) \/ FlushFails(i)
  BY <1>12, FlushInv
<1>13. CASE Finish
  <2>1. RunningMeansApplied' /\ todo = {} /\ pc' = "idle"
    BY <1>13 DEF Finish, Report, RunningMeansApplied, IInv, Rounds
  <2>2. QED  BY <1>13, <1>a, <2>1, IdleInv DEF Finish
<1>14. CASE Crash
  <2>1. RunningMeansApplied'
    BY <1>14 DEF Crash, RunningMeansApplied
  <2>2. QED  BY <1>14, <1>a, <2>1, IdleInv DEF Crash
<1>15. CASE Stop
  BY <1>15, StopInv
<1>16. CASE \E i \in Ip : OpenFlow(i) \/ CloseFlow(i)
  BY <1>16, OpenFlowInv, CloseFlowInv
<1>17. CASE UNCHANGED vars
  BY <1>17, <1>a, OutsideInv DEF vars
<1>18. QED
  BY <1>1, <1>2, <1>3, <1>4, <1>5, <1>6, <1>7, <1>8, <1>9, <1>10, <1>11, <1>12, <1>13,
     <1>14, <1>15, <1>16, <1>17 DEF Next

LEMMA Invariance == Spec => []IInv
<1>1. Init => IInv
  BY InitInv
<1>2. IInv /\ [Next]_vars => IInv'
  BY NextInv
<1>3. QED  BY <1>1, <1>2, PTL DEF Spec

-----------------------------------------------------------------------------
(* The theorems                                                            *)

\* No address is ever in two of the four sets, nor in bump without being
\* authenticated, however many devices share it (ResolveConflicts, ApplyDiffs).
THEOREM SetsAreDisjoint == Spec => []KernelDisjoint
<1>1. IInv => KernelDisjoint
  BY DEF IInv
<1>2. QED  BY <1>1, Invariance, PTL

\* Every open connection of a restricted address is one the manager is about to drop
\* or whose flush was lost (FlushConntrackForReclassifiedDevices).
THEOREM RevokedFlowsAreCounted == Spec => []RevokedFlowsAreFlushed
<1>1. IInv => RevokedFlowsAreFlushed
  BY DEF IInv
<1>2. QED  BY <1>1, Invariance, PTL

\* "running" between rounds means the policy in hand is enforced (WriteHealth).
THEOREM RunningIsHonest == Spec => []RunningMeansApplied
<1>1. IInv => RunningMeansApplied
  BY DEF IInv
<1>2. QED  BY <1>1, Invariance, PTL

\* The rows of the devices, and what no step of the proof above reads.
Rows ==
    /\ flags \in [Device -> SUBSET Flag]
    /\ known \in [Device -> SUBSET Ip] /\ active \in [Device -> SUBSET Ip]
    /\ nftMode \in {"none", "running", "fail_open"}
    /\ spent \in [DOMAIN Bound -> Nat]

LEMMA SightingRows ==
    ASSUME Rows, NEW d \in Device, NEW i \in Ip, Sighting(d, i)
    PROVE  known' \in [Device -> SUBSET Ip] /\ active' \in [Device -> SUBSET Ip]
<1>1. known' \in [Device -> SUBSET Ip]
  BY DEF Sighting, Rows
<1>2. CASE active' = [active EXCEPT ![d] = @ \union {i}]
  BY <1>1, <1>2 DEF Rows
<1>3. CASE \E loser, old : active' = [o \in Device |->
                             IF o = d THEN (active[d] \ {old}) \union {i}
                             ELSE IF o = loser THEN active[o] \ {i} ELSE active[o]]
  BY <1>1, <1>3 DEF Rows
<1> QED  BY <1>2, <1>3 DEF Sighting

LEMMA RowsKeep == ASSUME Rows, [Next]_vars PROVE Rows'
<1>1. ASSUME NEW k \in DOMAIN Bound, Spend(k) PROVE spent' \in [DOMAIN Bound -> Nat]
  BY <1>1 DEF Spend, Rows
<1>2. DOMAIN Bound = {"edits", "sightings", "errors", "crashes", "stops", "losses"}
  BY DEF Bound
<1>3. ASSUME NEW d \in Device, DeleteDevice(d) \/ \E f \in Flag : EditDevice(d, f) PROVE Rows'
  BY <1>1, <1>2, <1>3 DEF DeleteDevice, EditDevice, Rows, manager
<1>4. ASSUME NEW d \in Device, NEW i \in Ip, Sighting(d, i) PROVE Rows'
  BY <1>1, <1>2, <1>4, SightingRows DEF Sighting, Rows, manager
<1>5. CASE Compute \/ Write \/ WriteFails \/ LoseRow
  BY <1>1, <1>2, <1>5 DEF Compute, Write, WriteFails, LoseRow, Rows, manager, db
<1>6. CASE Start \/ ReadDesired \/ ReadFails \/ ApplyDiffs \/ ApplyFails \/ Finish \/ Crash \/ Stop
  BY <1>1, <1>2, <1>6 DEF Start, ReadDesired, ReadFails, ApplyDiffs, ApplyFails, Finish, Crash, Stop,
       Report, Rows, db
<1>7. CASE \E i \in Ip : Flush(i) \/ FlushFails(i) \/ OpenFlow(i) \/ CloseFlow(i)
  BY <1>1, <1>2, <1>7 DEF Flush, FlushFails, OpenFlow, CloseFlow, Rows, db, manager
<1>8. CASE UNCHANGED vars
  BY <1>8 DEF vars, db, manager, Rows
<1> QED  BY <1>3, <1>4, <1>5, <1>6, <1>7, <1>8 DEF Next

\* The rows, the policies on their way, the kernel's sets and the connections keep their types.
THEOREM TypeCorrect == Spec => []TypeOK
<1>1. Init => Rows
  BY DEF Init, Rows
<1>2. Spec => []Rows
  BY <1>1, RowsKeep, PTL DEF Spec
<1>3. IInv /\ Rows => TypeOK
  BY DEF IInv, Typed, Rows, TypeOK
<1> QED  BY <1>2, <1>3, Invariance, PTL

-----------------------------------------------------------------------------
(* The refinement                                                          *)

\* A step of the pipeline is a step of the atomic policy, or leaves it alone.
LEMMA StepRefines ==
    ASSUME IInv, [Next]_vars
    PROVE  [Abstract!Next]_(Abstract!vars)
<1> USE DEF Abstract!Next, Abstract!vars
<1>1. CASE UNCHANGED <<published, taken, kernel>>
  BY <1>1
<1>2. CASE Write
  BY <1>2 DEF Write, manager, IInv, Typed, Abstract!Publish
<1>3. CASE LoseRow
  BY <1>3 DEF LoseRow, manager, Abstract!Publish
<1>4. CASE Start \/ ReadDesired
  BY <1>4 DEF Start, ReadDesired, Abstract!Take
<1>5. CASE ApplyDiffs
  <2>1. kernel' = ResolveConflicts(taken)
    BY <1>5, ApplyEffect DEF IInv
  <2>2. taken # None /\ UNCHANGED <<published, taken>>
    BY <1>5 DEF ApplyDiffs, IInv, Rounds
  <2>3. QED  BY <2>1, <2>2 DEF Abstract!Enforce
<1>6. CASE Stop
  BY <1>6 DEF Stop, Abstract!Withdraw
<1>7. QED
  <2>1. \/ UNCHANGED <<published, taken, kernel>> \/ Write \/ LoseRow
        \/ Start \/ ReadDesired \/ ApplyDiffs \/ Stop
    BY DEF Next, vars, db, manager, DeleteDevice, EditDevice, Sighting, Compute, WriteFails,
           ReadFails, ApplyFails, Flush, FlushFails, Finish, Crash, OpenFlow, CloseFlow
  <2>2. QED  BY <2>1, <1>1, <1>2, <1>3, <1>4, <1>5, <1>6

\* nftables-manager, with everything that can fail around it, implements AtomicPolicy:
\* whole policies only, in the order published, never an empty one for a missing one.
THEOREM PipelineIsAtomic == Spec => ImplementsAtomicPolicy
<1>1. Init => Abstract!Init
  BY DEF Init, Abstract!Init
<1>2. QED
  BY <1>1, StepRefines, Invariance, PTL DEF Spec, ImplementsAtomicPolicy, Abstract!Spec
=============================================================================
