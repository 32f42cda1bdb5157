--------------------------- MODULE PolicyPipeline ---------------------------
(***************************************************************************)
(* How a device's row becomes firewall behaviour.  The controller computes *)
(* a policy from the devices and their bindings and writes it to           *)
(* interception_runtime (compute_desired_policy, write_desired_policy);    *)
(* nftables-manager reads it on its own clock, resolves conflicts, diffs   *)
(* it against the kernel's sets, applies the diff in one transaction and   *)
(* then drops the conntrack state of the addresses it restricted.          *)
(*                                                                         *)
(* The two processes share only the database row.  Either may fail or be   *)
(* killed between any two steps; the kernel's sets and its open            *)
(* connections outlive both.                                               *)
(***************************************************************************)
EXTENDS Integers, Sequences, FiniteSets

CONSTANTS Device, Ip,
          Flag,             \* the row fields a run lets change, of the seven below
          None,             \* desired_policy_json is NULL or its row is missing
          MaxEdits,         \* bound: changes of a device's fields
          MaxSightings,     \* bound: (device, address) observations
          MaxErrors,        \* bound: failed reads, writes, transactions and flushes
          MaxCrashes,       \* bound: nftables-manager killed
          MaxStops,         \* bound: nftables-manager stopped by a signal
          MaxLosses,        \* bound: the policy row lost (a restored database)
          MaxMishaps        \* bound: errors, crashes, stops and losses together

ASSUME NoneIsNoPolicy == None \notin [{"bypass_v4", "authenticated_v4", "unauthenticated_v4",
                                       "quarantine_v4", "bump_v4"} -> SUBSET Ip]

VARIABLES flags,        \* [Device -> SUBSET Flag]: the fields of the row that are set
          known,        \* [Device -> SUBSET Ip]: addresses it has a binding row for
          active,       \* [Device -> SUBSET Ip]: ... whose active column is 1
          computed,     \* the policy compute_desired_policy returned, not yet written
          published,    \* interception_runtime.desired_policy_json
          pc,           \* where nftables-manager is in reconcileOnce
          taken,        \* the policy its last read returned
          kernel,       \* [SetName -> SUBSET Ip]: the live set elements
          todo,         \* addresses FlushConntrackForReclassifiedDevices has left
          marked,       \* addresses with an open connection carrying ct mark 0x1
          missed,       \* history: restricted addresses whose flush never happened
          nftMode,      \* interception_runtime.nft_mode
          spent         \* how much of each bound is used up

db == <<flags, known, active>>
manager == <<pc, taken, todo, nftMode>>
vars == <<db, computed, published, manager, kernel, marked, missed, spent>>

AllSetNames == <<"bypass_v4", "authenticated_v4", "unauthenticated_v4", "quarantine_v4">>
Exclusive == {AllSetNames[n] : n \in 1..4}
SetName == Exclusive \union {"bump_v4"}
Policy == [SetName -> SUBSET Ip]
Empty == [s \in SetName |-> {}]
Bound == [edits |-> MaxEdits, sightings |-> MaxSightings, errors |-> MaxErrors,
          crashes |-> MaxCrashes, stops |-> MaxStops, losses |-> MaxLosses]

Mishap == {"errors", "crashes", "stops", "losses"}
Mishaps == spent.errors + spent.crashes + spent.stops + spent.losses

Spend(k) == /\ spent[k] < Bound[k] /\ (k \in Mishap => Mishaps < MaxMishaps)
            /\ spent' = [spent EXCEPT ![k] = @ + 1]

Init ==
    /\ flags = [d \in Device |-> {}]
    /\ known = [d \in Device |-> {}] /\ active = [d \in Device |-> {}]
    /\ computed = None /\ published = None
    /\ pc = "down" /\ taken = None /\ todo = {} /\ nftMode = "none"
    /\ kernel = Empty /\ marked = {} /\ missed = {}
    /\ spent = [k \in DOMAIN Bound |-> 0]

-----------------------------------------------------------------------------
(* The policy of a device, and of the network                              *)

\* classify_device: which of the four classes a row is in, highest first.
ClassifyDevice(row) ==
    IF row \intersect {"ignored", "group_ignored"} # {} THEN "bypass_v4"
    ELSE IF "quarantined_at" \in row THEN "quarantine_v4"
    ELSE IF row \intersect {"is_authenticated", "bypass_login"} # {} THEN "authenticated_v4"
    ELSE "unauthenticated_v4"

\* ... overlaid by a lockout_all schedule, which spares only BYPASS.
FinalClass(row) ==
    IF "lockout_all" \in row /\ ClassifyDevice(row) # "bypass_v4" THEN "quarantine_v4"
    ELSE ClassifyDevice(row)

BumpEligible(row) == "bump_enabled" \in row /\ ClassifyDevice(row) = "authenticated_v4"

InSet(row, s) == IF s = "bump_v4" THEN FinalClass(row) = "authenticated_v4" /\ BumpEligible(row)
                 ELSE FinalClass(row) = s

\* compute_desired_policy: every active address of every device.
DesiredPolicy ==
    [s \in SetName |-> {i \in Ip : \E d \in Device : i \in active[d] /\ InSet(flags[d], s)}]

\* The highest-priority of the four sets that ask for an address.
Winner(policy, i) ==
    CHOOSE n \in 1..4 : i \in policy[AllSetNames[n]] /\ \A k \in 1..(n-1) : i \notin policy[AllSetNames[k]]

Asked(policy) == UNION {policy[s] : s \in Exclusive}

\* Mutant: an address that two classes ask for is left in both.
ResolveBoth(policy) ==
    [s \in SetName |-> IF s = "bump_v4" THEN policy[s] \intersect policy["authenticated_v4"]
                       ELSE policy[s]]

\* ResolveConflicts: an address stays only in the first set that asks for it, and
\* in bump only if it stayed in authenticated.
ResolveConflicts(policy) ==
    LET kept(s) == {i \in Asked(policy) : AllSetNames[Winner(policy, i)] = s}
    IN  [s \in SetName |-> IF s = "bump_v4" THEN policy[s] \intersect kept("authenticated_v4")
                           ELSE kept(s)]

\* Reconcile: what each set gains and loses.
Reconcile(desired, actual) ==
    [s \in SetName |-> [add |-> desired[s] \ actual[s], remove |-> actual[s] \ desired[s]]]

\* Mutant: the flush looks at quarantine only.
ToFlushQuarantined(diffs) == diffs["quarantine_v4"].add

\* FlushConntrackForReclassifiedDevices: what a round has to flush.
ToFlush(diffs) == diffs["unauthenticated_v4"].add \union diffs["quarantine_v4"].add

Restricted(sets) == sets["unauthenticated_v4"] \union sets["quarantine_v4"]

-----------------------------------------------------------------------------
(* The dashboard, the portal, the schedules and discovery change rows      *)

\* A route, a login or the clock flips one field of a device.
EditDevice(d, f) ==
    /\ Spend("edits")
    /\ flags' = [flags EXCEPT ![d] = IF f \in @ THEN @ \ {f} ELSE @ \union {f}]
    /\ UNCHANGED <<known, active, computed, published, manager, kernel, marked, missed>>

\* delete_device: the bindings stay, orphaned; every field of the join reads NULL.
DeleteDevice(d) ==
    /\ Spend("edits")
    /\ flags[d] # {} /\ flags' = [flags EXCEPT ![d] = {}]
    /\ UNCHANGED <<known, active, computed, published, manager, kernel, marked, missed>>

\* record_binding: a pair with a row is only reactivated; a new pair deactivates one
\* row of the address and one row of the device.
Sighting(d, i) ==
    /\ Spend("sightings")
    /\ known' = [known EXCEPT ![d] = @ \union {i}]
    /\ \/ /\ i \in known[d]
          /\ active' = [active EXCEPT ![d] = @ \union {i}]
       \/ /\ i \notin known[d]
          /\ \E loser \in IF \E o \in Device : i \in active[o] THEN {o \in Device : i \in active[o]} ELSE {d},
                old \in IF active[d] = {} THEN {i} ELSE active[d] :
                active' = [o \in Device |->
                             IF o = d THEN (active[d] \ {old}) \union {i}
                             ELSE IF o = loser THEN active[o] \ {i} ELSE active[o]]
    /\ UNCHANGED <<flags, computed, published, manager, kernel, marked, missed>>

-----------------------------------------------------------------------------
(* The controller                                                          *)

Compute ==
    /\ computed = None /\ computed' = DesiredPolicy
    /\ UNCHANGED <<db, published, manager, kernel, marked, missed, spent>>

\* Mutant: the row is inserted once and never updated.
WriteOnce ==
    /\ computed # None
    /\ published' = IF published = None THEN computed ELSE published
    /\ computed' = None
    /\ UNCHANGED <<db, manager, kernel, marked, missed, spent>>

\* write_desired_policy, in the cycle's one transaction.
Write ==
    /\ computed # None
    /\ published' = computed /\ computed' = None
    /\ UNCHANGED <<db, manager, kernel, marked, missed, spent>>

\* The cycle raises before the commit: a locked database, a restart.
WriteFails ==
    /\ computed # None /\ computed' = None
    /\ Spend("errors")
    /\ UNCHANGED <<db, published, manager, kernel, marked, missed>>

\* The row or its column goes missing under a running system.
LoseRow ==
    /\ Spend("losses")
    /\ published # None /\ published' = None
    /\ UNCHANGED <<db, computed, manager, kernel, marked, missed>>

-----------------------------------------------------------------------------
(* nftables-manager                                                        *)

\* Started by its supervisor: EnsureBaseline leaves the elements of existing sets.
Start ==
    /\ pc = "down" /\ pc' = "idle"
    /\ taken' = None
    /\ UNCHANGED <<db, computed, published, kernel, todo, nftMode, marked, missed, spent>>

\* The end of a cycle: WriteHealth and back to the select.
Report(mode) == pc' = "idle" /\ nftMode' = mode

\* Mutant: a missing policy is read as one that is empty.
ReadMissingAsEmpty ==
    /\ pc = "idle" /\ pc' = "read"
    /\ taken' = IF published = None THEN Empty ELSE published
    /\ UNCHANGED <<db, computed, published, kernel, todo, nftMode, marked, missed, spent>>

\* ReadDesiredPolicy; a missing policy holds the kernel and reports running.
ReadDesired ==
    /\ pc = "idle"
    /\ taken' = published
    /\ \/ published = None /\ Report("running")
       \/ published # None /\ pc' = "read" /\ UNCHANGED nftMode
    /\ UNCHANGED <<db, computed, published, kernel, todo, marked, missed, spent>>

ReadFails ==
    /\ pc = "idle" /\ Spend("errors")
    /\ Report("fail_open")
    /\ UNCHANGED <<db, computed, published, taken, kernel, todo, marked, missed>>

\* ReadActual, Reconcile and ApplyDiffs: only this process changes the sets, so what
\* it reads is what its one transaction replaces.
ApplyDiffs ==
    LET diffs == Reconcile(ResolveConflicts(taken), kernel)
    IN  /\ pc = "read"
        /\ kernel' = [s \in SetName |-> (kernel[s] \union diffs[s].add) \ diffs[s].remove]
        /\ todo' = ToFlush(diffs)
        /\ missed' = (missed \intersect Restricted(kernel')) \ todo'
        /\ pc' = "flush"
        /\ UNCHANGED <<db, computed, published, taken, marked, nftMode, spent>>

\* Mutant: the cycle's error is not reported.
ApplyFailsQuietly ==
    /\ pc = "read" /\ Spend("errors")
    /\ Report("running")
    /\ UNCHANGED <<db, computed, published, taken, kernel, todo, marked, missed>>

\* Listing the elements or the transaction fails: nothing of it lands.
ApplyFails ==
    /\ pc = "read" /\ Spend("errors")
    /\ Report("fail_open")
    /\ UNCHANGED <<db, computed, published, taken, kernel, todo, marked, missed>>

\* FlushConntrackForSource for the next address of the round.
Flush(i) ==
    /\ pc = "flush" /\ i \in todo
    /\ todo' = todo \ {i}
    /\ marked' = marked \ {i}
    /\ UNCHANGED <<db, computed, published, pc, taken, kernel, missed, nftMode, spent>>

\* ... failed: a warning, and the round goes on.
FlushFails(i) ==
    /\ pc = "flush" /\ i \in todo /\ Spend("errors")
    /\ todo' = todo \ {i}
    /\ missed' = missed \union {i}
    /\ UNCHANGED <<db, computed, published, pc, taken, kernel, marked, nftMode>>

Finish ==
    /\ pc = "flush" /\ todo = {}
    /\ Report("running")
    /\ UNCHANGED <<db, computed, published, taken, kernel, todo, marked, missed, spent>>

\* Killed at any point: the sets stay, what was left to flush is forgotten.
Crash ==
    /\ pc # "down" /\ Spend("crashes")
    /\ pc' = "down" /\ todo' = {}
    /\ missed' = missed \union todo
    /\ UNCHANGED <<db, computed, published, taken, kernel, marked, nftMode>>

\* SIGTERM is seen between cycles only: Teardown deletes the table.
Stop ==
    /\ pc = "idle" /\ Spend("stops")
    /\ pc' = "down" /\ taken' = None
    /\ kernel' = Empty /\ missed' = {}
    /\ UNCHANGED <<db, computed, published, todo, marked, nftMode>>

-----------------------------------------------------------------------------
(* Connections through the box: marked in prerouting on their first packet *)

Permitted == kernel["bypass_v4"] \union kernel["authenticated_v4"]

OpenFlow(i) ==
    /\ i \in Permitted /\ marked' = marked \union {i}
    /\ UNCHANGED <<db, computed, published, manager, kernel, missed, spent>>

CloseFlow(i) ==
    /\ i \in marked /\ marked' = marked \ {i}
    /\ UNCHANGED <<db, computed, published, manager, kernel, missed, spent>>

-----------------------------------------------------------------------------
Next ==
    \/ \E d \in Device : DeleteDevice(d)
    \/ \E d \in Device, f \in Flag : EditDevice(d, f)
    \/ \E d \in Device, i \in Ip : Sighting(d, i)
    \/ Compute \/ Write \/ WriteFails \/ LoseRow
    \/ Start \/ ReadDesired \/ ReadFails \/ ApplyDiffs \/ ApplyFails
    \/ \E i \in Ip : Flush(i) \/ FlushFails(i)
    \/ Finish \/ Crash \/ Stop
    \/ \E i \in Ip : OpenFlow(i) \/ CloseFlow(i)

Spec == Init /\ [][Next]_vars

\* The controller's loop and the manager's ticker keep running, and the supervisor
\* restarts a manager that is down.  Connections and rows owe nothing.
FairSpec ==
    /\ Spec
    /\ WF_vars(Compute) /\ WF_vars(Write)
    /\ WF_vars(Start) /\ WF_vars(ReadDesired) /\ WF_vars(ApplyDiffs)
    /\ WF_vars(\E i \in Ip : Flush(i)) /\ WF_vars(Finish)

-----------------------------------------------------------------------------
(* Properties                                                              *)

\* Every variable stays within its type.
TypeOK ==
    /\ flags \in [Device -> SUBSET Flag]
    /\ known \in [Device -> SUBSET Ip] /\ active \in [Device -> SUBSET Ip]
    /\ computed \in Policy \union {None} /\ published \in Policy \union {None}
    /\ taken \in Policy \union {None} /\ kernel \in Policy
    /\ pc \in {"down", "idle", "read", "flush"}
    /\ nftMode \in {"none", "running", "fail_open"}
    /\ todo \subseteq Ip /\ marked \subseteq Ip /\ missed \subseteq Ip
    /\ spent \in [DOMAIN Bound -> Nat]

\* Whatever the rows say and whoever shares an address, no address is ever in two of
\* the four exclusive sets, and Squid only sees addresses that are authenticated.
KernelDisjoint ==
    /\ \A s, t \in Exclusive : s # t => kernel[s] \intersect kernel[t] = {}
    /\ kernel["bump_v4"] \subseteq kernel["authenticated_v4"]

\* A connection that was opened while its address was permitted and is still open
\* after the address is restricted is one the manager is about to drop, or one whose
\* flush failed or was lost: nothing else lets a revoked device keep talking.
RevokedFlowsAreFlushed == marked \intersect Restricted(kernel) \subseteq todo \union missed

\* Between rounds, "running" with a policy in hand means the kernel holds exactly
\* that policy: no error path, restart or partial round reports success.
RunningMeansApplied ==
    pc = "idle" /\ nftMode = "running" /\ taken # None => kernel = ResolveConflicts(taken)

\* The manager implements the atomic policy: whole policies, in the order they were
\* published, and never an empty one in place of a missing one.
Abstract == INSTANCE AtomicPolicy WITH Resolve <- ResolveConflicts, enforced <- kernel
ImplementsAtomicPolicy == Abstract!Spec

\* Once rows and bindings are left alone, the kernel comes to enforce them, whatever
\* crashes, failed transactions and lost rows came before.
Converges == <>[](kernel = ResolveConflicts(DesiredPolicy))
=============================================================================
