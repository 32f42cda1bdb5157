-------------------------- MODULE ArpWorkerProofs --------------------------
(* TLAPS proofs about ArpWorker, for any hosts, any messages, any number   *)
(* of lease goroutines and any bounds with MaxDrops < Repeats:             *)
(*   TypeCorrect       Spec => []TypeOK                                    *)
(*   PoisonIsCovered   Spec => []PoisonCovered                             *)
(*   ExpiryIsFinal     Spec => []ExpiryDropsGeneration                     *)
(*   KeptStayPoisoned  Spec => SwitchKeepsPoison                           *)
EXTENDS ArpWorker, TLAPS

-----------------------------------------------------------------------------
(* Type correctness.                                                       *)

\* The stages of an ApplyGeneration that has swapped its generation in.
Applying == {"cancel", "wait", "correct", "start"}

\* Who may be where, and that a goroutine which waits holds a real generation:
\* what the type invariant needs to be inductive.
Shape ==
    /\ \A th \in Thread : pc[th] \in {"cancel", "wait"} => job[th].prev \in Gen
    /\ \A th \in Thread : job[th].task = "apply" => th = Handler
    /\ \A th \in Thread : pc[th] = "start" => th = Handler /\ job[th].task = "apply"
    /\ \A th \in Thread : pc[th] = "rearm" => th = Handler
    /\ \A l \in Reaper : pc[l] \in {"idle", "expire", "swap", "cancel", "wait", "correct"}
    /\ (pc[Handler] \in Applying /\ job[Handler].task = "apply") => job[Handler].next \in Gen

TInv == TypeOK /\ Shape

LEMMA PoisonsType == ASSUME NEW G \in Generation PROVE Poisons(G) \subseteq Entry
<1> SUFFICES ASSUME NEW t \in G.targets PROVE EntriesOf(G, t) \subseteq Entry
  BY DEF Poisons
<1>1. t \in Host /\ G.gateway \in Host
  BY DEF Generation
<1> QED  BY <1>1 DEF EntriesOf, Entry

LEMMA RestorationType ==
  ASSUME NEW p \in Generation, NEW n
  PROVE  Restoration(p, n) \subseteq Entry
<1> DEFINE q == [p EXCEPT !.targets = {t \in @ : IpOf[t] \notin {IpOf[u] : u \in n.targets}}]
<1>1. q \in Generation
  BY DEF Generation
<1> QED  BY <1>1, PoisonsType DEF Restoration

\* What ValidateTargets lets through is a generation, and names nobody it must not.
LEMMA AcceptedType ==
  ASSUME NEW offer \in Offers
  PROVE  /\ Accepted(offer) \in {G \in Generation : G.targets \cap Protected = {}}
         /\ \A t \in Accepted(offer).targets : IpOf[t] # IpOf[Accepted(offer).gateway]
  BY OfferAssumption DEF Accepted, Generation

LEMMA OfKeptType == ASSUME NEW p \in Generation, NEW n PROVE OfKept(p, n) \subseteq Entry
<1>1. OfKept(p, n) \subseteq Poisons(p)
  BY DEF OfKept, Poisons
<1> QED  BY <1>1, PoisonsType

LEMMA UnbornType == Unborn \in Generation /\ Unborn.targets = {}
<1>1. \E h : h \in Host
  BY OfferAssumption DEF Generation
<1> QED  BY <1>1 DEF Unborn, Generation

\* What a switch does not restore of the old generation it poisoned for a target it keeps.
LEMMA UnrestoredIsOfKept ==
  ASSUME NEW p \in Generation, NEW n, NEW e \in Poisons(p), e \notin Restoration(p, n)
  PROVE  e \in OfKept(p, n)
<1> DEFINE q == [p EXCEPT !.targets = {t \in @ : IpOf[t] \notin {IpOf[u] : u \in n.targets}}]
<1>1. PICK t \in p.targets : e \in EntriesOf(p, t)
  BY DEF Poisons
<1>2. q.gateway = p.gateway /\ q.fullDuplex = p.fullDuplex
      /\ q.targets = {u \in p.targets : IpOf[u] \notin {IpOf[v] : v \in n.targets}}
  BY DEF Generation
<1>3. t \notin q.targets
  BY <1>1, <1>2 DEF Restoration, Poisons, EntriesOf
<1>4. IpOf[t] \in {IpOf[v] : v \in n.targets}
  BY <1>2, <1>3
<1> QED  BY <1>1, <1>4 DEF OfKept

LEMMA InitTInv == Init => TInv
<1> SUFFICES ASSUME Init PROVE TInv
  OBVIOUS
<1> USE BoundAssumption
<1>1. NoJob \in Job
  BY DEF NoJob, Job, NoGen
<1>2. \A th \in Thread : pc[th] = "idle" /\ job[th].task = "shutdown"
  BY DEF Init, NoJob
<1>3. pc \in [Thread -> PC] /\ job \in [Thread -> Job]
  BY <1>1 DEF Init, PC
<1>4. last \in 0..MaxGen /\ drops \in 0..MaxDrops /\ rg \in Gen \cup {NoGen}
  BY DEF Init
<1>5. TypeOK
  BY <1>3, <1>4, UnbornType DEF Init, TypeOK
<1>6. Shape
  BY <1>2 DEF Shape, Thread, Applying
<1> QED  BY <1>5, <1>6 DEF TInv

LEMMA StepTInv == TInv /\ [Next]_vars => TInv'
<1> SUFFICES ASSUME TInv, [Next]_vars PROVE TInv'
  OBVIOUS
<1> USE IpAssumption, ThreadAssumption, BoundAssumption
<1>1. ASSUME NEW offer \in Offers, ApplySwap(offer) PROVE TInv'
  <2> DEFINE new == last + 1
             G == Accepted(offer)
  <2>1. new \in Gen /\ new \in 0..MaxGen
    BY <1>1 DEF ApplySwap, TInv, TypeOK, Gen
  <2>2. G \in {o \in Generation : o.targets \cap Protected = {}}
    BY AcceptedType
  <2>3. ASSUME rg # NoGen
        PROVE  /\ rg \in Gen /\ Restoration(gen[rg], G) \subseteq Entry
               /\ OfKept(gen[rg], G) \subseteq Entry
    BY <2>3, RestorationType, OfKeptType DEF TInv, TypeOK
  <2>9. left' \subseteq Entry
    BY <1>1, <2>3 DEF ApplySwap, TInv, TypeOK
  <2>4. job'[Handler] \in Job /\ job'[Handler].task = "apply" /\ job'[Handler].next = new
        /\ job'[Handler].prev = rg
    BY <1>1, <2>1, <2>3 DEF ApplySwap, TInv, TypeOK, Job, Thread
  <2>5. job' = [job EXCEPT ![Handler] = job'[Handler]]
    BY <1>1 DEF ApplySwap, TInv, TypeOK, Thread
  <2>6. pc'[Handler] = (IF rg = NoGen THEN "start" ELSE "cancel")
        /\ pc' = [pc EXCEPT ![Handler] = pc'[Handler]]
    BY <1>1 DEF ApplySwap, TInv, TypeOK, Thread
  <2>7. TypeOK'
    BY <1>1, <2>1, <2>2, <2>4, <2>5, <2>6, <2>9
       DEF ApplySwap, TInv, TypeOK, Thread, PC, leaseVars
  <2>8. Shape'
    BY <1>1, <2>1, <2>3, <2>4, <2>5, <2>6 DEF TInv, TypeOK, Shape, Thread
  <2> QED  BY <2>7, <2>8 DEF TInv
<1>2. ASSUME NEW th \in Thread, ShutdownSwap(th) PROVE TInv'
  <2>1. ASSUME rg # NoGen PROVE rg \in Gen /\ Poisons(gen[rg]) \subseteq Entry
    BY <2>1, PoisonsType DEF TInv, TypeOK
  <2>2. job'[th] \in Job /\ job'[th].task = "shutdown" /\ job'[th].prev = rg
    BY <1>2, <2>1 DEF ShutdownSwap, TInv, TypeOK, Job
  <2>3. job' = [job EXCEPT ![th] = job'[th]]
    BY <1>2 DEF ShutdownSwap, TInv, TypeOK
  <2>4. pc'[th] = (IF rg # NoGen THEN "cancel" ELSE IF th = Main THEN "exit" ELSE "idle")
        /\ pc' = [pc EXCEPT ![th] = pc'[th]]
    BY <1>2 DEF ShutdownSwap, TInv, TypeOK
  <2>5. TypeOK'
    BY <1>2, <2>2, <2>3, <2>4
       DEF ShutdownSwap, TInv, TypeOK, PC, leaseVars, workerVars
  <2>6. Shape'
    BY <1>2, <2>1, <2>2, <2>3, <2>4
       DEF ShutdownSwap, TInv, TypeOK, Shape, Thread, NoGen, Gen, Applying
  <2> QED  BY <2>5, <2>6 DEF TInv
<1>3. ASSUME NEW th \in Thread, CancelPrev(th) PROVE TInv'
  BY <1>3 DEF CancelPrev, TInv, TypeOK, Shape, PC, leaseVars, Thread, Applying
<1>4. ASSUME NEW th \in Thread, AwaitStopped(th) PROVE TInv'
  <2>1. pc' = [pc EXCEPT ![th] = pc'[th]] /\ pc'[th] \in {"start", "exit", "idle", "correct"}
    BY <1>4 DEF AwaitStopped, AfterRestore, TInv, TypeOK
  <2>2. /\ pc'[th] = "start" => job[th].task = "apply"
        /\ pc'[th] = "exit" => th = Main
    BY <1>4 DEF AwaitStopped, AfterRestore, TInv, TypeOK
  <2> QED
    BY <1>4, <2>1, <2>2
       DEF AwaitStopped, TInv, TypeOK, Shape, PC, leaseVars, workerVars, Thread, Applying
<1>5. ASSUME NEW th \in Thread, CorrectiveRound(th) PROVE TInv'
  <2>1. pc' = [pc EXCEPT ![th] = pc'[th]] /\ pc'[th] \in {"start", "exit", "idle", "correct"}
    BY <1>5 DEF CorrectiveRound, AfterRestore, TInv, TypeOK
  <2>2. /\ pc'[th] = "start" => job[th].task = "apply"
        /\ pc'[th] = "exit" => th = Main
    BY <1>5 DEF CorrectiveRound, AfterRestore, TInv, TypeOK
  <2>3. job' = [job EXCEPT ![th].rounds = job[th].rounds + 1] /\ job' \in [Thread -> Job]
    BY <1>5 DEF CorrectiveRound, TInv, TypeOK, Job
  <2>4. /\ forged' \subseteq Entry
        /\ drops' \in 0..MaxDrops
    BY <1>5 DEF CorrectiveRound, TInv, TypeOK
  <2>5. TypeOK'
    BY <1>5, <2>1, <2>3, <2>4 DEF CorrectiveRound, TInv, TypeOK, PC, leaseVars, workerVars
  <2>6. Shape'
    BY <1>5, <2>1, <2>2, <2>3 DEF CorrectiveRound, TInv, TypeOK, Shape, Thread, Applying, Job
  <2> QED  BY <2>5, <2>6 DEF TInv
<1>6. CASE StartGeneration
  BY <1>6 DEF StartGeneration, TInv, TypeOK, Shape, PC, leaseVars, Thread, Applying
<1>7. ASSUME NEW g \in Gen, GenTick(g) PROVE TInv'
  <2>1. forged' \subseteq Entry
    BY <1>7, PoisonsType DEF GenTick, TInv, TypeOK
  <2> QED  BY <1>7, <2>1 DEF GenTick, TInv, TypeOK, Shape, leaseVars, workerVars, Thread, Applying
<1>8. ASSUME NEW g \in Gen, GenStop(g) PROVE TInv'
  BY <1>8 DEF GenStop, TInv, TypeOK, Shape, leaseVars, Thread, Applying
<1>9. ASSUME NEW l \in Reaper, TimerFires(l) PROVE TInv'
  BY <1>9 DEF TimerFires, TInv, TypeOK, Shape, PC, workerVars, Thread, Applying
<1>10. ASSUME NEW l \in Reaper, Expire(l) PROVE TInv'
  BY <1>10 DEF Expire, TInv, TypeOK, Shape, PC, workerVars, Thread, Applying
<1>11. CASE Heartbeat
  BY <1>11 DEF Heartbeat, TInv, TypeOK, Shape, workerVars, Thread, Applying
<1>12. CASE Rearm
  BY <1>12 DEF Rearm, TInv, TypeOK, Shape, PC, workerVars, Thread, Applying
<1>13. CASE HandleShutdown
  BY <1>13 DEF HandleShutdown, TInv, TypeOK, Shape, PC, workerVars, leaseVars, Thread, Applying
<1>14. CASE Sigterm
  BY <1>14 DEF Sigterm, TInv, TypeOK, Shape, PC, workerVars, leaseVars, Thread, Applying
<1>15. CASE Exit
  BY <1>15 DEF Exit, TInv, TypeOK, Shape, workerVars, leaseVars, Thread, Applying
<1>16. ASSUME NEW e \in Entry, EntryRefreshed(e) PROVE TInv'
  BY <1>16 DEF EntryRefreshed, TInv, TypeOK, Shape, workerVars, leaseVars, Thread, Applying
<1>17. CASE UNCHANGED vars
  BY <1>17 DEF vars, TInv, TypeOK, Shape, Thread, Applying
<1> QED
  BY <1>1, <1>2, <1>3, <1>4, <1>5, <1>6, <1>7, <1>8, <1>9, <1>10, <1>11, <1>12, <1>13,
     <1>14, <1>15, <1>16, <1>17 DEF Next, ThreadStep

\* Every variable of the worker keeps its type, and the goroutines their shape.
THEOREM TypeCorrect == Spec => [](TypeOK /\ Shape)
<1>1. Spec => []TInv
  BY InitTInv, StepTInv, PTL DEF Spec
<1> QED  BY <1>1, PTL DEF TInv
-----------------------------------------------------------------------------
(* Poisoning is always covered.                                            *)
(*                                                                         *)
(* PoisonCovered is not inductive: a tick of a generation that is neither  *)
(* installed nor about to be restored would break it. LiveOwned says there *)
(* is no such generation; Restores and NextAlive say what the goroutine    *)
(* that replaces a generation still owes it.                               *)

\* Generation ids are handed out in order and never reused.
IdsBounded ==
    /\ rg <= last
    /\ \A g \in Gen : g > last => phase[g] = "unborn"
    /\ \A th \in Thread : pc[th] \in {"cancel", "wait"} => job[th].prev <= last

\* A generation that may still tick is installed, or some goroutine has taken it
\* out of the slot and is waiting for it to stop.
LiveOwned ==
    \A g \in Gen : phase[g] \in {"created", "running"} =>
        \/ g = rg
        \/ \E th \in Thread : pc[th] \in {"cancel", "wait"} /\ job[th].prev = g

\* What a goroutine that waits is going to restore: everything that the generation it took
\* out of the slot poisons, save what a switch goes on poisoning or has left behind.
Settles(j, gens, behind) ==
    IF j.task = "apply"
    THEN Poisons(gens[j.prev]) \subseteq j.restore \cup Poisons(gens[j.next]) \cup behind
    ELSE Poisons(gens[j.prev]) \subseteq j.restore

Restores ==
    \A th \in Thread : pc[th] \in {"cancel", "wait"} =>
        /\ job[th].rounds = 0
        /\ Settles(job[th], gen, left)

\* While ApplyGeneration is under way its new generation has not started.
NextAlive ==
    (pc[Handler] \in Applying /\ job[Handler].task = "apply") =>
        /\ phase[job[Handler].next] = "created"
        /\ job[Handler].next <= last
        /\ pc[Handler] \in {"cancel", "wait"} => job[Handler].prev # job[Handler].next

RoundsBounded == \A th \in Thread : pc[th] = "correct" => job[th].rounds < Repeats

Bookkeeping == IdsBounded /\ LiveOwned /\ Restores /\ NextAlive /\ RoundsBounded

\* PoisonCovered while the process lives. What it excuses after the exit is what others
\* than Main then still owe: Main itself owes nothing any more.
AllCovered == \A e \in forged : Attended(e) \/ e \in left

MainIsDone == exited => pc[Main] = "exit"

PoisonInv == TInv /\ Bookkeeping /\ AllCovered /\ MainIsDone

\* What a goroutine waits to restore is settled once and for all.
LEMMA RestoresNext ==
  ASSUME \A th \in Thread : pc'[th] \in {"cancel", "wait"} =>
            job'[th].rounds = 0 /\ Settles(job'[th], gen', left')
  PROVE  Restores'
  BY DEF Restores, Settles, Poisons, EntriesOf

LEMMA RestoresKept ==
  ASSUME Restores, UNCHANGED <<gen, left>>,
         \A th \in Thread : pc'[th] \in {"cancel", "wait"} =>
            pc[th] \in {"cancel", "wait"} /\ job'[th] = job[th]
  PROVE  Restores'
<1>1. gen' = gen /\ left' = left
  OBVIOUS
<1>2. ASSUME NEW th \in Thread, pc'[th] \in {"cancel", "wait"}
      PROVE  job'[th].rounds = 0 /\ Settles(job'[th], gen', left')
  BY <1>1, <1>2 DEF Restores
<1> QED  BY <1>2, RestoresNext

\* Only Main's own steps move Main, and the exit is Main's last.
LEMMA MainStep ==
  ASSUME TInv, MainIsDone, [Next]_vars PROVE MainIsDone'
<1> USE DEF MainIsDone, TInv, TypeOK, Thread
<1> USE ThreadAssumption
<1>1. CASE exited
  BY <1>1 DEF Next, ThreadStep, ApplySwap, ShutdownSwap, CancelPrev, AwaitStopped, CorrectiveRound,
              StartGeneration, GenTick, GenStop, TimerFires, Expire, Heartbeat, Rearm,
              HandleShutdown, Sigterm, Exit, EntryRefreshed, vars
<1>2. CASE ~exited
  BY <1>2 DEF Next, ThreadStep, ApplySwap, ShutdownSwap, CancelPrev, AwaitStopped, CorrectiveRound,
              StartGeneration, GenTick, GenStop, TimerFires, Expire, Heartbeat, Rearm,
              HandleShutdown, Sigterm, Exit, EntryRefreshed, vars
<1> QED  BY <1>1, <1>2

LEMMA InitPoisonInv == Init => PoisonInv
<1> SUFFICES ASSUME Init PROVE PoisonInv
  OBVIOUS
<1>1. TInv
  BY InitTInv
<1>2. \A th \in Thread : pc[th] = "idle"
  BY DEF Init
<1>3. IdsBounded /\ LiveOwned
  BY <1>2 DEF Init, IdsBounded, LiveOwned, NoGen
<1>4. Restores /\ NextAlive /\ RoundsBounded
  BY <1>2 DEF Restores, NextAlive, RoundsBounded, Thread, Applying
<1>5. AllCovered /\ MainIsDone
  BY DEF Init, AllCovered, MainIsDone
<1> QED  BY <1>1, <1>3, <1>4, <1>5 DEF PoisonInv, Bookkeeping

\* Whatever a generation that may still tick poisons is covered already.
LEMMA LiveIsCovered ==
  ASSUME TInv, Bookkeeping,
         NEW g \in Gen, phase[g] \in {"created", "running"}, NEW e \in Poisons(gen[g])
  PROVE  Attended(e) \/ e \in left
<1> USE DEF TInv, TypeOK
<1>1. CASE g = rg
  BY <1>1 DEF NoGen, Gen, Attended
<1>2. ASSUME NEW th \in Thread, pc[th] \in {"cancel", "wait"}, job[th].prev = g,
             e \in job[th].restore
      PROVE  Attended(e)
  BY <1>2 DEF Bookkeeping, Restores, Owed, Attended
<1>3. ASSUME NEW th \in Thread, pc[th] \in {"cancel", "wait"}, job[th].prev = g,
             e \notin job[th].restore, e \notin left
      PROVE  Attended(e)
  <2>1. job[th].task = "apply" /\ e \in Poisons(gen[job[th].next])
    BY <1>3 DEF Bookkeeping, Restores, Settles
  <2>2. th = Handler /\ job[th].next \in Gen
    BY <1>3, <2>1 DEF Shape, Applying
  <2> DEFINE next == job[Handler].next
  <2>3. e \in Poisons(gen[next])
    BY <2>1, <2>2
  <2>4. phase[next] = "created" /\ next # g
    BY <1>3, <2>1, <2>2 DEF Bookkeeping, NextAlive, Applying
  <2>5. CASE next = rg
    BY <2>2, <2>3, <2>5 DEF NoGen, Gen, Attended
  <2>6. ASSUME NEW other \in Thread, pc[other] \in {"cancel", "wait"}, job[other].prev = next
        PROVE  Owed(other, e)
    <3>1. other # Handler
      BY <1>3, <2>2, <2>4, <2>6
    <3>2. job[other].task # "apply"
      BY <3>1 DEF Shape
    <3>3. e \in job[other].restore /\ job[other].rounds = 0
      BY <2>3, <2>6, <3>2 DEF Bookkeeping, Restores, Settles
    <3> QED  BY <2>6, <3>3 DEF Owed
  <2> QED  BY <2>2, <2>4, <2>5, <2>6 DEF Bookkeeping, LiveOwned, Attended
<1> QED  BY <1>1, <1>2, <1>3 DEF Bookkeeping, LiveOwned

\* An entry somebody attends to is attended to after the step, if the installed
\* generation stays and no goroutine's debt is taken away.
LEMMA AttendedNext ==
  ASSUME NEW e,
         \/ rg' # NoGen /\ e \in Poisons(gen'[rg'])
         \/ \E th \in Thread : Owed(th, e)'
  PROVE  Attended(e)'
  BY DEF Attended, Poisons, EntriesOf

\* A step that forges nothing new, keeps the slot and takes no goroutine's debt
\* away keeps every entry covered.
LEMMA CoverKept ==
  ASSUME AllCovered, TInv, forged' \subseteq forged, rg' = rg, left' = left,
         \A g \in Gen : g = rg => gen'[g] = gen[g],
         \A th \in Thread, e \in forged' : Owed(th, e) => Owed(th, e)'
  PROVE  AllCovered'
<1> SUFFICES ASSUME NEW e \in forged', e \notin left
             PROVE  \/ rg' # NoGen /\ e \in Poisons(gen'[rg'])
                    \/ \E th \in Thread : Owed(th, e)'
  BY AttendedNext DEF AllCovered
<1>1. CASE rg # NoGen /\ e \in Poisons(gen[rg])
  BY <1>1 DEF TInv, TypeOK
<1>2. ASSUME NEW th \in Thread, Owed(th, e) PROVE Owed(th, e)'
  BY <1>2
<1> QED  BY <1>1, <1>2 DEF AllCovered, Attended

LEMMA ApplyStep ==
  ASSUME PoisonInv, TInv', NEW offer \in Offers,
         ApplySwap(offer)
  PROVE  Bookkeeping' /\ AllCovered'
<1> USE DEF PoisonInv
<1> DEFINE new == last + 1
           G == Accepted(offer)
<1>1. /\ new \in Gen /\ last' = new /\ rg' = new /\ new # NoGen
      /\ phase[new] = "unborn"
      /\ gen' = [gen EXCEPT ![new] = G]
      /\ phase' = [phase EXCEPT ![new] = "created"]
      /\ forged' = forged /\ drops' = drops
  BY BoundAssumption
     DEF ApplySwap, TInv, TypeOK, Gen, NoGen, Bookkeeping, IdsBounded
<1>2. /\ \A th \in Thread \ {Handler} : pc'[th] = pc[th] /\ job'[th] = job[th]
      /\ pc[Handler] = "idle"
      /\ pc'[Handler] = IF rg = NoGen THEN "start" ELSE "cancel"
      /\ job'[Handler] = [task |-> "apply", prev |-> rg, next |-> new, rounds |-> 0,
                          restore |-> IF rg = NoGen THEN {} ELSE Restoration(gen[rg], G)]
  BY DEF ApplySwap, TInv, TypeOK, Thread
<1>3. left' = (left \cup IF rg = NoGen THEN {} ELSE OfKept(gen[rg], G)) \ Poisons(G)
  BY DEF ApplySwap
<1>4. \A g \in Gen : g # new => gen'[g] = gen[g] /\ phase'[g] = phase[g]
  BY <1>1 DEF TInv, TypeOK
<1>5. \A th \in Thread : pc[th] \in {"cancel", "wait"} => job[th].prev # new
  BY DEF Bookkeeping, IdsBounded, TInv, TypeOK
<1>6. rg # new /\ (rg # NoGen => rg \in Gen)
  BY DEF Bookkeeping, IdsBounded, TInv, TypeOK
<1>7. IdsBounded'
  <2>1. rg' <= last'
    BY <1>1
  <2>2. ASSUME NEW g \in Gen, g > last' PROVE phase'[g] = "unborn"
    <3>1. g # new /\ g > last
      BY <1>1, <2>2 DEF TInv, TypeOK, Gen
    <3> QED  BY <1>4, <3>1 DEF Bookkeeping, IdsBounded
  <2>3. ASSUME NEW th \in Thread, pc'[th] \in {"cancel", "wait"} PROVE job'[th].prev <= last'
    <3>1. CASE th = Handler
      BY <1>1, <1>2, <3>1 DEF Bookkeeping, IdsBounded, TInv, TypeOK, Gen, NoGen
    <3>2. CASE th # Handler
      <4>1. job'[th] = job[th] /\ job[th].prev <= last /\ job[th].prev \in Gen
        BY <1>2, <2>3, <3>2 DEF Bookkeeping, IdsBounded, TInv, Shape
      <4> QED  BY <1>1, <4>1 DEF TInv, TypeOK, Gen
    <3> QED  BY <3>1, <3>2
  <2> QED  BY <2>1, <2>2, <2>3 DEF IdsBounded
<1>8. LiveOwned'
  <2> SUFFICES ASSUME NEW g \in Gen, phase'[g] \in {"created", "running"}, g # new
               PROVE  \E th \in Thread : pc'[th] \in {"cancel", "wait"} /\ job'[th].prev = g
    BY <1>1 DEF LiveOwned
  <2>1. CASE g = rg
    BY <1>2, <2>1 DEF Thread, NoGen, Gen
  <2>2. CASE g # rg
    BY <1>2, <1>4, <2>2 DEF Bookkeeping, LiveOwned, Thread
  <2> QED  BY <2>1, <2>2
<1>9. Restores'
  <2> SUFFICES ASSUME NEW th \in Thread, pc'[th] \in {"cancel", "wait"}
               PROVE  job'[th].rounds = 0 /\ Settles(job'[th], gen', left')
    BY RestoresNext
  <2>1. CASE th = Handler
    <3>1. rg # NoGen /\ rg \in Gen /\ gen'[rg] = gen[rg] /\ gen'[new] = G
      BY <1>1, <1>2, <1>4, <1>6, <2>1 DEF TInv, TypeOK
    <3>2. Poisons(gen[rg]) \subseteq Restoration(gen[rg], G) \cup OfKept(gen[rg], G)
      BY <3>1, UnrestoredIsOfKept DEF TInv, TypeOK
    <3>3. Poisons(gen[rg]) \subseteq job'[th].restore \cup Poisons(G) \cup left'
      BY <1>2, <1>3, <2>1, <3>1, <3>2
    <3>4. job'[th].task = "apply" /\ job'[th].prev = rg /\ job'[th].next = new /\ job'[th].rounds = 0
      BY <1>2, <2>1
    <3> QED  BY <3>1, <3>3, <3>4 DEF Settles
  <2>2. CASE th # Handler
    <3>1. pc[th] \in {"cancel", "wait"} /\ job'[th] = job[th] /\ job[th].task # "apply"
      BY <1>2, <2>2 DEF TInv, Shape
    <3>2. gen'[job[th].prev] = gen[job[th].prev]
      BY <1>4, <1>5, <3>1 DEF TInv, Shape
    <3> QED  BY <3>1, <3>2 DEF Bookkeeping, Restores, Settles
  <2> QED  BY <2>1, <2>2
<1>10. NextAlive'
  BY <1>1, <1>2, <1>6 DEF NextAlive, TInv, TypeOK
<1>11. RoundsBounded'
  BY <1>2 DEF Bookkeeping, RoundsBounded, Thread
<1>12. AllCovered'
  <2> SUFFICES ASSUME NEW e \in forged, e \notin left'
               PROVE  \/ rg' # NoGen /\ e \in Poisons(gen'[rg'])
                      \/ \E th \in Thread : Owed(th, e)'
    BY <1>1, AttendedNext DEF AllCovered
  <2>0. gen'[new] = G
    BY <1>1 DEF TInv, TypeOK
  <2>1. CASE rg # NoGen /\ e \in Poisons(gen[rg])
    <3>1. CASE e \in Restoration(gen[rg], G)
      BY <1>1, <1>2, <2>1, <3>1 DEF Owed, TInv, TypeOK, Thread
    <3>2. CASE e \notin Restoration(gen[rg], G)
      <4>1. e \in OfKept(gen[rg], G)
        BY <1>6, <2>1, <3>2, UnrestoredIsOfKept DEF TInv, TypeOK
      <4> QED  BY <1>1, <1>3, <2>0, <2>1, <4>1
    <3> QED  BY <3>1, <3>2
  <2>2. ASSUME NEW th \in Thread, Owed(th, e) PROVE Owed(th, e)'
    BY <1>1, <1>2, <2>2 DEF Owed
  <2>3. CASE e \in left
    BY <1>1, <1>3, <2>0, <2>3
  <2> QED  BY <2>1, <2>2, <2>3 DEF AllCovered, Attended
<1> QED  BY <1>7, <1>8, <1>9, <1>10, <1>11, <1>12 DEF Bookkeeping

LEMMA ShutdownStep ==
  ASSUME PoisonInv, TInv', NEW th \in Thread, ShutdownSwap(th)
  PROVE  Bookkeeping' /\ AllCovered'
<1> USE DEF PoisonInv
<1>1. /\ forged' = forged /\ drops' = drops /\ rg' = NoGen
      /\ gen' = gen /\ phase' = phase /\ last' = last /\ left' = left
  BY DEF ShutdownSwap, workerVars
<1>2. /\ \A o \in Thread \ {th} : pc'[o] = pc[o] /\ job'[o] = job[o]
      /\ pc[th] = "swap"
      /\ pc'[th] = IF rg # NoGen THEN "cancel" ELSE IF th = Main THEN "exit" ELSE "idle"
      /\ job'[th] = [task |-> "shutdown", prev |-> rg, next |-> NoGen, rounds |-> 0,
                     restore |-> IF rg = NoGen THEN {} ELSE Poisons(gen[rg])]
  BY DEF ShutdownSwap, TInv, TypeOK
<1>3. IdsBounded'
  BY <1>1, <1>2 DEF Bookkeeping, IdsBounded, NoGen, TInv, TypeOK
<1>4. LiveOwned'
  BY <1>1, <1>2 DEF Bookkeeping, LiveOwned, NoGen, Gen
<1>5. Restores'
  <2> SUFFICES ASSUME NEW o \in Thread, pc'[o] \in {"cancel", "wait"}
               PROVE  job'[o].rounds = 0 /\ Settles(job'[o], gen', left')
    BY RestoresNext
  <2>1. CASE o = th
    <3>1. /\ job'[o].task = "shutdown" /\ job'[o].prev = rg /\ job'[o].rounds = 0
          /\ job'[o].restore = Poisons(gen[rg])
      BY <1>2, <2>1
    <3> QED  BY <1>1, <3>1 DEF Settles
  <2>2. CASE o # th
    BY <1>1, <1>2, <2>2 DEF Bookkeeping, Restores
  <2> QED  BY <2>1, <2>2
<1>6. NextAlive'
  BY <1>1, <1>2 DEF Bookkeeping, NextAlive, Applying, Thread
<1>7. RoundsBounded'
  BY <1>1, <1>2 DEF Bookkeeping, RoundsBounded
<1>8. AllCovered'
  <2> SUFFICES ASSUME NEW e \in forged, e \notin left PROVE \E o \in Thread : Owed(o, e)'
    BY <1>1, AttendedNext DEF AllCovered
  <2>1. CASE rg # NoGen /\ e \in Poisons(gen[rg])
    BY <1>1, <1>2, <2>1 DEF Owed, TInv, TypeOK
  <2>2. ASSUME NEW o \in Thread, Owed(o, e) PROVE Owed(o, e)'
    BY <1>1, <1>2, <2>2 DEF Owed
  <2> QED  BY <2>1, <2>2 DEF AllCovered, Attended
<1> QED  BY <1>3, <1>4, <1>5, <1>6, <1>7, <1>8 DEF Bookkeeping

LEMMA AwaitStep ==
  ASSUME PoisonInv, NEW th \in Thread, AwaitStopped(th)
  PROVE  Bookkeeping' /\ AllCovered'
<1> USE DEF PoisonInv
<1>1. /\ forged' = forged /\ drops' = drops /\ rg' = rg /\ job' = job
      /\ gen' = gen /\ phase' = phase /\ last' = last /\ left' = left
  BY DEF AwaitStopped, workerVars
<1>2. /\ \A o \in Thread \ {th} : pc'[o] = pc[o]
      /\ pc[th] = "wait" /\ phase[job[th].prev] = "stopped"
      /\ pc'[th] = IF job[th].restore = {} THEN AfterRestore(th) ELSE "correct"
      /\ AfterRestore(th) \in {"start", "exit", "idle"}
      /\ AfterRestore(th) = "start" => job[th].task = "apply"
  BY DEF AwaitStopped, AfterRestore, TInv, TypeOK
<1>3. job[th].rounds = 0 /\ 0 < Repeats
  BY <1>2, BoundAssumption DEF Bookkeeping, Restores
<1>4. IdsBounded'
  BY <1>1, <1>2 DEF Bookkeeping, IdsBounded
<1>5. LiveOwned'
  BY <1>1, <1>2 DEF Bookkeeping, LiveOwned
<1>6. Restores'
  BY <1>1, <1>2, RestoresKept DEF Bookkeeping
<1>7. NextAlive'
  BY <1>1, <1>2 DEF Bookkeeping, NextAlive, Applying, Thread
<1>8. RoundsBounded'
  BY <1>1, <1>2, <1>3 DEF Bookkeeping, RoundsBounded
<1>9. AllCovered'
  <2>1. ASSUME NEW o \in Thread, NEW e \in forged', Owed(o, e) PROVE Owed(o, e)'
    BY <1>1, <1>2, <2>1 DEF Owed
  <2> QED  BY <1>1, <2>1, CoverKept
<1> QED  BY <1>4, <1>5, <1>6, <1>7, <1>8, <1>9 DEF Bookkeeping

LEMMA CorrectiveStep ==
  ASSUME PoisonInv, NEW th \in Thread, CorrectiveRound(th)
  PROVE  Bookkeeping' /\ AllCovered'
<1> USE DEF PoisonInv
<1>1. /\ rg' = rg /\ gen' = gen /\ phase' = phase /\ last' = last /\ left' = left
  BY DEF CorrectiveRound, workerVars
<1>2. /\ \A o \in Thread \ {th} : pc'[o] = pc[o] /\ job'[o] = job[o]
      /\ job'[th] = [job[th] EXCEPT !.rounds = @ + 1]
      /\ pc[th] = "correct" /\ job[th].rounds \in Nat
      /\ pc'[th] = IF job[th].rounds + 1 = Repeats THEN AfterRestore(th) ELSE "correct"
      /\ AfterRestore(th) \in {"start", "exit", "idle"}
      /\ AfterRestore(th) = "start" => job[th].task = "apply"
  BY DEF CorrectiveRound, AfterRestore, TInv, TypeOK, Job
<1>3. PICK lost \in SUBSET job[th].restore :
        /\ lost # {} => drops < MaxDrops
        /\ drops' = IF lost = {} THEN drops ELSE drops + 1
        /\ forged' = forged \ (job[th].restore \ lost)
  BY DEF CorrectiveRound
<1>4. drops \in Nat /\ drops' >= drops /\ job[th].rounds < Repeats
  BY <1>2, <1>3, BoundAssumption DEF TInv, TypeOK, Bookkeeping, RoundsBounded
<1>5. /\ job'[th].restore = job[th].restore /\ job'[th].prev = job[th].prev
      /\ job'[th].next = job[th].next /\ job'[th].task = job[th].task
      /\ job'[th].rounds = job[th].rounds + 1
  BY <1>2 DEF TInv, TypeOK, Job
<1>6. IdsBounded'
  BY <1>1, <1>2 DEF Bookkeeping, IdsBounded
<1>7. LiveOwned'
  BY <1>1, <1>2 DEF Bookkeeping, LiveOwned
<1>8. Restores'
  BY <1>1, <1>2, RestoresKept DEF Bookkeeping
<1>9. NextAlive'
  BY <1>1, <1>2, <1>5 DEF Bookkeeping, NextAlive, Applying, Thread
<1>10. RoundsBounded'
  <2>1. pc'[th] = "correct" => job'[th].rounds < Repeats
    BY <1>2, <1>4, <1>5, BoundAssumption
  <2> QED  BY <1>2, <2>1 DEF Bookkeeping, RoundsBounded
<1>11. AllCovered'
  <2>1. ASSUME NEW o \in Thread \ {th}, NEW e \in forged', Owed(o, e) PROVE Owed(o, e)'
    <3>1. job[o].rounds \in Nat
      BY DEF TInv, TypeOK, Job
    <3> QED  BY <1>2, <1>3, <1>4, <2>1, <3>1 DEF Owed, TInv, TypeOK
  <2>2. ASSUME NEW e \in forged', Owed(th, e) PROVE Owed(th, e)'
    <3>1. e \in lost
      BY <1>3, <2>2 DEF Owed
    <3>2. drops < MaxDrops /\ drops' = drops + 1 /\ job[th].rounds <= drops
      BY <1>3, <2>2, <3>1 DEF Owed
    <3>3. job[th].rounds + 1 # Repeats
      BY <1>2, <1>4, <3>2, BoundAssumption
    <3>4. pc'[th] = "correct" /\ job'[th].rounds <= drops'
      BY <1>2, <1>4, <1>5, <3>2, <3>3
    <3> QED  BY <1>5, <2>2, <3>4 DEF Owed
  <2>3. forged' \subseteq forged
    BY <1>3
  <2> QED  BY <1>1, <2>1, <2>2, <2>3, CoverKept
<1> QED  BY <1>6, <1>7, <1>8, <1>9, <1>10, <1>11 DEF Bookkeeping

LEMMA StepPoisonInv == PoisonInv /\ [Next]_vars => PoisonInv'
<1> SUFFICES ASSUME PoisonInv, [Next]_vars PROVE Bookkeeping' /\ AllCovered'
  BY StepTInv, MainStep DEF PoisonInv
<1>0. TInv /\ TInv'
  BY StepTInv DEF PoisonInv
<1> USE DEF PoisonInv
<1>1. ASSUME NEW offer \in Offers, ApplySwap(offer)
      PROVE  Bookkeeping' /\ AllCovered'
  BY <1>0, <1>1, ApplyStep
<1>2. ASSUME NEW th \in Thread, ShutdownSwap(th) PROVE Bookkeeping' /\ AllCovered'
  BY <1>0, <1>2, ShutdownStep
<1>3. ASSUME NEW th \in Thread, CancelPrev(th) PROVE Bookkeeping' /\ AllCovered'
  <2>1. /\ pc' = [pc EXCEPT ![th] = "wait"] /\ pc[th] = "cancel"
        /\ UNCHANGED <<forged, last, gen, left, phase, rg, job, drops>>
    BY <1>3 DEF CancelPrev
  <2>a. pc'[th] = "wait" /\ \A o \in Thread \ {th} : pc'[o] = pc[o]
    BY <1>0, <2>1 DEF TInv, TypeOK
  <2>b. IdsBounded' /\ LiveOwned'
    BY <2>1, <2>a DEF Bookkeeping, IdsBounded, LiveOwned
  <2>c. Restores' /\ RoundsBounded'
    BY <2>1, <2>a, RestoresKept DEF Bookkeeping, RoundsBounded
  <2>d. NextAlive'
    BY <2>1, <2>a DEF Bookkeeping, NextAlive, Applying, Thread
  <2>2. Bookkeeping'
    BY <2>b, <2>c, <2>d DEF Bookkeeping
  <2>3. ASSUME NEW o \in Thread, NEW e \in forged', Owed(o, e) PROVE Owed(o, e)'
    BY <1>0, <2>1, <2>3 DEF Owed, TInv, TypeOK
  <2> QED  BY <1>0, <2>1, <2>2, <2>3, CoverKept
<1>4. ASSUME NEW th \in Thread, AwaitStopped(th) PROVE Bookkeeping' /\ AllCovered'
  BY <1>4, AwaitStep
<1>5. ASSUME NEW th \in Thread, CorrectiveRound(th) PROVE Bookkeeping' /\ AllCovered'
  BY <1>5, CorrectiveStep
<1>6. CASE StartGeneration
  <2>1. /\ pc' = [pc EXCEPT ![Handler] = "rearm"] /\ pc[Handler] = "start"
        /\ phase' = [phase EXCEPT ![job[Handler].next] = "running"]
        /\ UNCHANGED <<forged, last, gen, left, rg, job, drops>>
    BY <1>6 DEF StartGeneration
  <2>2. /\ job[Handler].task = "apply" /\ job[Handler].next \in Gen
        /\ phase[job[Handler].next] = "created" /\ job[Handler].next <= last
    BY <1>0, <2>1 DEF TInv, Shape, Bookkeeping, NextAlive, Applying, Thread
  <2>3. IdsBounded' /\ LiveOwned'
    BY <1>0, <2>1, <2>2 DEF Bookkeeping, IdsBounded, LiveOwned, TInv, TypeOK, Gen
  <2>4. Restores' /\ NextAlive' /\ RoundsBounded'
    BY <1>0, <2>1, RestoresKept DEF Bookkeeping, NextAlive, RoundsBounded,
                      Applying, TInv, TypeOK, Thread
  <2>5. ASSUME NEW o \in Thread, NEW e \in forged', Owed(o, e) PROVE Owed(o, e)'
    BY <1>0, <2>1, <2>5 DEF Owed, TInv, TypeOK
  <2> QED  BY <1>0, <2>1, <2>3, <2>4, <2>5, CoverKept DEF Bookkeeping
<1>7. ASSUME NEW g \in Gen, GenTick(g) PROVE Bookkeeping' /\ AllCovered'
  <2>1. UNCHANGED <<last, gen, left, phase, rg, job, pc, drops>> /\ phase[g] = "running"
    BY <1>7 DEF GenTick, workerVars
  <2>2. PICK sent \in SUBSET Poisons(gen[g]) : forged' = forged \cup sent
    BY <1>7 DEF GenTick
  <2>3. Bookkeeping'
    BY <2>1, RestoresKept DEF Bookkeeping, IdsBounded, LiveOwned, NextAlive, RoundsBounded
  <2>4. ASSUME NEW e \in forged'
        PROVE  Attended(e) \/ e \in left
    <3>1. CASE e \in forged
      BY <3>1 DEF AllCovered
    <3>2. CASE e \in Poisons(gen[g])
      BY <1>0, <2>1, <3>2, LiveIsCovered
    <3> QED  BY <2>2, <2>4, <3>1, <3>2
  <2>5. AllCovered'
    BY <2>1, <2>4 DEF AllCovered, Attended, Owed, Poisons, EntriesOf
  <2> QED  BY <2>3, <2>5
<1>8. ASSUME NEW g \in Gen, GenStop(g) PROVE Bookkeeping' /\ AllCovered'
  <2>1. /\ phase' = [phase EXCEPT ![g] = "stopped"] /\ phase[g] = "running"
        /\ UNCHANGED <<forged, last, gen, left, rg, job, pc, drops>>
    BY <1>8 DEF GenStop
  <2>2. IdsBounded' /\ LiveOwned'
    BY <1>0, <2>1 DEF Bookkeeping, IdsBounded, LiveOwned, TInv, TypeOK
  <2>a. Restores' /\ RoundsBounded'
    BY <2>1, RestoresKept DEF Bookkeeping, RoundsBounded
  <2>b. NextAlive'
    BY <1>0, <2>1 DEF Bookkeeping, NextAlive, Applying, TInv, TypeOK, Shape
  <2>3. Restores' /\ NextAlive' /\ RoundsBounded'
    BY <2>a, <2>b
  <2>4. ASSUME NEW o \in Thread, NEW e \in forged', Owed(o, e) PROVE Owed(o, e)'
    BY <2>1, <2>4 DEF Owed
  <2> QED  BY <1>0, <2>1, <2>2, <2>3, <2>4, CoverKept DEF Bookkeeping
<1>9. ASSUME NEW th \in Thread, NEW to \in {"expire", "swap", "idle", "exit"},
             pc[th] \in {"idle", "expire", "rearm"}, pc' = [pc EXCEPT ![th] = to],
             UNCHANGED <<forged, last, gen, left, phase, rg, job, drops>>
      PROVE  Bookkeeping' /\ AllCovered'
  <2>a. pc'[th] = to /\ \A o \in Thread \ {th} : pc'[o] = pc[o]
    BY <1>0, <1>9 DEF TInv, TypeOK
  <2>b. IdsBounded' /\ LiveOwned'
    BY <1>9, <2>a DEF Bookkeeping, IdsBounded, LiveOwned
  <2>c. Restores' /\ RoundsBounded'
    BY <1>9, <2>a, RestoresKept DEF Bookkeeping, RoundsBounded
  <2>d. NextAlive'
    BY <1>9, <2>a DEF Bookkeeping, NextAlive, Applying, Thread
  <2>1. Bookkeeping'
    BY <2>b, <2>c, <2>d DEF Bookkeeping
  <2>2. ASSUME NEW o \in Thread, NEW e \in forged', Owed(o, e) PROVE Owed(o, e)'
    BY <1>0, <1>9, <2>2 DEF Owed, TInv, TypeOK
  <2> QED  BY <1>0, <1>9, <2>1, <2>2, CoverKept
<1>10. ASSUME NEW l \in Reaper, TimerFires(l) \/ Expire(l)
       PROVE  Bookkeeping' /\ AllCovered'
  BY <1>9, <1>10 DEF TimerFires, Expire, Thread, workerVars
<1>11. CASE Rearm \/ HandleShutdown \/ Sigterm
  BY <1>9, <1>11 DEF Rearm, HandleShutdown, Sigterm, Thread, workerVars
<1>12. ASSUME forged' \subseteq forged,
              UNCHANGED <<last, gen, left, phase, rg, pc, job, drops>>
       PROVE  Bookkeeping' /\ AllCovered'
  <2>1. Bookkeeping'
    BY <1>12, RestoresKept DEF Bookkeeping, IdsBounded, LiveOwned, NextAlive, RoundsBounded
  <2>2. ASSUME NEW o \in Thread, NEW e \in forged', Owed(o, e) PROVE Owed(o, e)'
    BY <1>12, <2>2 DEF Owed
  <2> QED  BY <1>0, <1>12, <2>1, <2>2, CoverKept
<1>13. CASE Heartbeat \/ Exit
  BY <1>12, <1>13 DEF Heartbeat, Exit, workerVars
<1>14. ASSUME NEW e \in Entry, EntryRefreshed(e) PROVE Bookkeeping' /\ AllCovered'
  BY <1>12, <1>14 DEF EntryRefreshed, workerVars
<1>15. CASE UNCHANGED vars
  BY <1>12, <1>15 DEF vars
<1> QED
  BY <1>1, <1>2, <1>3, <1>4, <1>5, <1>6, <1>7, <1>8, <1>10, <1>11, <1>13, <1>14, <1>15
     DEF Next, ThreadStep

\* Whatever the interleaving of generation switches, lease expiries, IPC shutdowns
\* and SIGTERM, and whatever gateway, duplex and targets each message names, a poisoned
\* cache entry is poisoned by the installed generation of a live process, or is still
\* going to be restored by it, or is one of the two kinds the code gives up: what a switch
\* left of a target it kept, and what the exit of the process cut short. Fewer corrective
\* rounds lose a frame than a pass repeats.
THEOREM PoisonIsCovered == Spec => []PoisonCovered
<1>1. PoisonInv => PoisonCovered
  <2> SUFFICES ASSUME PoisonInv, NEW e \in forged, e \notin left, exited PROVE CutShort(e)
    BY DEF PoisonCovered, PoisonInv, AllCovered
  <2>1. Attended(e) /\ pc[Main] = "exit"
    BY DEF PoisonInv, AllCovered, MainIsDone
  <2>2. ~ Owed(Main, e)
    BY <2>1 DEF Owed
  <2> QED  BY <2>1, <2>2 DEF Attended, CutShort
<1>2. Spec => []PoisonInv
  BY InitPoisonInv, StepPoisonInv, PTL DEF Spec
<1> QED  BY <1>1, <1>2, PTL
-----------------------------------------------------------------------------
(* An expired lease leaves nothing installed.                              *)

\* ApplyGeneration .. Rearm, the one place where a generation may be installed
\* while the lease is still marked expired.
Reviving ==
    \/ pc[Handler] \in Applying /\ job[Handler].task = "apply"
    \/ pc[Handler] = "rearm"

ExpiryInv ==
    /\ TInv
    /\ leaseExpired => rg = NoGen \/ Reviving \/ \E l \in Reaper : pc[l] = "swap"

LEMMA StepExpiryInv == ExpiryInv /\ [Next]_vars => ExpiryInv'
<1> SUFFICES ASSUME ExpiryInv, [Next]_vars, leaseExpired'
             PROVE  rg' = NoGen \/ Reviving' \/ \E l \in Reaper : pc'[l] = "swap"
  BY StepTInv DEF ExpiryInv
<1>0. TInv /\ TInv'
  BY StepTInv DEF ExpiryInv
<1> USE DEF ExpiryInv, Reviving, Applying, Thread
<1> USE ThreadAssumption
<1>1. ASSUME NEW offer \in Offers, ApplySwap(offer) PROVE Reviving'
  BY <1>0, <1>1 DEF ApplySwap, TInv, TypeOK
<1>2. ASSUME NEW th \in Thread, ShutdownSwap(th) PROVE rg' = NoGen
  BY <1>2 DEF ShutdownSwap
<1>3. ASSUME NEW th \in Thread, CancelPrev(th)
      PROVE  rg' = NoGen \/ Reviving' \/ \E l \in Reaper : pc'[l] = "swap"
  BY <1>0, <1>3 DEF CancelPrev, leaseVars, TInv, TypeOK
<1>4. ASSUME NEW th \in Thread, AwaitStopped(th)
      PROVE  rg' = NoGen \/ Reviving' \/ \E l \in Reaper : pc'[l] = "swap"
  BY <1>0, <1>4 DEF AwaitStopped, AfterRestore, leaseVars, TInv, TypeOK
<1>5. ASSUME NEW th \in Thread, CorrectiveRound(th)
      PROVE  rg' = NoGen \/ Reviving' \/ \E l \in Reaper : pc'[l] = "swap"
  <2>1. job'[Handler].task = job[Handler].task
    BY <1>0, <1>5 DEF CorrectiveRound, TInv, TypeOK, Job
  <2> QED  BY <1>0, <1>5, <2>1 DEF CorrectiveRound, AfterRestore, leaseVars, TInv, TypeOK
<1>6. CASE StartGeneration
  BY <1>0, <1>6 DEF StartGeneration, TInv, TypeOK
<1>7. ASSUME NEW g \in Gen, GenTick(g) \/ GenStop(g)
      PROVE  rg' = NoGen \/ Reviving' \/ \E l \in Reaper : pc'[l] = "swap"
  BY <1>7 DEF GenTick, GenStop, leaseVars
<1>8. ASSUME NEW l \in Reaper, TimerFires(l)
      PROVE  rg' = NoGen \/ Reviving' \/ \E m \in Reaper : pc'[m] = "swap"
  BY <1>0, <1>8 DEF TimerFires, TInv, TypeOK
<1>9. ASSUME NEW l \in Reaper, Expire(l)
      PROVE  rg' = NoGen \/ Reviving' \/ \E m \in Reaper : pc'[m] = "swap"
  BY <1>0, <1>9 DEF Expire, TInv, TypeOK
<1>10. CASE HandleShutdown \/ Sigterm
  BY <1>0, <1>10 DEF HandleShutdown, Sigterm, leaseVars, TInv, TypeOK
<1>11. CASE Heartbeat \/ Rearm
  BY <1>11 DEF Heartbeat, Rearm
<1>12. CASE Exit \/ (\E e \in Entry : EntryRefreshed(e)) \/ UNCHANGED vars
  BY <1>12 DEF Exit, EntryRefreshed, vars, leaseVars
<1> QED
  BY <1>1, <1>2, <1>3, <1>4, <1>5, <1>6, <1>7, <1>8, <1>9, <1>10, <1>11, <1>12
     DEF Next, ThreadStep

\* Once the lease has expired and its goroutine is done, nothing is installed
\* until the handler applies a new generation, whatever else happens.
THEOREM ExpiryIsFinal == Spec => []ExpiryDropsGeneration
<1>1. Init => ExpiryInv
  BY InitTInv DEF Init, ExpiryInv
<1>2. ExpiryInv => ExpiryDropsGeneration
  BY DEF ExpiryInv, ExpiryDropsGeneration, Reviving, Applying
<1> QED  BY <1>1, <1>2, StepExpiryInv, PTL DEF Spec

-----------------------------------------------------------------------------
(* A switch leaves alone what both generations poison.                     *)

\* No generation names its own gateway as a target: ValidateTargets refuses it.
Validated == \A g \in Gen : \A t \in gen[g].targets : IpOf[t] # IpOf[gen[g].gateway]

Spares(j, old, new) ==
    \A t \in old.targets \cap new.targets : j.restore \cap EntriesOf(new, t) = {}

\* What the handler is correcting after a switch is nothing that the installed generation
\* poisons for a target of both: only the handler installs one, so it is the one that the
\* switch was to.
Apart ==
    (pc[Handler] \in {"cancel", "wait", "correct"} /\ job[Handler].task = "apply" /\ rg # NoGen)
        => Spares(job[Handler], gen[job[Handler].prev], gen[rg])

SwitchInv == PoisonInv /\ Validated /\ Apart

\* A target that stays keeps its entries: its address is not among those that leave, and is
\* not the gateway's, so no entry restored for another target is one of its own.
LEMMA RestorationSpares ==
  ASSUME NEW p \in Generation, NEW n \in Generation, NEW t \in p.targets \cap n.targets,
         \A u \in p.targets : IpOf[u] # IpOf[p.gateway],
         \A u \in n.targets : IpOf[u] # IpOf[n.gateway],
         NEW e \in Restoration(p, n), e \in EntriesOf(n, t)
  PROVE  FALSE
<1> DEFINE q == [p EXCEPT !.targets = {u \in @ : IpOf[u] \notin {IpOf[v] : v \in n.targets}}]
<1>1. q.gateway = p.gateway /\ q.fullDuplex = p.fullDuplex
      /\ q.targets = {u \in p.targets : IpOf[u] \notin {IpOf[v] : v \in n.targets}}
  BY DEF Generation
<1>2. PICK u \in q.targets : e \in EntriesOf(q, u)
  BY DEF Restoration, Poisons
<1>3. u \in p.targets /\ IpOf[u] # IpOf[t] /\ u # t
  BY <1>1, <1>2
<1>4. t # p.gateway /\ IpOf[t] # IpOf[p.gateway] /\ IpOf[t] # IpOf[n.gateway]
  OBVIOUS
<1>5. e = <<u, IpOf[p.gateway]>> \/ e = <<p.gateway, IpOf[u]>>
  BY <1>1, <1>2 DEF EntriesOf
<1>6. e = <<t, IpOf[n.gateway]>> \/ e = <<n.gateway, IpOf[t]>>
  BY DEF EntriesOf
<1> QED  BY <1>3, <1>4, <1>5, <1>6

LEMMA StepValidated == TInv /\ Validated /\ [Next]_vars => Validated'
<1> SUFFICES ASSUME TInv, Validated, [Next]_vars PROVE Validated'
  OBVIOUS
<1>1. ASSUME NEW offer \in Offers, ApplySwap(offer) PROVE Validated'
  <2>1. gen' = [gen EXCEPT ![last + 1] = Accepted(offer)]
    BY <1>1 DEF ApplySwap
  <2> QED  BY <2>1, AcceptedType DEF Validated, TInv, TypeOK
<1>2. CASE gen' = gen
  BY <1>2 DEF Validated
<1> QED
  BY <1>1, <1>2 DEF Next, ThreadStep, ShutdownSwap, CancelPrev, AwaitStopped, CorrectiveRound,
     StartGeneration, GenTick, GenStop, TimerFires, Expire, Heartbeat, Rearm, HandleShutdown,
     Sigterm, Exit, EntryRefreshed, vars, workerVars

LEMMA StepSwitchInv == SwitchInv /\ [Next]_vars => SwitchInv'
<1> SUFFICES ASSUME SwitchInv, [Next]_vars PROVE Apart'
  BY StepPoisonInv, StepValidated DEF SwitchInv, PoisonInv
<1>0. TInv /\ rg <= last
  BY DEF SwitchInv, PoisonInv, Bookkeeping, IdsBounded
<1> USE DEF SwitchInv
<1>1. ASSUME NEW offer \in Offers, ApplySwap(offer) PROVE Apart'
  <2> DEFINE G == Accepted(offer)
  <2>1. /\ last + 1 \in Gen /\ rg' = last + 1 /\ gen'[rg'] = G
        /\ \A g \in Gen : g # last + 1 => gen'[g] = gen[g]
    BY <1>0, <1>1, BoundAssumption DEF ApplySwap, TInv, TypeOK, Gen
  <2>2. /\ job'[Handler].restore = IF rg = NoGen THEN {} ELSE Restoration(gen[rg], G)
        /\ job'[Handler].prev = rg
        /\ rg = NoGen => pc'[Handler] = "start"
    BY <1>0, <1>1 DEF ApplySwap, TInv, TypeOK, Thread
  <2>3. G \in Generation /\ \A u \in G.targets : IpOf[u] # IpOf[G.gateway]
    BY AcceptedType
  <2>4. ASSUME pc'[Handler] \in {"cancel", "wait", "correct"}
        PROVE  Spares(job'[Handler], gen'[job'[Handler].prev], gen'[rg'])
    <3>1. rg \in Gen /\ gen[rg] \in Generation /\ job'[Handler].restore = Restoration(gen[rg], G)
      BY <1>0, <2>2, <2>4 DEF TInv, TypeOK
    <3>a. \A u \in gen[rg].targets : IpOf[u] # IpOf[gen[rg].gateway]
      BY <3>1 DEF Validated
    <3>2. ASSUME NEW t \in gen[rg].targets \cap G.targets
          PROVE  Restoration(gen[rg], G) \cap EntriesOf(G, t) = {}
      <4>1. ASSUME NEW e, e \in Restoration(gen[rg], G), e \in EntriesOf(G, t) PROVE FALSE
        BY <2>3, <3>1, <3>a, <3>2, <4>1, RestorationSpares
      <4> QED  BY <4>1
    <3>3. rg # last + 1
      BY <1>0 DEF TInv, TypeOK
    <3> QED  BY <2>1, <2>2, <3>1, <3>2, <3>3 DEF Spares
  <2> QED  BY <2>4 DEF Apart, Spares, EntriesOf
<1>2. ASSUME NEW th \in Thread, ShutdownSwap(th) PROVE Apart'
  BY <1>2 DEF ShutdownSwap, Apart
<1>3. ASSUME UNCHANGED <<rg, gen>>, job'[Handler].restore = job[Handler].restore,
             job'[Handler].prev = job[Handler].prev,
             job'[Handler].task = job[Handler].task,
             pc'[Handler] \in {"cancel", "wait", "correct"} => pc[Handler] \in {"cancel", "wait", "correct"}
      PROVE  Apart'
  BY <1>3 DEF Apart, Spares, EntriesOf
<1>4. ASSUME NEW th \in Thread, CancelPrev(th) \/ AwaitStopped(th) PROVE Apart'
  BY <1>0, <1>3, <1>4 DEF CancelPrev, AwaitStopped, workerVars, TInv, TypeOK, Thread
<1>5. ASSUME NEW th \in Thread, CorrectiveRound(th) PROVE Apart'
  <2>1. /\ job'[Handler].restore = job[Handler].restore /\ job'[Handler].task = job[Handler].task
        /\ job'[Handler].prev = job[Handler].prev
    BY <1>0, <1>5 DEF CorrectiveRound, TInv, TypeOK, Job, Thread
  <2> QED  BY <1>0, <1>3, <1>5, <2>1 DEF CorrectiveRound, workerVars, TInv, TypeOK, Thread
<1>6. ASSUME NEW l \in Reaper, TimerFires(l) \/ Expire(l) PROVE Apart'
  BY <1>0, <1>3, <1>6, ThreadAssumption DEF TimerFires, Expire, workerVars, TInv, TypeOK, Thread
<1>7. CASE StartGeneration \/ Rearm \/ HandleShutdown \/ Sigterm
  BY <1>0, <1>3, <1>7, ThreadAssumption
     DEF StartGeneration, Rearm, HandleShutdown, Sigterm, workerVars, TInv, TypeOK, Thread
<1>8. CASE \/ Heartbeat \/ Exit \/ UNCHANGED vars \/ \E g \in Gen : GenTick(g) \/ GenStop(g)
           \/ \E e \in Entry : EntryRefreshed(e)
  BY <1>3, <1>8 DEF Heartbeat, Exit, GenTick, GenStop, EntryRefreshed, vars, workerVars
<1> QED  BY <1>1, <1>2, <1>4, <1>5, <1>6, <1>7, <1>8 DEF Next, ThreadStep

\* Only a round of the handler's own counts, and it sends the truth about nothing else.
LEMMA SwitchStep ==
  ASSUME SwitchInv, [Next]_vars, pc[Handler] = "correct", job[Handler].task = "apply",
         job'[Handler].rounds > job[Handler].rounds, rg # NoGen
  PROVE  \A t \in gen[job[Handler].prev].targets \cap gen[rg].targets :
            (forged \ forged') \cap EntriesOf(gen[rg], t) = {}
<1>0. TInv
  BY DEF SwitchInv, PoisonInv
<1>1. job[Handler].rounds \in Nat /\ job'[Handler] # job[Handler]
  BY <1>0 DEF TInv, TypeOK, Job, Thread
<1>2. CorrectiveRound(Handler)
  <2>1. ASSUME NEW offer, ApplySwap(offer) PROVE FALSE
    BY <2>1 DEF ApplySwap
  <2>2. ASSUME NEW th \in Thread, ShutdownSwap(th) PROVE FALSE
    BY <1>0, <1>1, <2>2 DEF ShutdownSwap, TInv, TypeOK, Thread
  <2>3. ASSUME NEW th \in Thread, CorrectiveRound(th) PROVE th = Handler
    BY <1>0, <1>1, <2>3 DEF CorrectiveRound, TInv, TypeOK, Thread
  <2>4. ASSUME NEW th \in Thread, CancelPrev(th) \/ AwaitStopped(th) PROVE FALSE
    BY <1>1, <2>4 DEF CancelPrev, AwaitStopped
  <2>5. ~(StartGeneration \/ Heartbeat \/ Rearm \/ HandleShutdown \/ Sigterm \/ Exit \/ UNCHANGED vars)
    BY <1>1 DEF StartGeneration, Heartbeat, Rearm, HandleShutdown, Sigterm, Exit, vars
  <2>6. ~ \/ \E g \in Gen : GenTick(g) \/ GenStop(g)
          \/ \E l \in Reaper : TimerFires(l) \/ Expire(l)
          \/ \E e \in Entry : EntryRefreshed(e)
    BY <1>1 DEF GenTick, GenStop, TimerFires, Expire, EntryRefreshed
  <2> QED  BY <2>1, <2>2, <2>3, <2>4, <2>5, <2>6 DEF Next, ThreadStep
<1>3. forged \ forged' \subseteq job[Handler].restore
  BY <1>2 DEF CorrectiveRound
<1> QED  BY <1>3 DEF SwitchInv, Apart, Spares

\* ApplyGeneration's corrective pass never makes a target that the installed generation
\* poisons truthful again, for any two lists of targets, any two gateways and whatever stops
\* meanwhile: restorationSet leaves out every address that stays.
THEOREM KeptStayPoisoned == Spec => SwitchKeepsPoison
<1>1. Init => SwitchInv
  BY InitPoisonInv, UnbornType DEF SwitchInv, Validated, Apart, Init, Thread
<1>2. SwitchInv /\ [Next]_vars => SwitchInv'
  BY StepSwitchInv
<1>3. SwitchInv /\ [Next]_vars =>
        [(pc[Handler] = "correct" /\ job[Handler].task = "apply"
            /\ job'[Handler].rounds > job[Handler].rounds /\ rg # NoGen)
        => \A t \in gen[job[Handler].prev].targets \cap gen[rg].targets :
              (forged \ forged') \cap EntriesOf(gen[rg], t) = {}]_vars
  BY SwitchStep
<1> QED  BY <1>1, <1>2, <1>3, PTL DEF Spec, SwitchKeepsPoison
=============================================================================
