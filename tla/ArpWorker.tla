------------------------------ MODULE ArpWorker ------------------------------
(***************************************************************************)
(* The ARP worker process (phase3/arp-worker): the goroutines that poison  *)
(* and restore the ARP caches of the LAN, and the lease that bounds how    *)
(* long they may do so unattended.                                         *)
(*                                                                         *)
(* Four kinds of goroutine touch the worker's single generation slot:      *)
(*   - Handler, the IPC dispatch loop (HandleReplaceTargets,               *)
(*     HandleHeartbeat, HandleShutdown);                                   *)
(*   - Reaper, the goroutines time.AfterFunc starts for an expired lease;  *)
(*   - Main, which turns SIGTERM into Shutdown and then exits;             *)
(*   - one ticker loop per generation (runGeneration).                     *)
(* ApplyGeneration and Shutdown hold the mutex only while they swap the    *)
(* slot; cancelling, waiting and correcting happen outside it, so each is  *)
(* a step of its own here.                                                 *)
(*                                                                         *)
(* A host is an (IP, MAC) pair, as worker.Target is: a generation has one  *)
(* for its gateway and one for each target. A cache entry <<h, ip>> is what*)
(* host h believes the MAC of address ip to be.                            *)
(***************************************************************************)
EXTENDS Integers, FiniteSets

CONSTANTS
    Host,        \* the (IP, MAC) pairs the controller may name
    IpOf,        \* the address of each host
    Protected,   \* hosts that are never targets: self, broadcast, multicast
    Offers,      \* the replace_targets messages the controller may send
    Handler, Main, Reaper,   \* the goroutines
    Repeats,     \* Config.CorrectiveRepeats
    MaxGen,      \* bound: generations applied in a behaviour
    MaxDrops     \* bound: corrective rounds in which some frame is lost

Generation == [gateway: Host, targets: SUBSET Host, fullDuplex: BOOLEAN]

ASSUME IpAssumption == IpOf \in [Host -> Nat] /\ Protected \subseteq Host
ASSUME OfferAssumption == Offers \subseteq Generation /\ Offers # {}
ASSUME ThreadAssumption == Handler # Main /\ Handler \notin Reaper /\ Main \notin Reaper
ASSUME BoundAssumption ==
    Repeats \in Nat /\ MaxGen \in Nat /\ MaxDrops \in Nat /\ MaxDrops < Repeats

Thread == {Handler, Main} \cup Reaper
Entry == Host \X {IpOf[h] : h \in Host}
NoGen == 0
Gen == 1..MaxGen

VARIABLES
    forged,        \* the entries that currently hold the worker's own MAC
    last,          \* number of generations created so far
    gen,           \* gen[g]: generation g as it was handed to ApplyGeneration
    phase,         \* phase[g]: the life of g's ticker goroutine
    cancelled,     \* generations whose context has been cancelled
    rg,            \* Worker.rg, the installed generation
    pc,            \* pc[th]: where each goroutine is
    job,           \* job[th]: the locals of the ApplyGeneration / Shutdown it runs
    leaseExpired,  \* LeaseMonitor.expired
    timer,         \* LeaseMonitor.timer
    drops,         \* corrective rounds that lost a frame so far
    exited,        \* the process has returned from main
    left           \* history: the entries a switch has left neither poisoned nor restored

workerVars == <<gen, phase, cancelled, last, left>>
leaseVars == <<leaseExpired, timer>>
vars == <<forged, last, gen, phase, cancelled, rg, pc, job,
          leaseExpired, timer, drops, exited, left>>

PC == {"idle", "expire", "swap", "cancel", "wait", "correct", "start", "rearm", "exit"}
Job == [task: {"apply", "shutdown"}, prev: Gen \cup {NoGen}, next: Gen \cup {NoGen},
        restore: SUBSET Entry, rounds: Nat]

TypeOK ==
    /\ forged \subseteq Entry
    /\ last \in 0..MaxGen
    /\ gen \in [Gen -> {G \in Generation : G.targets \cap Protected = {}}]
    /\ phase \in [Gen -> {"unborn", "created", "running", "stopped"}]
    /\ cancelled \subseteq Gen
    /\ rg \in Gen \cup {NoGen}
    /\ pc \in [Thread -> PC]
    /\ job \in [Thread -> Job]
    /\ leaseExpired \in BOOLEAN
    /\ timer \in {"armed", "off"}
    /\ drops \in 0..MaxDrops
    /\ exited \in BOOLEAN
    /\ left \subseteq Entry

\* What stands for a generation that does not exist yet: it poisons nothing.
Unborn == [gateway |-> CHOOSE h \in Host : TRUE, targets |-> {}, fullDuplex |-> FALSE]

NoJob == [task |-> "shutdown", prev |-> NoGen, next |-> NoGen, restore |-> {}, rounds |-> 0]

Init ==
    /\ forged = {}
    /\ last = 0
    /\ gen = [g \in Gen |-> Unborn]
    /\ phase = [g \in Gen |-> "unborn"]
    /\ cancelled = {}
    /\ rg = NoGen
    /\ pc = [th \in Thread |-> "idle"]
    /\ job = [th \in Thread |-> NoJob]
    /\ leaseExpired = FALSE
    /\ timer = "armed"
    /\ drops = 0
    /\ exited = FALSE
    /\ left = {}

-----------------------------------------------------------------------------
(* What a generation poisons, and what leaving it behind must restore.     *)

\* worker.ValidateTargets with the nil bypass set its only caller passes.
Accepted(offer) ==
    [offer EXCEPT !.targets = {t \in @ \ Protected : IpOf[t] # IpOf[offer.gateway]}]

\* "Gateway is at my MAC" told to the target and, in full duplex, "target is at my MAC"
\* told to the gateway.
EntriesOf(G, t) ==
    {<<t, IpOf[G.gateway]>>} \cup IF G.fullDuplex THEN {<<G.gateway, IpOf[t]>>} ELSE {}

Poisons(G) == UNION {EntriesOf(G, t) : t \in G.targets}

\* Mutant: the two arguments change places.
RestorationSwapped(prev, next) ==
    Poisons([next EXCEPT !.targets =
               {t \in @ : IpOf[t] \notin {IpOf[u] : u \in prev.targets}}])

\* Mutant: everything the old generation poisoned is restored.
RestorationAll(prev, next) == Poisons(prev)

\* restorationSet: prev's targets that next does not contain, compared BY IP, with
\* prev's gateway and prev's duplex.
Restoration(prev, next) ==
    Poisons([prev EXCEPT !.targets =
               {t \in @ : IpOf[t] \notin {IpOf[u] : u \in next.targets}}])

\* History only: what prev poisons for a target whose address next names too.
OfKept(prev, next) ==
    UNION {EntriesOf(prev, t) :
             t \in {u \in prev.targets : IpOf[u] \in {IpOf[v] : v \in next.targets}}}

-----------------------------------------------------------------------------
(* ApplyGeneration and Shutdown, from the mutex to the last corrective.    *)

\* The locked section of ApplyGeneration. (A message whose gateway is malformed or does
\* not resolve to its MAC is answered without a call, and changes nothing.)
ApplySwap(offer) ==
    /\ ~exited
    /\ pc[Handler] = "idle"
    /\ last < MaxGen
    /\ LET new == last + 1
           G == Accepted(offer)
       IN  /\ last' = new
           /\ gen' = [gen EXCEPT ![new] = G]
           /\ phase' = [phase EXCEPT ![new] = "created"]
           /\ rg' = new
           /\ job' = [job EXCEPT ![Handler] =
                        [task |-> "apply", prev |-> rg, next |-> new, rounds |-> 0,
                         restore |-> IF rg = NoGen THEN {} ELSE Restoration(gen[rg], G)]]
           /\ pc' = [pc EXCEPT ![Handler] = IF rg = NoGen THEN "start" ELSE "cancel"]
           /\ left' = (left \cup IF rg = NoGen THEN {} ELSE OfKept(gen[rg], G)) \ Poisons(G)
    /\ UNCHANGED <<forged, cancelled, leaseVars, drops, exited>>

\* Where a goroutine goes once ApplyGeneration or Shutdown has restored.
AfterRestore(th) ==
    CASE job[th].task = "apply" -> "start"
      [] th = Main -> "exit"
      [] OTHER -> "idle"

\* Mutant: Shutdown forgets what the generation poisoned.
ShutdownSwapForgets(th) ==
    /\ ~exited
    /\ pc[th] = "swap"
    /\ rg' = NoGen
    /\ job' = [job EXCEPT ![th] =
                 [task |-> "shutdown", prev |-> rg, next |-> NoGen, rounds |-> 0, restore |-> {}]]
    /\ pc' = [pc EXCEPT ![th] = IF rg # NoGen THEN "cancel"
                                ELSE IF th = Main THEN "exit" ELSE "idle"]
    /\ UNCHANGED <<forged, workerVars, leaseVars, drops, exited>>

\* The locked section of Shutdown; an empty slot makes it return at once.
ShutdownSwap(th) ==
    /\ ~exited
    /\ pc[th] = "swap"
    /\ rg' = NoGen
    /\ job' = [job EXCEPT ![th] =
                 [task |-> "shutdown", prev |-> rg, next |-> NoGen, rounds |-> 0,
                  restore |-> IF rg = NoGen THEN {} ELSE Poisons(gen[rg])]]
    /\ pc' = [pc EXCEPT ![th] = IF rg # NoGen THEN "cancel"
                                ELSE IF th = Main THEN "exit" ELSE "idle"]
    /\ UNCHANGED <<forged, workerVars, leaseVars, drops, exited>>

CancelPrev(th) ==
    /\ ~exited
    /\ pc[th] = "cancel"
    /\ cancelled' = cancelled \cup {job[th].prev}
    /\ pc' = [pc EXCEPT ![th] = "wait"]
    /\ UNCHANGED <<forged, last, gen, phase, rg, job, leaseVars, drops, exited, left>>

\* <-prev.stopped; sendCorrective returns at once when it has no targets.
AwaitStopped(th) ==
    /\ ~exited
    /\ pc[th] = "wait"
    /\ phase[job[th].prev] = "stopped"
    /\ pc' = [pc EXCEPT ![th] = IF job[th].restore = {} THEN AfterRestore(th) ELSE "correct"]
    /\ UNCHANGED <<forged, workerVars, rg, job, leaseVars, drops, exited>>

\* One round of sendCorrective: one truthful frame per entry, some of which the
\* LAN (or a failing Reply) may lose.
CorrectiveRound(th) ==
    /\ ~exited
    /\ pc[th] = "correct"
    /\ \E lost \in SUBSET job[th].restore :
          /\ lost # {} => drops < MaxDrops
          /\ drops' = IF lost = {} THEN drops ELSE drops + 1
          /\ forged' = forged \ (job[th].restore \ lost)
    /\ job' = [job EXCEPT ![th].rounds = @ + 1]
    /\ pc' = [pc EXCEPT ![th] = IF job[th].rounds + 1 = Repeats THEN AfterRestore(th)
                                ELSE "correct"]
    /\ UNCHANGED <<workerVars, rg, leaseVars, exited>>

\* go w.runGeneration(...), the last line of ApplyGeneration.
StartGeneration ==
    /\ ~exited
    /\ pc[Handler] = "start"
    /\ phase' = [phase EXCEPT ![job[Handler].next] = "running"]
    /\ pc' = [pc EXCEPT ![Handler] = "rearm"]
    /\ UNCHANGED <<forged, last, gen, cancelled, rg, job, leaseVars, drops, exited, left>>

-----------------------------------------------------------------------------
(* runGeneration: the ticker loop. With both channels ready the select may *)
(* still pick the ticker, so a cancelled generation may poison once more.  *)

GenTick(g) ==
    /\ ~exited
    /\ phase[g] = "running"
    /\ \E sent \in SUBSET Poisons(gen[g]) : forged' = forged \cup sent
    /\ UNCHANGED <<workerVars, rg, pc, job, leaseVars, drops, exited>>

GenStop(g) ==
    /\ ~exited
    /\ phase[g] = "running"
    /\ g \in cancelled
    /\ phase' = [phase EXCEPT ![g] = "stopped"]
    /\ UNCHANGED <<forged, last, gen, cancelled, rg, pc, job, leaseVars, drops, exited,
                   left>>

-----------------------------------------------------------------------------
(* The lease and the handlers that touch it.                               *)

\* The timer fires and time.AfterFunc starts a goroutine for it.
TimerFires(l) ==
    /\ ~exited
    /\ timer = "armed"
    /\ pc[l] = "idle"
    /\ timer' = "off"
    /\ pc' = [pc EXCEPT ![l] = "expire"]
    /\ UNCHANGED <<forged, workerVars, rg, job, leaseExpired, drops, exited>>

\* Mutant: the idempotence test is inverted.
ExpireInverted(l) ==
    /\ ~exited
    /\ pc[l] = "expire"
    /\ leaseExpired' = TRUE
    /\ pc' = [pc EXCEPT ![l] = IF leaseExpired THEN "swap" ELSE "idle"]
    /\ UNCHANGED <<forged, workerVars, rg, job, timer, drops, exited>>

\* LeaseMonitor.expire, up to the call of onLeaseExpired.
Expire(l) ==
    /\ ~exited
    /\ pc[l] = "expire"
    /\ leaseExpired' = TRUE
    /\ pc' = [pc EXCEPT ![l] = IF leaseExpired THEN "idle" ELSE "swap"]
    /\ UNCHANGED <<forged, workerVars, rg, job, timer, drops, exited>>

\* HandleHeartbeat -> LeaseMonitor.Heartbeat; a no-op once the lease expired.
Heartbeat ==
    /\ ~exited
    /\ pc[Handler] = "idle"
    /\ ~leaseExpired
    /\ timer' = "armed"
    /\ UNCHANGED <<forged, workerVars, rg, pc, job, leaseExpired, drops, exited>>

\* LeaseMonitor.Rearm at the end of HandleReplaceTargets.
Rearm ==
    /\ ~exited
    /\ pc[Handler] = "rearm"
    /\ leaseExpired' = FALSE
    /\ timer' = "armed"
    /\ pc' = [pc EXCEPT ![Handler] = "idle"]
    /\ UNCHANGED <<forged, workerVars, rg, job, drops, exited>>

HandleShutdown ==
    /\ ~exited
    /\ pc[Handler] = "idle"
    /\ pc' = [pc EXCEPT ![Handler] = "swap"]
    /\ UNCHANGED <<forged, workerVars, rg, job, leaseVars, drops, exited>>

Sigterm ==
    /\ ~exited
    /\ pc[Main] = "idle"
    /\ pc' = [pc EXCEPT ![Main] = "swap"]
    /\ UNCHANGED <<forged, workerVars, rg, job, leaseVars, drops, exited>>

Exit ==
    /\ ~exited
    /\ pc[Main] = "exit"
    /\ exited' = TRUE
    /\ UNCHANGED <<forged, workerVars, rg, pc, job, leaseVars, drops>>

\* The environment: a cache learns the truth again from ordinary ARP traffic.
EntryRefreshed(e) ==
    /\ e \in forged
    /\ forged' = forged \ {e}
    /\ UNCHANGED <<workerVars, rg, pc, job, leaseVars, drops, exited>>

-----------------------------------------------------------------------------
ThreadStep(th) ==
    \/ ShutdownSwap(th) \/ CancelPrev(th) \/ AwaitStopped(th) \/ CorrectiveRound(th)

Next ==
    \/ \E offer \in Offers : ApplySwap(offer)
    \/ \E th \in Thread : ThreadStep(th)
    \/ StartGeneration
    \/ \E g \in Gen : GenTick(g) \/ GenStop(g)
    \/ \E l \in Reaper : TimerFires(l) \/ Expire(l)
    \/ Heartbeat \/ Rearm \/ HandleShutdown
    \/ Sigterm \/ Exit
    \/ \E e \in Entry : EntryRefreshed(e)

Spec == Init /\ [][Next]_vars

\* A started goroutine is eventually scheduled; nothing forces the controller to
\* speak, the timer to fire, a signal to arrive or a frame to be forged.
Fairness ==
    /\ \A th \in Thread : WF_vars(ThreadStep(th))
    /\ WF_vars(StartGeneration) /\ WF_vars(Rearm) /\ WF_vars(Exit)
    /\ \A g \in Gen : WF_vars(GenStop(g))
    /\ \A l \in Reaper : WF_vars(Expire(l))

FairSpec == Spec /\ Fairness

-----------------------------------------------------------------------------
(* Properties.                                                             *)

\* A corrective pass still owes e the truth: it has not begun, or every round it
\* has finished can be matched with a round that lost a frame.
Owed(th, e) ==
    /\ pc[th] \in {"cancel", "wait", "correct"}
    /\ e \in job[th].restore
    /\ job[th].rounds <= drops

\* Whoever answers for entry e while the process lives: the installed generation, or a
\* goroutine that is still going to restore it.
Attended(e) ==
    \/ rg # NoGen /\ e \in Poisons(gen[rg])
    \/ \E th \in Thread : Owed(th, e)

\* What the exit of the process cuts short. Main's Shutdown restores only what was in the
\* slot: nobody waits for the pass of another goroutine that had emptied it before, nor
\* for a generation applied after Main emptied it.
CutShort(e) ==
    /\ exited
    /\ \/ rg # NoGen /\ e \in Poisons(gen[rg])
       \/ \E th \in Thread \ {Main} : Owed(th, e)

\* "Every path that stops poisoning a target (generation switch, shutdown, lease expiry)
\* must route through" a corrective pass: an entry nobody attends to any more is the
\* truth, however generation switches, expiries, IPC shutdowns and SIGTERM interleave.
\* The code falls short of that sentence in two ways, and they are the exceptions: what a
\* switch leaves of a target it keeps (restorationSet compares addresses only, so not the
\* gateway, the duplex or the MAC that changed), and what the exit cuts short.
PoisonCovered ==
    \A e \in forged : (~exited /\ Attended(e)) \/ e \in left \/ CutShort(e)

\* "A worker must not auto-resume a stale generation on its own": once the lease
\* has expired and its goroutine is done, nothing is installed until the handler
\* applies a new generation, whatever heartbeats arrived in the meantime.
ExpiryDropsGeneration ==
    (leaseExpired /\ (\A l \in Reaper : pc[l] = "idle") /\ pc[Handler] = "idle")
        => rg = NoGen

\* "A target present in BOTH the old and new generation must stay continuously
\* poisoned": no round of a switch's corrective pass un-poisons what the installed
\* generation poisons for a target that was there before.
SwitchKeepsPoison ==
    [][ (pc[Handler] = "correct" /\ job[Handler].task = "apply"
            /\ job'[Handler].rounds > job[Handler].rounds /\ rg # NoGen)
        => \A t \in gen[job[Handler].prev].targets \cap gen[rg].targets :
              (forged \ forged') \cap EntriesOf(gen[rg], t) = {} ]_vars

\* The fail-open promise: once no generation is installed, every cache on the LAN tells
\* the truth again, save what a switch left behind, unless the controller installs
\* another generation or the process ends first.
StoppedEventuallyTruthful ==
    (rg = NoGen) ~> (forged \subseteq left \/ rg # NoGen \/ exited)
=============================================================================
