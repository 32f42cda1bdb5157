----------------------------- MODULE WorkerLink -----------------------------
(***************************************************************************)
(* The controller process and the ARP worker over their Unix socket:       *)
(*   - the controller's main loop (controller/main.py run, run_cycle,      *)
(*     _reconnect) and its heartbeat pacer thread, which share one         *)
(*     WorkerClient whose lock lets one request be in flight at a time;    *)
(*   - the worker's IPC server, which serves one connection at a time, and *)
(*     its lease, whose expiry is told to the controller by a fault        *)
(*     written into the same stream the replies ride on;                   *)
(*   - interception_runtime.mode, what the household sees.                 *)
(*                                                                         *)
(* The worker is reduced to what its handlers do (ArpWorker has the        *)
(* goroutines behind them); the set of targets to poison is one value of   *)
(* Desired.                                                                *)
(***************************************************************************)
EXTENDS Naturals, Sequences, Functions

CONSTANTS
    Desired,       \* the target sets the database may ask for
    None,          \* no generation / nothing applied
    MaxChanges,    \* bound: changes of the desired state
    MaxCrashes,    \* bound: worker crashes
    MaxTimeouts,   \* bound: requests whose reply misses the socket timeout
    MaxExpiries,   \* bound: lease expiries while the controller is alive
    MaxRejects,    \* bound: generations the worker rejects (gateway not verified)
    MaxFaults,     \* bound: cycles that fail on something else (locked database)
    MaxRaces,      \* bound: heartbeats on the client being replaced
    MaxStarts,     \* bound: starts of the controller process
    MaxMishaps,    \* bound: all of the above together
    MaxConns       \* bound: connections in a behaviour

ASSUME NoneAssumption == None \notin Desired
ASSUME BoundsAssumption ==
    {MaxChanges, MaxCrashes, MaxTimeouts, MaxExpiries, MaxRejects, MaxFaults,
     MaxRaces, MaxStarts, MaxMishaps, MaxConns} \subseteq Nat

Conn == 1..MaxConns
NoConn == 0

VARIABLES
    desired,       \* what the database asks for
    mode,          \* interception_runtime.mode
    main,          \* where the main loop is
    plan,          \* the desired state run_cycle has read
    applied,       \* AppliedState.desired, or None
    rejected,      \* history: applied was answered by a rejection
    hb,            \* where the pacer is
    workerDead,    \* heartbeat_worker_dead
    repairReason,  \* heartbeat_repair_only["reason"] is set
    arpFailing,    \* arp_send_health is at or above the threshold
    conn,          \* the connection client holds, NoConn once closed
    peerOpen,      \* the worker still holds the other end of conn
    lastConn,      \* connections opened so far
    toWorker,      \* toWorker[c]: requests sent on c, not yet handled
    toClient,      \* frames for conn the client has not read
    up,            \* the worker process runs
    serving,       \* the connection handleConn serves
    backlog,       \* connections waiting in Accept, in order
    running,       \* the generation the worker poisons
    leaseExpired, timer, leasePc,   \* the lease and its expiry goroutine
    upset,         \* history: an expiry stopped the worker or wrote a fault since conn opened
    linkUp,        \* the LAN interface is up
    failing,       \* ConsecutiveSendFailures is at or above the threshold
    spent          \* how much of each bound has been used

mainVars == <<main, plan, applied, rejected>>
hbVars == <<hb, workerDead, repairReason, arpFailing>>
wireVars == <<conn, peerOpen, lastConn, toWorker, toClient>>
workerVars == <<up, serving, backlog, running>>
leaseVars == <<leaseExpired, timer, leasePc>>
lanVars == <<linkUp, failing>>
vars == <<desired, mode, mainVars, hbVars, wireVars, workerVars, leaseVars, lanVars, spent,
          upset>>

Limit == [changes |-> MaxChanges, crashes |-> MaxCrashes, timeouts |-> MaxTimeouts,
          expiries |-> MaxExpiries, rejects |-> MaxRejects, faults |-> MaxFaults,
          races |-> MaxRaces, starts |-> MaxStarts]

Spend(what) ==
    /\ spent[what] < Limit[what] /\ FoldFunction(+, 0, spent) < MaxMishaps
    /\ spent' = [spent EXCEPT ![what] = @ + 1]

Request == [op: {"replace_targets"}, targets: Desired] \cup [op: {"heartbeat", "shutdown"}]
Reply == [op: {"generation_applied"}, accepted: BOOLEAN]
         \cup [op: {"heartbeat_ack"}, failing: BOOLEAN] \cup [op: {"fault"}]

MainPC == {"gone", "top", "send", "await", "publish", "repair",
           "close_heartbeat", "connect_heartbeat", "close_cycle", "connect_cycle"}

TypeOK ==
    /\ desired \in Desired
    /\ mode \in {"stopped", "running", "fail_open", "repair_only"}
    /\ main \in MainPC
    /\ plan \in Desired \cup {None} /\ applied \in Desired \cup {None}
    /\ rejected \in BOOLEAN
    /\ hb \in {"idle", "await"}
    /\ {workerDead, repairReason, arpFailing, peerOpen, up, leaseExpired, upset, linkUp,
        failing} \subseteq BOOLEAN
    /\ conn \in Conn \cup {NoConn} /\ lastConn \in 0..MaxConns
    /\ serving \in Conn \cup {NoConn}
    /\ toWorker \in [Conn -> Seq(Request)] /\ toClient \in Seq(Reply)
    /\ backlog \in Seq(Conn)
    /\ running \in Desired \cup {None}
    /\ timer \in {"armed", "off"} /\ leasePc \in {"idle", "stop", "notify"}
    /\ \A what \in DOMAIN Limit : spent[what] \in 0..Limit[what]

Init ==
    /\ desired \in Desired
    /\ mode = "stopped"
    /\ main = "gone" /\ plan = None /\ applied = None /\ rejected = FALSE
    /\ hb = "idle" /\ workerDead = FALSE /\ repairReason = FALSE /\ arpFailing = FALSE
    /\ conn = NoConn /\ peerOpen = FALSE /\ lastConn = 0
    /\ toWorker = [c \in Conn |-> <<>>] /\ toClient = <<>>
    /\ up = TRUE /\ serving = NoConn /\ backlog = <<>> /\ running = None
    /\ leaseExpired = FALSE /\ timer = "armed" /\ leasePc = "idle" /\ upset = FALSE
    /\ linkUp = TRUE /\ failing = FALSE
    /\ spent = [what \in DOMAIN Limit |-> 0]

-----------------------------------------------------------------------------
(* WorkerClient. Its lock is held from send to reply, so a thread may send *)
(* only while the other is not waiting for its own reply.                  *)

LockFree == main # "await" /\ hb # "await"
Usable == conn # NoConn /\ peerOpen
Send(req) == toWorker' = [toWorker EXCEPT ![conn] = Append(@, req)]

\* recv reaches EOF: the worker's end is gone and nothing is left to read.
AtEof == ~peerOpen /\ toClient = <<>>

\* recv waits longer than the socket timeout.
TimesOut == peerOpen /\ toClient = <<>>

\* A fresh connection, which the worker will serve after the ones before it.
OpenConn ==
    /\ lastConn < MaxConns
    /\ lastConn' = lastConn + 1
    /\ conn' = lastConn + 1
    /\ peerOpen' = TRUE
    /\ toClient' = <<>>
    /\ backlog' = Append(backlog, lastConn + 1)
    /\ upset' = FALSE

CloseConn == conn' = NoConn /\ peerOpen' = FALSE /\ toClient' = <<>>

-----------------------------------------------------------------------------
(* The main loop: run(), run_cycle() and _reconnect().                     *)

\* readiness.wait_for_worker and the initialisation of run()'s locals.
ControllerStart ==
    /\ main = "gone" /\ up
    /\ Spend("starts")
    /\ OpenConn
    /\ main' = "top" /\ plan' = None /\ applied' = None /\ rejected' = FALSE
    /\ hb' = "idle" /\ workerDead' = FALSE /\ repairReason' = FALSE /\ arpFailing' = FALSE
    /\ UNCHANGED <<desired, mode, toWorker, up, serving, running, leaseVars, lanVars>>

\* heartbeat_worker_dead is set: clear it and reconnect, fail_open first.
NoticeDeadWorker ==
    /\ main = "top" /\ workerDead
    /\ workerDead' = FALSE
    /\ mode' = "fail_open"
    /\ main' = "close_heartbeat"
    /\ UNCHANGED <<desired, plan, applied, rejected, hb, repairReason, arpFailing, wireVars,
                   workerVars, leaseVars, lanVars, spent, upset>>

\* run_cycle up to reconcile: a new generation is due iff the desired state is
\* not the applied one.
ReadDesired ==
    /\ main = "top" /\ ~workerDead
    /\ plan' = desired
    /\ main' = IF applied = desired THEN "publish" ELSE "send"
    /\ UNCHANGED <<desired, mode, applied, rejected, hbVars, wireVars, workerVars, leaseVars,
                   lanVars, spent, upset>>

\* client.replace_targets; a dead socket raises WorkerConnectionError, which run()
\* turns into _reconnect.
SendTargets ==
    /\ main = "send" /\ LockFree
    /\ \/ /\ Usable
          /\ Send([op |-> "replace_targets", targets |-> plan])
          /\ main' = "await"
          /\ UNCHANGED mode
       \/ /\ ~Usable
          /\ mode' = "fail_open"
          /\ main' = "close_cycle"
          /\ UNCHANGED toWorker
    /\ UNCHANGED <<desired, plan, applied, rejected, hbVars, conn, peerOpen, lastConn, toClient,
                   workerVars, leaseVars, lanVars, spent, upset>>

\* The frame read as the reply: _request raises on a fault, _expect_op on any
\* other op than generation_applied; target_count and resolution_failures are
\* only logged.
ReceiveApplied ==
    /\ main = "await" /\ toClient # <<>>
    /\ LET f == Head(toClient)
       IN  /\ toClient' = Tail(toClient)
           /\ \/ /\ f.op = "generation_applied"
                 /\ applied' = plan /\ rejected' = ~f.accepted
                 /\ main' = "publish" /\ UNCHANGED mode
              \/ /\ f.op # "generation_applied"
                 /\ mode' = IF f.op = "fault" THEN "repair_only" ELSE "fail_open"
                 /\ main' = "repair" /\ UNCHANGED <<applied, rejected>>
    /\ UNCHANGED <<desired, plan, hbVars, conn, peerOpen, lastConn, toWorker, workerVars,
                   leaseVars, lanVars, spent, upset>>

\* recv fails or times out while the main loop waits.
LoseReply ==
    /\ main = "await"
    /\ \/ AtEof /\ UNCHANGED spent
       \/ TimesOut /\ Spend("timeouts")
    /\ mode' = "fail_open"
    /\ main' = "close_cycle"
    /\ UNCHANGED <<desired, plan, applied, rejected, hbVars, wireVars, workerVars, leaseVars,
                   lanVars, upset>>

\* The rest of a cycle that raised nothing: publish the policy, report health.
Publish ==
    /\ main = "publish"
    /\ mode' = IF arpFailing THEN "fail_open" ELSE "running"
    /\ main' = "repair"
    /\ UNCHANGED <<desired, plan, applied, rejected, hbVars, wireVars, workerVars, leaseVars,
                   lanVars, spent, upset>>

\* Any other exception in the cycle: reported, nothing else changes.
CycleRaises ==
    /\ main \in {"top", "publish"} /\ (main = "top" => ~workerDead)
    /\ Spend("faults")
    /\ mode' = "fail_open"
    /\ main' = "repair"
    /\ UNCHANGED <<desired, plan, applied, rejected, hbVars, wireVars, workerVars, leaseVars,
                   lanVars, upset>>

\* The end of an iteration: the pacer's repair-only reason is reported here.
ReportRepair ==
    /\ main = "repair"
    /\ repairReason' = FALSE
    /\ mode' = IF repairReason THEN "repair_only" ELSE mode
    /\ main' = "top"
    /\ UNCHANGED <<desired, plan, applied, rejected, hb, workerDead, arpFailing, wireVars,
                   workerVars, leaseVars, lanVars, spent, upset>>

\* _reconnect: client.close() (under the client's lock) ...
Close ==
    /\ main \in {"close_heartbeat", "close_cycle"} /\ LockFree
    /\ CloseConn
    /\ main' = IF main = "close_heartbeat" THEN "connect_heartbeat" ELSE "connect_cycle"
    /\ UNCHANGED <<desired, mode, plan, applied, rejected, hbVars, lastConn, toWorker,
                   workerVars, leaseVars, lanVars, spent, upset>>

\* Mutant: what was applied to the old connection's worker is kept.
ConnectKeepsApplied ==
    /\ main \in {"connect_heartbeat", "connect_cycle"}
    /\ \/ up /\ OpenConn
       \/ ~up /\ UNCHANGED <<conn, peerOpen, lastConn, toClient, backlog, upset>>
    /\ main' = IF main = "connect_heartbeat" THEN "top" ELSE "repair"
    /\ UNCHANGED <<desired, mode, plan, applied, rejected, hbVars, toWorker, up, serving, running,
                   leaseVars, lanVars, spent>>

\* ... then one connection attempt; applied is forgotten only if it succeeds. Only
\* the path through run_cycle goes on to the repair-only check.
Connect ==
    /\ main \in {"connect_heartbeat", "connect_cycle"}
    /\ \/ up /\ OpenConn /\ applied' = None /\ rejected' = FALSE
       \/ ~up /\ UNCHANGED <<conn, peerOpen, lastConn, toClient, backlog, applied, rejected,
                               upset>>
    /\ main' = IF main = "connect_heartbeat" THEN "top" ELSE "repair"
    /\ UNCHANGED <<desired, mode, plan, hbVars, toWorker, up, serving, running, leaseVars,
                   lanVars, spent>>

\* SIGTERM: the finally block joins the pacer, sends shutdown and closes.
ControllerStop ==
    /\ main = "top" /\ hb = "idle"
    /\ IF Usable THEN Send([op |-> "shutdown"]) ELSE UNCHANGED toWorker
    /\ CloseConn
    /\ main' = "gone"
    /\ UNCHANGED <<desired, mode, plan, applied, rejected, hbVars, lastConn, workerVars,
                   leaseVars, lanVars, spent, upset>>

\* SIGKILL: the kernel closes the socket.
ControllerCrash ==
    /\ main # "gone"
    /\ CloseConn
    /\ main' = "gone" /\ hb' = "idle"
    /\ UNCHANGED <<desired, mode, plan, applied, rejected, workerDead, repairReason, arpFailing,
                   lastConn, toWorker, workerVars, leaseVars, lanVars, spent, upset>>

-----------------------------------------------------------------------------
(* The heartbeat pacer.                                                    *)

\* Mutant: a heartbeat that cannot be sent is only logged.
HeartbeatSendIgnoresLoss ==
    /\ main # "gone" /\ hb = "idle" /\ LockFree /\ Usable
    /\ Send([op |-> "heartbeat"])
    /\ hb' = "await"
    /\ UNCHANGED <<desired, mode, mainVars, workerDead, repairReason, arpFailing, conn, peerOpen,
                   lastConn, toClient, workerVars, leaseVars, lanVars, spent, upset>>

\* _send_heartbeat on a client that is closed or whose worker is gone fails with
\* WorkerConnectionError; the window of _reconnect is the documented race.
HeartbeatSend ==
    /\ main # "gone" /\ hb = "idle" /\ LockFree
    /\ IF Usable
       THEN /\ Send([op |-> "heartbeat"])
            /\ hb' = "await"
            /\ UNCHANGED <<workerDead, spent>>
       ELSE /\ IF main \in {"connect_heartbeat", "connect_cycle"}
               THEN Spend("races") ELSE UNCHANGED spent
            /\ workerDead' = TRUE
            /\ UNCHANGED <<hb, toWorker>>
    /\ UNCHANGED <<desired, mode, mainVars, repairReason, arpFailing, conn, peerOpen, lastConn,
                   toClient, workerVars, leaseVars, lanVars, upset>>

\* Mutant: a fault read by the pacer is only logged.
HeartbeatReceiveDropsFault ==
    /\ hb = "await" /\ toClient # <<>>
    /\ toClient' = Tail(toClient)
    /\ arpFailing' = IF Head(toClient).op = "heartbeat_ack" THEN Head(toClient).failing ELSE arpFailing
    /\ hb' = "idle"
    /\ UNCHANGED <<desired, mode, mainVars, workerDead, repairReason, conn, peerOpen, lastConn,
                   toWorker, workerVars, leaseVars, lanVars, spent, upset>>

\* The frame read as the ack: its sequence number is not compared with the one
\* sent; a frame of another op is an error that is only logged.
HeartbeatReceive ==
    /\ hb = "await" /\ toClient # <<>>
    /\ LET f == Head(toClient)
       IN  /\ toClient' = Tail(toClient)
           /\ repairReason' = (repairReason \/ f.op = "fault")
           /\ arpFailing' = IF f.op = "heartbeat_ack" THEN f.failing ELSE arpFailing
    /\ hb' = "idle"
    /\ UNCHANGED <<desired, mode, mainVars, workerDead, conn, peerOpen, lastConn, toWorker,
                   workerVars, leaseVars, lanVars, spent, upset>>

HeartbeatLost ==
    /\ hb = "await"
    /\ \/ AtEof /\ UNCHANGED spent
       \/ TimesOut /\ Spend("timeouts")
    /\ hb' = "idle"
    /\ workerDead' = TRUE
    /\ UNCHANGED <<desired, mode, mainVars, repairReason, arpFailing, wireVars, workerVars,
                   leaseVars, lanVars, upset>>

-----------------------------------------------------------------------------
(* The worker's IPC server: Serve, handleConn, dispatch.                   *)

Accept ==
    /\ up /\ serving = NoConn /\ backlog # <<>>
    /\ serving' = Head(backlog)
    /\ backlog' = Tail(backlog)
    /\ UNCHANGED <<desired, mode, mainVars, hbVars, wireVars, up, running, leaseVars, lanVars,
                   spent, upset>>

\* A reply on a connection its client has closed fails, and handleConn returns.
Answer(frame) ==
    IF serving = conn
    THEN /\ toClient' = Append(toClient, frame)
         /\ toWorker' = [toWorker EXCEPT ![serving] = Tail(@)]
         /\ UNCHANGED serving
    ELSE /\ toWorker' = [toWorker EXCEPT ![serving] = <<>>]
         /\ serving' = NoConn
         /\ UNCHANGED toClient

Incoming(op) ==
    /\ up /\ serving # NoConn
    /\ toWorker[serving] # <<>> /\ Head(toWorker[serving]).op = op

\* Mutant: the lease is not re-armed for the new generation.
HandleReplaceTargetsNoRearm ==
    /\ Incoming("replace_targets")
    /\ running' = Head(toWorker[serving]).targets
    /\ Answer([op |-> "generation_applied", accepted |-> TRUE])
    /\ UNCHANGED <<desired, mode, mainVars, hbVars, conn, peerOpen, lastConn, up, backlog,
                   leaseVars, lanVars, spent, upset>>

\* HandleReplaceTargets: ApplyGeneration, then Rearm.
HandleReplaceTargets ==
    /\ Incoming("replace_targets")
    /\ running' = Head(toWorker[serving]).targets
    /\ leaseExpired' = FALSE /\ timer' = "armed"
    /\ Answer([op |-> "generation_applied", accepted |-> TRUE])
    /\ UNCHANGED <<desired, mode, mainVars, hbVars, conn, peerOpen, lastConn, up, backlog,
                   leasePc, lanVars, spent, upset>>

\* Mutant: the request comes back.
RejectGenerationEchoes ==
    /\ Incoming("replace_targets")
    /\ Spend("rejects")
    /\ Answer(Head(toWorker[serving]))
    /\ UNCHANGED <<desired, mode, mainVars, hbVars, conn, peerOpen, lastConn, up, backlog,
                   running, leaseVars, lanVars, upset>>

\* rejectGeneration: nothing applied, the lease not re-armed, the same op replied.
RejectGeneration ==
    /\ Incoming("replace_targets")
    /\ Spend("rejects")
    /\ Answer([op |-> "generation_applied", accepted |-> FALSE])
    /\ UNCHANGED <<desired, mode, mainVars, hbVars, conn, peerOpen, lastConn, up, backlog,
                   running, leaseVars, lanVars, upset>>

HandleHeartbeat ==
    /\ Incoming("heartbeat")
    /\ timer' = IF leaseExpired THEN timer ELSE "armed"
    /\ Answer([op |-> "heartbeat_ack", failing |-> failing])
    /\ UNCHANGED <<desired, mode, mainVars, hbVars, conn, peerOpen, lastConn, up, backlog,
                   running, leaseExpired, leasePc, lanVars, spent, upset>>

\* HandleShutdown stops the generation; dispatch then ends the connection.
HandleShutdown ==
    /\ Incoming("shutdown")
    /\ running' = None
    /\ toWorker' = [toWorker EXCEPT ![serving] = <<>>]
    /\ serving' = NoConn
    /\ UNCHANGED <<desired, mode, mainVars, hbVars, conn, peerOpen, lastConn, toClient, up,
                   backlog, leaseVars, lanVars, spent, upset>>

\* scanner.Scan() sees the end of a connection the controller closed.
EndOfConn ==
    /\ up /\ serving # NoConn /\ serving # conn /\ toWorker[serving] = <<>>
    /\ serving' = NoConn
    /\ UNCHANGED <<desired, mode, mainVars, hbVars, wireVars, up, backlog, running, leaseVars,
                   lanVars, spent, upset>>

-----------------------------------------------------------------------------
(* The lease. While the controller lives, an expiry means its heartbeats   *)
(* came too late (a stall longer than the lease).                          *)

LeaseExpires ==
    /\ up /\ timer = "armed" /\ leasePc = "idle" /\ ~leaseExpired
    /\ IF main = "gone" THEN UNCHANGED spent ELSE Spend("expiries")
    /\ leaseExpired' = TRUE /\ timer' = "off" /\ leasePc' = "stop"
    /\ UNCHANGED <<desired, mode, mainVars, hbVars, wireVars, workerVars, lanVars, upset>>

\* onLeaseExpired: Worker.Shutdown ...
LeaseShutdown ==
    /\ up /\ leasePc = "stop"
    /\ running' = None
    /\ leasePc' = "notify"
    /\ upset' = TRUE
    /\ UNCHANGED <<desired, mode, mainVars, hbVars, wireVars, up, serving, backlog,
                   leaseExpired, timer, lanVars, spent>>

\* ... then Notify, lost unless a connection is being served and still open.
LeaseNotify ==
    /\ up /\ leasePc = "notify"
    /\ toClient' = IF serving # NoConn /\ serving = conn
                   THEN Append(toClient, [op |-> "fault"]) ELSE toClient
    /\ leasePc' = "idle"
    /\ upset' = (upset \/ (serving # NoConn /\ serving = conn))
    /\ UNCHANGED <<desired, mode, mainVars, hbVars, conn, peerOpen, lastConn, toWorker,
                   workerVars, leaseExpired, timer, lanVars, spent>>

-----------------------------------------------------------------------------
(* The environment.                                                        *)

DesiredChanges ==
    /\ Spend("changes")
    /\ \E d \in Desired \ {desired} : desired' = d
    /\ UNCHANGED <<mode, mainVars, hbVars, wireVars, workerVars, leaseVars, lanVars, upset>>

WorkerCrash ==
    /\ up /\ Spend("crashes")
    /\ up' = FALSE /\ serving' = NoConn /\ backlog' = <<>> /\ running' = None
    /\ toWorker' = [c \in Conn |-> <<>>]
    /\ peerOpen' = FALSE
    /\ leasePc' = "idle" /\ timer' = "off" /\ leaseExpired' = FALSE
    /\ failing' = FALSE
    /\ UNCHANGED <<desired, mode, mainVars, hbVars, conn, lastConn, toClient, linkUp, upset>>

WorkerStart ==
    /\ ~up
    /\ up' = TRUE /\ timer' = "armed"
    /\ UNCHANGED <<desired, mode, mainVars, hbVars, wireVars, serving, backlog, running,
                   leaseExpired, leasePc, lanVars, spent, upset>>

\* The interface goes down or up; a running generation's next ticks count it.
LinkChanges ==
    /\ Spend("faults")
    /\ linkUp' = ~linkUp
    /\ UNCHANGED <<desired, mode, mainVars, hbVars, wireVars, workerVars, leaseVars, failing,
                   upset>>

Tick ==
    /\ up /\ running # None /\ failing # ~linkUp
    /\ failing' = ~linkUp
    /\ UNCHANGED <<desired, mode, mainVars, hbVars, wireVars, workerVars, leaseVars, linkUp,
                   spent, upset>>

-----------------------------------------------------------------------------
MainStep ==
    \/ NoticeDeadWorker \/ ReadDesired \/ SendTargets \/ ReceiveApplied \/ Publish
    \/ ReportRepair \/ Close \/ Connect \/ (AtEof /\ LoseReply)

WorkerStep ==
    \/ Accept \/ HandleReplaceTargets \/ HandleHeartbeat \/ HandleShutdown \/ EndOfConn

Next ==
    \/ ControllerStart \/ NoticeDeadWorker \/ ReadDesired \/ SendTargets \/ ReceiveApplied
    \/ LoseReply \/ Publish \/ CycleRaises \/ ReportRepair \/ Close \/ Connect
    \/ ControllerStop \/ ControllerCrash
    \/ HeartbeatSend \/ HeartbeatReceive \/ HeartbeatLost
    \/ Accept \/ HandleReplaceTargets \/ RejectGeneration \/ HandleHeartbeat
    \/ HandleShutdown \/ EndOfConn
    \/ LeaseExpires \/ LeaseShutdown \/ LeaseNotify
    \/ DesiredChanges \/ WorkerCrash \/ WorkerStart \/ LinkChanges \/ Tick

Spec == Init /\ [][Next]_vars

\* Each thread keeps running (both sleep between their requests, so neither keeps
\* the other from the client's lock for ever), the worker's supervisor restarts it,
\* and a lease that nobody renews runs out. Nothing in the environment is forced.
Fairness ==
    /\ SF_vars(MainStep)
    /\ SF_vars(HeartbeatSend) /\ WF_vars(HeartbeatReceive) /\ WF_vars(AtEof /\ HeartbeatLost)
    /\ WF_vars(WorkerStep) /\ WF_vars(WorkerStart) /\ WF_vars(Tick)
    /\ WF_vars(LeaseShutdown) /\ WF_vars(LeaseNotify)
    /\ WF_vars(main = "gone" /\ LeaseExpires)

FairSpec == Spec /\ Fairness

-----------------------------------------------------------------------------
(* Properties.                                                             *)

\* "applied" is what the worker poisons: whatever was lost, late, retried or sent
\* on a connection since replaced, a generation the controller holds for applied
\* (and that was not rejected) is the one running, as long as its connection
\* lives and the lease has not stepped in. A late request of an old connection
\* never overrides a newer generation.
AppliedIsRunning ==
    (/\ main \in {"top", "publish", "repair"} /\ Usable /\ ~workerDead
     /\ applied # None /\ ~rejected /\ ~upset)
        => running = applied

\* run()'s docstring, "a dead worker could otherwise go undetected indefinitely":
\* the loss of the worker is reported as fail_open, even when the desired state
\* never changes and no request but the pacer's uses the connection.
LossIsReported ==
    (conn # NoConn /\ ~peerOpen) ~> (mode = "fail_open" \/ main = "gone")

\* Through any finite number of crashes, restarts, timeouts and changes, a controller
\* that stays alive brings the worker to the desired generation and says so.
Converges ==
    <>[](main # "gone" /\ linkUp /\ ~rejected /\ ~upset)
        => <>[](running = desired /\ mode = "running")

\* The fail-open lease: a controller that never comes back leaves no generation
\* running, even if its last requests are handled after its death.
AbandonedWorkerStops == <>[](main = "gone") => <>[](running = None)

\* Notify's contract: the lease's fault is read as the reply to some request and
\* surfaces as repair_only, whichever thread sent that request.
Faulted == \E i \in DOMAIN toClient : toClient[i].op = "fault"
FaultIsReported == Faulted ~> (mode = "repair_only" \/ conn = NoConn)

\* onLeaseExpired, on what its notification prevents: "interception would silently and
\* permanently stop while interception_runtime.mode kept reading running forever".
NeverSilentlyStopped == ~<>[](main # "gone" /\ mode = "running" /\ running # desired)
=============================================================================
