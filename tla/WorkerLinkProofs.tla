-------------------------- MODULE WorkerLinkProofs --------------------------
(***************************************************************************)
(* What the controller holds for applied is what the worker poisons, for   *)
(* any target sets and bounds.                                             *)
(*                                                                         *)
(* AppliedIsRunning says nothing while a request is under way, so it is    *)
(* not inductive.  Replies carry no number: what makes one the answer to   *)
(* its request is that, on a connection that has seen no fault and no      *)
(* timeout, requests and replies go in lockstep (Lockstep): at most one    *)
(* frame is between the two processes, and it belongs to the thread that   *)
(* waits.  A connection that has once been answered on is the one being    *)
(* served (Held), hence no request of an older one can follow.             *)
(***************************************************************************)
EXTENDS WorkerLink, SequenceTheorems, TLAPS

\* The controller is on a connection on which nothing has gone wrong.
InTouch ==
    /\ main \in {"top", "send", "await", "publish", "repair"}
    /\ Usable /\ ~workerDead /\ ~upset

\* Nothing is between the two.
Silent == toWorker[conn] = <<>> /\ toClient = <<>>

\* The main loop's request, or its answer.
Applying ==
    \/ toWorker[conn] = <<[op |-> "replace_targets", targets |-> plan]>> /\ toClient = <<>>
    \/ /\ toWorker[conn] = <<>> /\ serving = conn
       /\ \E ok \in BOOLEAN : /\ toClient = <<[op |-> "generation_applied", accepted |-> ok]>>
                              /\ ok => running = plan

\* The pacer's request, or its answer.
Beating ==
    \/ toWorker[conn] = <<[op |-> "heartbeat"]>> /\ toClient = <<>>
    \/ /\ toWorker[conn] = <<>>
       /\ \E ok \in BOOLEAN : toClient = <<[op |-> "heartbeat_ack", failing |-> ok]>>

Lockstep ==
    InTouch => /\ main = "await" => Applying
               /\ hb = "await" => Beating
               /\ LockFree => Silent

\* The generation that was answered for, on the connection being served.
Held ==
    (InTouch /\ main \in {"top", "publish", "repair"} /\ applied # None)
        => serving = conn /\ (rejected \/ running = applied)

\* The client's lock, and where there is no connection.
Client ==
    /\ main # "await" \/ hb # "await"
    /\ conn <= lastConn
    /\ conn = NoConn => main # "await" /\ hb # "await"
    /\ main \in {"gone", "connect_heartbeat", "connect_cycle"} => conn = NoConn

\* Nothing was sent on a connection yet to be opened.
Unopened == \A c \in Conn : c > lastConn => toWorker[c] = <<>>

\* What travels.
Wire ==
    /\ toWorker \in [Conn -> Seq(Request)] /\ toClient \in Seq(Reply) /\ backlog \in Seq(Conn)
    /\ conn \in Conn \cup {NoConn} /\ lastConn \in 0..MaxConns /\ serving \in Conn \cup {NoConn}

\* The budgets.
Budget ==
    /\ spent \in [DOMAIN Limit -> Nat]
    /\ \A what \in DOMAIN Limit : spent[what] \in 0..Limit[what]

\* The rest of the types; a request that is to be sent has its targets.
Locals ==
    /\ desired \in Desired
    /\ mode \in {"stopped", "running", "fail_open", "repair_only"}
    /\ main \in MainPC
    /\ plan \in Desired \cup {None} /\ applied \in Desired \cup {None}
    /\ rejected \in BOOLEAN
    /\ hb \in {"idle", "await"}
    /\ workerDead \in BOOLEAN /\ repairReason \in BOOLEAN /\ arpFailing \in BOOLEAN
    /\ peerOpen \in BOOLEAN /\ up \in BOOLEAN /\ leaseExpired \in BOOLEAN /\ upset \in BOOLEAN
    /\ linkUp \in BOOLEAN /\ failing \in BOOLEAN
    /\ running \in Desired \cup {None}
    /\ timer \in {"armed", "off"} /\ leasePc \in {"idle", "stop", "notify"}
    /\ main = "send" => plan \in Desired

Types == Wire /\ Budget /\ Locals

IRest == Client /\ Unopened /\ Lockstep /\ Held

IInv == Types /\ IRest

-----------------------------------------------------------------------------
(* Types.                                                                  *)

LEMMA Limits == \A w \in DOMAIN Limit : Limit[w] \in Nat
  BY BoundsAssumption DEF Limit

LEMMA TypesSuffice == Types => TypeOK
  BY DEF Types, Wire, Budget, Locals, TypeOK

LEMMA InitTypes == Init => Types
<1> SUFFICES ASSUME Init PROVE Types
  OBVIOUS
<1>1. /\ spent \in [DOMAIN Limit -> Nat]
      /\ \A w \in DOMAIN Limit : spent[w] \in 0 .. Limit[w]
  <2>1. spent = [w \in DOMAIN Limit |-> 0]
    BY DEF Init
  <2> QED  BY <2>1, Limits
<1>2. toWorker \in [Conn -> Seq(Request)] /\ toClient \in Seq(Reply) /\ backlog \in Seq(Conn)
  BY DEF Init
<1>3. Wire
  BY <1>2, BoundsAssumption DEF Init, Wire, Conn, NoConn
<1>4. Locals
  BY DEF Init, Locals, MainPC
<1> QED  BY <1>1, <1>3, <1>4 DEF Types, Budget

LEMMA Spending == ASSUME Types, NEW what \in DOMAIN Limit, Spend(what) PROVE Budget'
<1>1. spent[what] < Limit[what] /\ spent' = [spent EXCEPT ![what] = @ + 1]
  BY DEF Spend
<1> QED  BY <1>1, Limits DEF Types, Budget

LEMMA Budgets ==
    ASSUME Types,
           \/ spent' = spent
           \/ Spend("starts") \/ Spend("timeouts") \/ Spend("faults") \/ Spend("races")
           \/ Spend("rejects") \/ Spend("expiries") \/ Spend("changes") \/ Spend("crashes")
    PROVE  Budget'
<1>1. CASE spent' = spent
  BY <1>1 DEF Budget, Types
<1>2. {"starts", "timeouts", "faults", "races", "rejects", "expiries", "changes", "crashes"}
          \subseteq DOMAIN Limit
  BY DEF Limit
<1> QED  BY <1>1, <1>2, Spending

LEMMA SendKeeps ==
    ASSUME Wire, Usable, NEW req \in Request, Send(req)
    PROVE  toWorker' \in [Conn -> Seq(Request)]
  BY DEF Wire, Usable, Send, NoConn

LEMMA Requests ==
    /\ [op |-> "heartbeat"] \in Request /\ [op |-> "shutdown"] \in Request
    /\ \A d \in Desired : [op |-> "replace_targets", targets |-> d] \in Request
  BY DEF Request

LEMMA Replies ==
    /\ [op |-> "fault"] \in Reply
    /\ \A b \in BOOLEAN : /\ [op |-> "heartbeat_ack", failing |-> b] \in Reply
                          /\ [op |-> "generation_applied", accepted |-> b] \in Reply
  BY DEF Reply

\* The frame at the head of a queue.
LEMMA Received ==
    ASSUME Wire, toClient # <<>>
    PROVE  /\ Tail(toClient) \in Seq(Reply)
           /\ Head(toClient).op = "generation_applied" => Head(toClient).accepted \in BOOLEAN
           /\ Head(toClient).op = "heartbeat_ack" => Head(toClient).failing \in BOOLEAN
<1>1. Head(toClient) \in Reply /\ Tail(toClient) \in Seq(Reply)
  BY DEF Wire
<1> QED  BY <1>1 DEF Reply

LEMMA Handled ==
    ASSUME Wire, NEW op, Incoming(op)
    PROVE  /\ serving \in Conn /\ Tail(toWorker[serving]) \in Seq(Request)
           /\ op = "replace_targets" => Head(toWorker[serving]).targets \in Desired
<1>1. serving \in Conn /\ toWorker[serving] \in Seq(Request) /\ toWorker[serving] # <<>>
  BY DEF Wire, Incoming, NoConn
<1>2. Head(toWorker[serving]) \in Request /\ Tail(toWorker[serving]) \in Seq(Request)
  BY <1>1
<1> QED  BY <1>1, <1>2 DEF Request, Incoming

LEMMA AnswerKeeps ==
    ASSUME Wire, NEW op, Incoming(op), NEW frame \in Reply, Answer(frame),
           backlog' = backlog, conn' = conn, lastConn' = lastConn
    PROVE  Wire'
<1>1. serving \in Conn /\ Tail(toWorker[serving]) \in Seq(Request) /\ <<>> \in Seq(Request)
  BY Handled
<1>2. toWorker' \in [Conn -> Seq(Request)]
  BY <1>1 DEF Wire, Answer
<1>3. toClient' \in Seq(Reply)
  <2>1. Append(toClient, frame) \in Seq(Reply)
    BY AppendProperties DEF Wire
  <2> QED  BY <2>1 DEF Wire, Answer
<1>4. serving' \in Conn \cup {NoConn}
  BY <1>1 DEF Answer
<1> QED  BY <1>2, <1>3, <1>4 DEF Wire

LEMMA OpenKeeps ==
    ASSUME Wire, OpenConn, toWorker' = toWorker, serving' = serving
    PROVE  Wire'
<1>1. lastConn + 1 \in Conn /\ lastConn + 1 \in 0..MaxConns
  BY BoundsAssumption DEF Wire, OpenConn, Conn
<1> QED  BY <1>1 DEF Wire, OpenConn

LEMMA ControllerTypes ==
    ASSUME Types, ReadDesired \/ SendTargets \/ ReceiveApplied \/ LoseReply \/ Publish \/
               CycleRaises \/ ReportRepair \/ NoticeDeadWorker
    PROVE  Types'
<1> USE DEF mainVars, hbVars, wireVars, workerVars, leaseVars, lanVars
<1>0. Wire /\ Locals
  BY DEF Types
<1>1. Budget'
  BY Budgets DEF ReadDesired, SendTargets, ReceiveApplied, LoseReply, Publish, CycleRaises,
     ReportRepair, NoticeDeadWorker
<1>2. Wire'
  <2>1. CASE ReadDesired
    BY <2>1, <1>0 DEF ReadDesired, Wire
  <2>2. CASE SendTargets
    <3>1. CASE Send([op |-> "replace_targets", targets |-> plan]) /\ Usable
      <4>1. toWorker' \in [Conn -> Seq(Request)]
        BY <3>1, <2>2, <1>0, SendKeeps, Requests DEF SendTargets, Locals
      <4> QED  BY <4>1, <2>2, <1>0 DEF SendTargets, Wire
    <3>2. CASE toWorker' = toWorker
      BY <3>2, <2>2, <1>0 DEF SendTargets, Wire
    <3> QED  BY <3>1, <3>2, <2>2 DEF SendTargets
  <2>3. CASE ReceiveApplied
    BY <2>3, <1>0, Received DEF ReceiveApplied, Wire
  <2>4. CASE LoseReply
    BY <2>4, <1>0 DEF LoseReply, Wire
  <2>5. CASE Publish
    BY <2>5, <1>0 DEF Publish, Wire
  <2>6. CASE CycleRaises
    BY <2>6, <1>0 DEF CycleRaises, Wire
  <2>7. CASE ReportRepair
    BY <2>7, <1>0 DEF ReportRepair, Wire
  <2>8. CASE NoticeDeadWorker
    BY <2>8, <1>0 DEF NoticeDeadWorker, Wire
  <2> QED  BY <2>1, <2>2, <2>3, <2>4, <2>5, <2>6, <2>7, <2>8
<1>3. Locals'
  <2>1. CASE ReadDesired
    BY <2>1, <1>0 DEF ReadDesired, Locals, MainPC
  <2>2. CASE SendTargets
    BY <2>2, <1>0 DEF SendTargets, Locals, MainPC
  <2>3. CASE ReceiveApplied
    <3>1. CASE Head(toClient).op = "generation_applied"
      <4>1. rejected' \in BOOLEAN
        BY <3>1, <2>3 DEF ReceiveApplied
      <4> QED  BY <4>1, <3>1, <2>3, <1>0 DEF ReceiveApplied, Locals, MainPC
    <3>2. CASE Head(toClient).op # "generation_applied"
      BY <3>2, <2>3, <1>0 DEF ReceiveApplied, Locals, MainPC
    <3> QED  BY <3>1, <3>2
  <2>4. CASE LoseReply
    BY <2>4, <1>0 DEF LoseReply, Locals, MainPC
  <2>5. CASE Publish
    BY <2>5, <1>0 DEF Publish, Locals, MainPC
  <2>6. CASE CycleRaises
    BY <2>6, <1>0 DEF CycleRaises, Locals, MainPC
  <2>7. CASE ReportRepair
    <3>1. repairReason' \in BOOLEAN
      BY <2>7 DEF ReportRepair
    <3> QED  BY <3>1, <2>7, <1>0 DEF ReportRepair, Locals, MainPC
  <2>8. CASE NoticeDeadWorker
    <3>1. workerDead' \in BOOLEAN
      BY <2>8 DEF NoticeDeadWorker
    <3> QED  BY <3>1, <2>8, <1>0 DEF NoticeDeadWorker, Locals, MainPC
  <2> QED  BY <2>1, <2>2, <2>3, <2>4, <2>5, <2>6, <2>7, <2>8
<1> QED  BY <1>1, <1>2, <1>3 DEF Types

LEMMA ConnectionTypes ==
    ASSUME Types, ControllerStart \/ Close \/ Connect \/ ControllerStop \/ ControllerCrash
    PROVE  Types'
<1> USE DEF mainVars, hbVars, wireVars, workerVars, leaseVars, lanVars
<1>0. Wire /\ Locals
  BY DEF Types
<1>1. Budget'
  BY Budgets DEF ControllerStart, Close, Connect, ControllerStop, ControllerCrash
<1>2. Wire'
  <2>1. CASE ControllerStart
    BY <2>1, <1>0, OpenKeeps DEF ControllerStart
  <2>2. CASE Close
    BY <2>2, <1>0 DEF Close, CloseConn, Wire
  <2>3. CASE Connect
    <3>1. CASE OpenConn
      BY <3>1, <2>3, <1>0, OpenKeeps DEF Connect
    <3>2. CASE ~OpenConn
      BY <3>2, <2>3, <1>0 DEF Connect, Wire
    <3> QED  BY <3>1, <3>2
  <2>4. CASE ControllerStop
    <3>1. toWorker' \in [Conn -> Seq(Request)]
      <4>1. CASE Usable
        BY <4>1, <2>4, <1>0, SendKeeps, Requests DEF ControllerStop
      <4> QED  BY <4>1, <2>4, <1>0 DEF ControllerStop, Wire
    <3> QED  BY <3>1, <2>4, <1>0 DEF ControllerStop, CloseConn, Wire
  <2>5. CASE ControllerCrash
    BY <2>5, <1>0 DEF ControllerCrash, CloseConn, Wire
  <2> QED  BY <2>1, <2>2, <2>3, <2>4, <2>5
<1>3. Locals'
  <2>1. CASE ControllerStart
    BY <2>1, <1>0 DEF ControllerStart, OpenConn, Locals, MainPC
  <2>2. CASE Close
    <3>1. peerOpen' \in BOOLEAN
      BY <2>2 DEF Close, CloseConn
    <3> QED  BY <3>1, <2>2, <1>0 DEF Close, CloseConn, Locals, MainPC
  <2>3. CASE Connect
    <3>1. /\ upset' \in BOOLEAN /\ rejected' \in BOOLEAN /\ peerOpen' \in BOOLEAN
          /\ applied' \in Desired \cup {None}
      BY <2>3, <1>0 DEF Connect, OpenConn, Locals
    <3> QED  BY <3>1, <2>3, <1>0 DEF Connect, OpenConn, Locals, MainPC
  <2>4. CASE ControllerStop
    <3>1. peerOpen' \in BOOLEAN
      BY <2>4 DEF ControllerStop, CloseConn
    <3> QED  BY <3>1, <2>4, <1>0 DEF ControllerStop, CloseConn, Locals, MainPC
  <2>5. CASE ControllerCrash
    <3>1. peerOpen' \in BOOLEAN
      BY <2>5 DEF ControllerCrash, CloseConn
    <3> QED  BY <3>1, <2>5, <1>0 DEF ControllerCrash, CloseConn, Locals, MainPC
  <2> QED  BY <2>1, <2>2, <2>3, <2>4, <2>5
<1> QED  BY <1>1, <1>2, <1>3 DEF Types

LEMMA PacerTypes ==
    ASSUME Types, HeartbeatSend \/ HeartbeatReceive \/ HeartbeatLost
    PROVE  Types'
<1> USE DEF mainVars, hbVars, wireVars, workerVars, leaseVars, lanVars
<1>0. Wire /\ Locals
  BY DEF Types
<1>1. Budget'
  BY Budgets DEF HeartbeatSend, HeartbeatReceive, HeartbeatLost
<1>2. Wire'
  <2>1. CASE HeartbeatSend
    <3>1. toWorker' \in [Conn -> Seq(Request)]
      <4>1. CASE Usable
        BY <4>1, <2>1, <1>0, SendKeeps, Requests DEF HeartbeatSend
      <4> QED  BY <4>1, <2>1, <1>0 DEF HeartbeatSend, Wire
    <3> QED  BY <3>1, <2>1, <1>0 DEF HeartbeatSend, Wire
  <2>2. CASE HeartbeatReceive
    BY <2>2, <1>0, Received DEF HeartbeatReceive, Wire
  <2>3. CASE HeartbeatLost
    BY <2>3, <1>0 DEF HeartbeatLost, Wire
  <2> QED  BY <2>1, <2>2, <2>3
<1>3. Locals'
  <2>1. CASE HeartbeatSend
    <3>1. workerDead' \in BOOLEAN /\ hb' \in {"idle", "await"}
      BY <2>1, <1>0 DEF HeartbeatSend, Locals
    <3> QED  BY <3>1, <2>1, <1>0 DEF HeartbeatSend, Locals
  <2>2. CASE HeartbeatReceive
    BY <2>2, <1>0, Received DEF HeartbeatReceive, Locals
  <2>3. CASE HeartbeatLost
    BY <2>3, <1>0 DEF HeartbeatLost, Locals
  <2> QED  BY <2>1, <2>2, <2>3
<1> QED  BY <1>1, <1>2, <1>3 DEF Types

LEMMA WorkerTypes ==
    ASSUME Types, Accept \/ HandleReplaceTargets \/ RejectGeneration \/ HandleHeartbeat \/
               HandleShutdown \/ EndOfConn
    PROVE  Types'
<1> USE DEF mainVars, hbVars, wireVars, workerVars, leaseVars, lanVars
<1>0. Wire /\ Locals
  BY DEF Types
<1>1. Budget'
  BY Budgets DEF Accept, HandleReplaceTargets, RejectGeneration, HandleHeartbeat,
     HandleShutdown, EndOfConn
<1>2. Wire'
  <2>1. CASE Accept
    <3>1. Head(backlog) \in Conn /\ Tail(backlog) \in Seq(Conn)
      BY <2>1, <1>0 DEF Accept, Wire
    <3> QED  BY <3>1, <2>1, <1>0 DEF Accept, Wire
  <2>2. CASE HandleReplaceTargets
    BY <2>2, <1>0, AnswerKeeps, Replies DEF HandleReplaceTargets
  <2>3. CASE RejectGeneration
    BY <2>3, <1>0, AnswerKeeps, Replies DEF RejectGeneration
  <2>4. CASE HandleHeartbeat
    <3>1. [op |-> "heartbeat_ack", failing |-> failing] \in Reply
      BY <1>0, Replies DEF Locals
    <3> QED  BY <3>1, <2>4, <1>0, AnswerKeeps DEF HandleHeartbeat
  <2>5. CASE HandleShutdown
    BY <2>5, <1>0, Handled DEF HandleShutdown, Wire
  <2>6. CASE EndOfConn
    BY <2>6, <1>0 DEF EndOfConn, Wire
  <2> QED  BY <2>1, <2>2, <2>3, <2>4, <2>5, <2>6
<1>3. Locals'
  <2>1. CASE Accept
    BY <2>1, <1>0 DEF Accept, Locals
  <2>2. CASE HandleReplaceTargets
    <3>1. leaseExpired' \in BOOLEAN
      BY <2>2 DEF HandleReplaceTargets
    <3> QED  BY <3>1, <2>2, <1>0, Handled DEF HandleReplaceTargets, Locals
  <2>3. CASE RejectGeneration
    BY <2>3, <1>0 DEF RejectGeneration, Locals
  <2>4. CASE HandleHeartbeat
    BY <2>4, <1>0 DEF HandleHeartbeat, Locals
  <2>5. CASE HandleShutdown
    BY <2>5, <1>0 DEF HandleShutdown, Locals
  <2>6. CASE EndOfConn
    BY <2>6, <1>0 DEF EndOfConn, Locals
  <2> QED  BY <2>1, <2>2, <2>3, <2>4, <2>5, <2>6
<1> QED  BY <1>1, <1>2, <1>3 DEF Types

LEMMA LeaseTypes ==
    ASSUME Types, LeaseExpires \/ LeaseShutdown \/ LeaseNotify
    PROVE  Types'
<1> USE DEF mainVars, hbVars, wireVars, workerVars, leaseVars, lanVars
<1>0. Wire /\ Locals
  BY DEF Types
<1>1. Budget'
  BY Budgets DEF LeaseExpires, LeaseShutdown, LeaseNotify
<1>2. Wire'
  <2>1. CASE LeaseExpires
    BY <2>1, <1>0 DEF LeaseExpires, Wire
  <2>2. CASE LeaseShutdown
    BY <2>2, <1>0 DEF LeaseShutdown, Wire
  <2>3. CASE LeaseNotify
    <3>1. toClient' \in Seq(Reply)
      BY <2>3, <1>0, Replies, AppendProperties DEF LeaseNotify, Wire
    <3> QED  BY <3>1, <2>3, <1>0 DEF LeaseNotify, Wire
  <2> QED  BY <2>1, <2>2, <2>3
<1>3. Locals'
  <2>1. CASE LeaseExpires
    BY <2>1, <1>0 DEF LeaseExpires, Locals
  <2>2. CASE LeaseShutdown
    BY <2>2, <1>0 DEF LeaseShutdown, Locals
  <2>3. CASE LeaseNotify
    BY <2>3, <1>0 DEF LeaseNotify, Locals
  <2> QED  BY <2>1, <2>2, <2>3
<1> QED  BY <1>1, <1>2, <1>3 DEF Types

LEMMA EnvironmentTypes ==
    ASSUME Types, DesiredChanges \/ WorkerCrash \/ WorkerStart \/ LinkChanges \/ Tick
    PROVE  Types'
<1> USE DEF mainVars, hbVars, wireVars, workerVars, leaseVars, lanVars
<1>0. Wire /\ Locals
  BY DEF Types
<1>1. Budget'
  BY Budgets DEF DesiredChanges, WorkerCrash, WorkerStart, LinkChanges, Tick
<1>2. Wire'
  <2>1. CASE DesiredChanges
    BY <2>1, <1>0 DEF DesiredChanges, Wire
  <2>2. CASE WorkerCrash
    BY <2>2, <1>0 DEF WorkerCrash, Wire
  <2>3. CASE WorkerStart
    BY <2>3, <1>0 DEF WorkerStart, Wire
  <2>4. CASE LinkChanges
    BY <2>4, <1>0 DEF LinkChanges, Wire
  <2>5. CASE Tick
    BY <2>5, <1>0 DEF Tick, Wire
  <2> QED  BY <2>1, <2>2, <2>3, <2>4, <2>5
<1>3. Locals'
  <2>1. CASE DesiredChanges
    BY <2>1, <1>0 DEF DesiredChanges, Locals
  <2>2. CASE WorkerCrash
    BY <2>2, <1>0 DEF WorkerCrash, Locals
  <2>3. CASE WorkerStart
    BY <2>3, <1>0 DEF WorkerStart, Locals
  <2>4. CASE LinkChanges
    BY <2>4, <1>0 DEF LinkChanges, Locals
  <2>5. CASE Tick
    BY <2>5, <1>0 DEF Tick, Locals
  <2> QED  BY <2>1, <2>2, <2>3, <2>4, <2>5
<1> QED  BY <1>1, <1>2, <1>3 DEF Types

LEMMA TypesKeep == Types /\ [Next]_vars => Types'
<1> SUFFICES ASSUME Types, [Next]_vars PROVE Types'
  OBVIOUS
<1>1. CASE UNCHANGED vars
  BY <1>1 DEF vars, mainVars, hbVars, wireVars, workerVars, leaseVars, lanVars, Types, Wire, Budget, Locals
<1>2. CASE Next
  BY <1>2, ControllerTypes, ConnectionTypes, PacerTypes, WorkerTypes, LeaseTypes, EnvironmentTypes DEF Next
<1> QED  BY <1>1, <1>2

-----------------------------------------------------------------------------
(* Lockstep.                                                               *)

\* A step after which the controller is not in touch, or is and was, with all as it stood.
Away == ~InTouch' /\ Client' /\ Unopened'

Standing ==
    /\ InTouch' => InTouch
    /\ UNCHANGED <<main, hb, conn, peerOpen, lastConn, toWorker, toClient, plan, applied, rejected,
                   serving, running>>

LEMMA AwayKeeps == ASSUME Away PROVE IRest'
  BY DEF Away, IRest, Lockstep, Held

LEMMA StandingKeeps == ASSUME IRest, Standing PROVE IRest'
  BY DEF Standing, IRest, Client, Unopened, Lockstep, Held, LockFree, Applying, Beating, Silent

\* The new connection is silent, and nothing was applied on it.
LEMMA OpenKeepsRest ==
    ASSUME Types, IRest, OpenConn, toWorker' = toWorker, applied' = None, hb' # "await",
           main' \in {"top", "repair"}
    PROVE  IRest'
<1>1. /\ lastConn \in 0 .. MaxConns /\ lastConn < MaxConns /\ MaxConns \in Nat
      /\ conn' = lastConn + 1 /\ lastConn' = lastConn + 1 /\ toClient' = <<>>
  BY BoundsAssumption DEF OpenConn, Types, Wire
<1>2. conn' \in Conn /\ conn' > lastConn
  BY <1>1 DEF Conn
<1>3. toWorker'[conn'] = <<>>
  BY <1>2 DEF IRest, Unopened
<1>4. Lockstep'
  BY <1>1, <1>3 DEF Lockstep, Silent
<1>5. Unopened'
  BY <1>1 DEF IRest, Unopened, Conn
<1>6. Client'
  BY <1>1 DEF Client, NoConn
<1> QED  BY <1>4, <1>5, <1>6 DEF IRest, Held

\* A request on the connection in hand.
LEMMA SendKeepsUnopened ==
    ASSUME Types, Unopened, Usable, NEW req, Send(req), lastConn' = lastConn, conn <= lastConn
    PROVE  Unopened' /\ toWorker'[conn] = Append(toWorker[conn], req)
  BY DEF Types, Wire, Unopened, Usable, Send, Conn, NoConn

\* An idle main loop moves on.
Moving ==
    /\ InTouch' => InTouch
    /\ main \in {"top", "publish", "repair"} /\ main' \in {"top", "send", "publish", "repair"}
    /\ UNCHANGED <<hb, conn, peerOpen, lastConn, toWorker, toClient, applied, rejected, serving,
                   running>>

LEMMA MovingKeeps == ASSUME IRest, Moving PROVE IRest'
<1>1. Client' /\ Unopened'
  BY DEF Moving, IRest, Client, Unopened
<1>2. InTouch' => Lockstep'
  BY DEF Moving, IRest, Lockstep, LockFree, Beating, Silent
<1>3. Held'
  BY DEF Moving, IRest, Held, InTouch
<1> QED  BY <1>1, <1>2, <1>3 DEF IRest, Lockstep

\* The worker turns to another connection, or answers on it.
Elsewhere ==
    /\ InTouch' => InTouch
    /\ serving # conn
    /\ \A c \in Conn : \/ toWorker'[c] = toWorker[c]
                       \/ c = serving /\ toWorker'[c] = <<>>
    /\ UNCHANGED <<main, hb, conn, peerOpen, lastConn, toClient, plan, applied, rejected>>

LEMMA ElsewhereKeeps == ASSUME Types, IRest, Elsewhere PROVE IRest'
<1>1. Client' /\ Unopened'
  BY DEF Elsewhere, IRest, Client, Unopened
<1>2. InTouch => toWorker'[conn] = toWorker[conn]
  BY DEF Elsewhere, InTouch, Usable, Types, Wire
<1>3. InTouch' => Lockstep'
  BY <1>2 DEF Elsewhere, IRest, Lockstep, LockFree, Applying, Beating, Silent
<1>4. Held'
  BY DEF Elsewhere, IRest, Held
<1> QED  BY <1>1, <1>3, <1>4 DEF IRest, Lockstep

LEMMA MainLoopKeeps ==
    ASSUME Types, IRest, ReadDesired \/ Publish \/ CycleRaises \/ ReportRepair
    PROVE  IRest'
<1> USE DEF mainVars, hbVars, wireVars, workerVars, leaseVars, lanVars
<1>1. CASE ReadDesired
  BY <1>1, MovingKeeps DEF ReadDesired, Moving, InTouch, Usable
<1>2. CASE Publish
  BY <1>2, MovingKeeps DEF Publish, Moving, InTouch, Usable
<1>3. CASE CycleRaises
  BY <1>3, MovingKeeps DEF CycleRaises, Moving, InTouch, Usable
<1>4. CASE ReportRepair
  BY <1>4, MovingKeeps DEF ReportRepair, Moving, InTouch, Usable
<1> QED  BY <1>1, <1>2, <1>3, <1>4

LEMMA SendTargetsKeeps == ASSUME Types, IRest, SendTargets PROVE IRest'
<1> USE DEF mainVars, hbVars, wireVars, workerVars, leaseVars, lanVars
<1>1. CASE ~Usable
  BY <1>1, AwayKeeps DEF SendTargets, Away, InTouch, IRest, Client, Unopened, Usable
<1>2. CASE Usable
  <2> DEFINE req == [op |-> "replace_targets", targets |-> plan]
  <2>1. /\ Send(req) /\ main' = "await" /\ LockFree
        /\ UNCHANGED <<conn, peerOpen, lastConn, toClient, plan, hb, workerDead, upset>>
    BY <1>2 DEF SendTargets
  <2>2. Unopened' /\ toWorker'[conn] = Append(toWorker[conn], req)
    BY <1>2, <2>1, SendKeepsUnopened DEF IRest, Client
  <2>3. Client'
    BY <1>2, <2>1 DEF IRest, Client, LockFree, Usable
  <2>4. InTouch' => Silent
    BY <1>2, <2>1 DEF SendTargets, InTouch, Usable, IRest, Lockstep
  <2>5. InTouch' => Applying'
    <3>1. Append(<<>>, req) = <<req>>
      OBVIOUS
    <3>2. InTouch' => toWorker'[conn'] = <<req>> /\ toClient' = <<>> /\ plan' = plan
      BY <2>1, <2>2, <2>4, <3>1 DEF Silent
    <3> QED  BY <3>2 DEF Applying
  <2>6. Lockstep'
    BY <2>1, <2>5 DEF Lockstep, LockFree
  <2> QED  BY <2>1, <2>2, <2>3, <2>6 DEF IRest, Held
<1> QED  BY <1>1, <1>2

LEMMA ReceiveAppliedKeeps == ASSUME Types, IRest, ReceiveApplied PROVE IRest'
<1> USE DEF mainVars, hbVars, wireVars, workerVars, leaseVars, lanVars
<1>1. /\ main = "await" /\ hb # "await" /\ hb' = hb
      /\ main' \in {"publish", "repair"} /\ InTouch' = InTouch
      /\ UNCHANGED <<conn, peerOpen, lastConn, toWorker, plan, serving, running>>
  BY DEF ReceiveApplied, IRest, Client, InTouch, Usable
<1>2. Client' /\ Unopened'
  BY <1>1 DEF IRest, Client, Unopened
<1>3. CASE ~InTouch
  BY <1>1, <1>2, <1>3, AwayKeeps DEF Away
<1>4. CASE InTouch
  <2>1. Applying /\ toClient # <<>>
    BY <1>1, <1>4 DEF ReceiveApplied, IRest, Lockstep
  <2>2. PICK ok \in BOOLEAN :
          /\ toClient = <<[op |-> "generation_applied", accepted |-> ok]>>
          /\ ok => running = plan
          /\ toWorker[conn] = <<>> /\ serving = conn
    BY <2>1 DEF Applying
  <2>3. applied' = plan /\ rejected' = ~ok /\ toClient' = <<>>
    BY <2>2 DEF ReceiveApplied
  <2>4. Lockstep'
    BY <1>1, <2>2, <2>3 DEF Lockstep, Silent
  <2>5. Held'
    BY <1>1, <2>2, <2>3 DEF Held
  <2> QED  BY <1>2, <2>4, <2>5 DEF IRest
<1> QED  BY <1>3, <1>4

LEMMA LossKeeps ==
    ASSUME Types, IRest, NoticeDeadWorker \/ LoseReply \/ HeartbeatLost \/ Close \/
               ControllerStop \/ ControllerCrash
    PROVE  IRest'
<1> USE DEF mainVars, hbVars, wireVars, workerVars, leaseVars, lanVars
<1>1. CASE NoticeDeadWorker
  BY <1>1, AwayKeeps DEF NoticeDeadWorker, Away, InTouch, IRest, Client, Unopened
<1>2. CASE LoseReply
  BY <1>2, AwayKeeps DEF LoseReply, Away, InTouch, IRest, Client, Unopened
<1>3. CASE HeartbeatLost
  BY <1>3, AwayKeeps DEF HeartbeatLost, Away, InTouch, IRest, Client, Unopened
<1>4. CASE Close
  BY <1>4, AwayKeeps DEF Close, CloseConn, LockFree, Away, InTouch, IRest, Client, Unopened,
     Types, Wire, NoConn
<1>5. CASE ControllerStop
  <2>1. Unopened'
    BY <1>5, SendKeepsUnopened DEF ControllerStop, IRest, Client, Unopened
  <2> QED  BY <1>5, <2>1, AwayKeeps DEF ControllerStop, CloseConn, Away, InTouch, Client, Types,
             Wire, NoConn
<1>6. CASE ControllerCrash
  BY <1>6, AwayKeeps DEF ControllerCrash, CloseConn, Away, InTouch, IRest, Client, Unopened,
     Types, Wire, NoConn
<1> QED  BY <1>1, <1>2, <1>3, <1>4, <1>5, <1>6

LEMMA OpeningKeeps == ASSUME Types, IRest, ControllerStart \/ Connect PROVE IRest'
<1> USE DEF mainVars, hbVars, wireVars, workerVars, leaseVars, lanVars
<1>1. CASE ControllerStart
  BY <1>1, OpenKeepsRest DEF ControllerStart
<1>2. CASE Connect
  <2>1. conn = NoConn /\ hb # "await" /\ main' \in {"top", "repair"}
    BY <1>2 DEF Connect, IRest, Client
  <2>2. CASE OpenConn /\ applied' = None
    BY <1>2, <2>1, <2>2, OpenKeepsRest DEF Connect
  <2>3. CASE UNCHANGED <<conn, peerOpen, lastConn>>
    BY <1>2, <2>1, <2>3, AwayKeeps DEF Connect, Away, InTouch, Usable, IRest, Client, Unopened
  <2> QED  BY <1>2, <2>2, <2>3 DEF Connect
<1> QED  BY <1>1, <1>2

LEMMA PacerKeeps == ASSUME Types, IRest, HeartbeatSend \/ HeartbeatReceive PROVE IRest'
<1> USE DEF mainVars, hbVars, wireVars, workerVars, leaseVars, lanVars
<1>1. CASE HeartbeatSend /\ ~Usable
  BY <1>1, AwayKeeps DEF HeartbeatSend, Away, InTouch, IRest, Client, Unopened
<1>2. CASE HeartbeatSend /\ Usable
  <2> DEFINE req == [op |-> "heartbeat"]
  <2>1. /\ Send(req) /\ hb' = "await" /\ LockFree
        /\ UNCHANGED <<conn, peerOpen, lastConn, toClient, main, plan, applied, rejected, serving,
                       running, workerDead, upset>>
    BY <1>2 DEF HeartbeatSend
  <2>2. Unopened' /\ toWorker'[conn] = Append(toWorker[conn], req)
    BY <1>2, <2>1, SendKeepsUnopened DEF IRest, Client
  <2>3. Client'
    BY <1>2, <2>1 DEF IRest, Client, LockFree, Usable
  <2>4. InTouch' => InTouch /\ Silent
    BY <1>2, <2>1 DEF InTouch, Usable, IRest, Lockstep
  <2>5. InTouch' => Beating'
    <3>1. Append(<<>>, req) = <<req>>
      OBVIOUS
    <3>2. InTouch' => toWorker'[conn'] = <<req>> /\ toClient' = <<>>
      BY <2>1, <2>2, <2>4, <3>1 DEF Silent
    <3> QED  BY <3>2 DEF Beating
  <2>6. Lockstep'
    BY <2>1, <2>5 DEF Lockstep, LockFree
  <2>7. Held'
    BY <2>1, <2>4 DEF IRest, Held
  <2> QED  BY <2>2, <2>3, <2>6, <2>7 DEF IRest
<1>3. CASE HeartbeatReceive
  <2>1. /\ hb = "await" /\ main # "await" /\ hb' = "idle" /\ InTouch' = InTouch
        /\ UNCHANGED <<conn, peerOpen, lastConn, toWorker, main, plan, applied, rejected, serving,
                       running>>
    BY <1>3 DEF HeartbeatReceive, IRest, Client, InTouch, Usable
  <2>2. Client' /\ Unopened'
    BY <2>1 DEF IRest, Client, Unopened
  <2>3. InTouch => toWorker[conn] = <<>> /\ toClient' = <<>>
    <3> SUFFICES ASSUME InTouch PROVE toWorker[conn] = <<>> /\ toClient' = <<>>
      OBVIOUS
    <3>1. Beating /\ toClient # <<>> /\ toClient' = Tail(toClient)
      BY <1>3, <2>1 DEF HeartbeatReceive, IRest, Lockstep
    <3> QED  BY <3>1 DEF Beating
  <2>4. Lockstep'
    BY <2>1, <2>3 DEF Lockstep, Silent
  <2>5. Held'
    BY <2>1 DEF IRest, Held
  <2> QED  BY <2>2, <2>4, <2>5 DEF IRest
<1> QED  BY <1>1, <1>2, <1>3

\* What the worker finds on the controller's connection is the request under way.
LEMMA FoundIsSent ==
    ASSUME Types, IRest, InTouch, NEW op, Incoming(op), serving = conn
    PROVE  \/ /\ op = "replace_targets" /\ main = "await" /\ hb # "await" /\ toClient = <<>>
              /\ toWorker[conn] = <<[op |-> "replace_targets", targets |-> plan]>>
           \/ /\ op = "heartbeat" /\ main # "await" /\ hb = "await" /\ toClient = <<>>
              /\ toWorker[conn] = <<[op |-> "heartbeat"]>>
<1>1. toWorker[conn] # <<>> /\ Head(toWorker[conn]).op = op
  BY DEF Incoming
<1>2. CASE main = "await"
  BY <1>1, <1>2 DEF IRest, Lockstep, Applying, Client
<1>3. CASE hb = "await"
  BY <1>1, <1>3 DEF IRest, Lockstep, Beating, Client
<1> QED  BY <1>1, <1>2, <1>3 DEF IRest, Lockstep, LockFree, Silent

LEMMA AnswerOpened ==
    ASSUME Types, Unopened, NEW op, Incoming(op), NEW frame, Answer(frame), lastConn' = lastConn
    PROVE  /\ Unopened'
           /\ serving # conn => \A c \in Conn : \/ toWorker'[c] = toWorker[c]
                                                \/ c = serving /\ toWorker'[c] = <<>>
           /\ serving = conn => toWorker'[conn] = Tail(toWorker[conn]) /\ serving' = serving
                                /\ toClient' = Append(toClient, frame)
<1>1. serving \in Conn /\ toWorker \in [Conn -> Seq(Request)] /\ toWorker[serving] # <<>>
  BY Handled DEF Types, Wire, Incoming
<1>2. ~(serving > lastConn)
  BY <1>1 DEF Unopened
<1>3. \A c \in Conn : c # serving => toWorker'[c] = toWorker[c]
  BY <1>1 DEF Answer
<1> QED  BY <1>1, <1>2, <1>3 DEF Unopened, Answer

LEMMA WorkerKeeps ==
    ASSUME Types, IRest, HandleReplaceTargets \/ RejectGeneration \/ HandleHeartbeat
    PROVE  IRest'
<1> USE DEF mainVars, hbVars, wireVars, workerVars, leaseVars, lanVars
<1>1. /\ InTouch' = InTouch
      /\ UNCHANGED <<conn, peerOpen, lastConn, main, hb, plan, applied, rejected>>
  BY DEF HandleReplaceTargets, RejectGeneration, HandleHeartbeat, InTouch, Usable
<1>2. Client'
  BY <1>1 DEF IRest, Client
<1>3. PICK op, frame : Incoming(op) /\ Answer(frame)
  BY DEF HandleReplaceTargets, RejectGeneration, HandleHeartbeat
<1>4. Unopened'
  BY <1>1, <1>3, AnswerOpened DEF IRest
<1>5. CASE ~InTouch
  BY <1>1, <1>2, <1>4, <1>5, AwayKeeps DEF Away
<1>6. CASE InTouch /\ serving # conn
  BY <1>1, <1>3, <1>6, AnswerOpened, ElsewhereKeeps DEF Elsewhere, Answer, IRest
<1>7. CASE InTouch /\ serving = conn
  <2>1. CASE HandleReplaceTargets \/ RejectGeneration
    <3>1. PICK ok \in BOOLEAN : /\ Answer([op |-> "generation_applied", accepted |-> ok])
                                /\ ok => running' = Head(toWorker[serving]).targets
      BY <2>1 DEF HandleReplaceTargets, RejectGeneration
    <3>2. Incoming("replace_targets")
      BY <2>1 DEF HandleReplaceTargets, RejectGeneration
    <3>3. /\ main = "await" /\ hb # "await" /\ toClient = <<>>
          /\ toWorker[conn] = <<[op |-> "replace_targets", targets |-> plan]>>
      BY <1>7, <3>2, FoundIsSent
    <3>4. /\ toWorker'[conn] = Tail(toWorker[conn]) /\ serving' = serving
          /\ toClient' = Append(toClient, [op |-> "generation_applied", accepted |-> ok])
      BY <1>1, <1>7, <3>1, <3>2, AnswerOpened DEF IRest
    <3>5. /\ toWorker'[conn] = <<>>
          /\ ok => running' = plan
          /\ toClient' = <<[op |-> "generation_applied", accepted |-> ok]>>
      BY <1>7, <3>1, <3>3, <3>4
    <3>6. Applying'
      <4>1. /\ toWorker'[conn'] = <<>> /\ serving' = conn'
            /\ toClient' = <<[op |-> "generation_applied", accepted |-> ok]>>
            /\ ok => running' = plan'
        BY <1>1, <1>7, <3>4, <3>5
      <4> QED  BY <4>1, Zenon DEF Applying
    <3> QED  BY <1>1, <1>2, <1>4, <3>3, <3>6 DEF IRest, Lockstep, LockFree, Held
  <2>2. CASE HandleHeartbeat
    <3>1. /\ Incoming("heartbeat") /\ Answer([op |-> "heartbeat_ack", failing |-> failing])
          /\ failing \in BOOLEAN /\ running' = running
      BY <2>2 DEF HandleHeartbeat, Types, Locals
    <3>2. /\ main # "await" /\ hb = "await" /\ toClient = <<>>
          /\ toWorker[conn] = <<[op |-> "heartbeat"]>>
      BY <1>7, <3>1, FoundIsSent
    <3>3. /\ toWorker'[conn] = Tail(toWorker[conn]) /\ serving' = serving
          /\ toClient' = Append(toClient, [op |-> "heartbeat_ack", failing |-> failing])
      BY <1>1, <1>7, <3>1, AnswerOpened DEF IRest
    <3>4. /\ toWorker'[conn] = <<>>
          /\ toClient' = <<[op |-> "heartbeat_ack", failing |-> failing]>>
      BY <3>2, <3>3
    <3>5. Beating'
      BY <1>1, <3>1, <3>4 DEF Beating
    <3>6. Held'
      BY <1>1, <3>1, <3>3 DEF IRest, Held
    <3> QED  BY <1>1, <1>2, <1>4, <3>2, <3>5, <3>6 DEF IRest, Lockstep, LockFree
  <2> QED  BY <2>1, <2>2
<1> QED  BY <1>5, <1>6, <1>7

LEMMA ServerKeeps ==
    ASSUME Types, IRest, Accept \/ HandleShutdown \/ EndOfConn
    PROVE  IRest'
<1> USE DEF mainVars, hbVars, wireVars, workerVars, leaseVars, lanVars
<1>1. /\ InTouch' = InTouch
      /\ UNCHANGED <<conn, peerOpen, lastConn, main, hb, toClient, plan, applied, rejected>>
  BY DEF Accept, HandleShutdown, EndOfConn, InTouch, Usable
<1>2. CASE Accept
  <2>1. CASE InTouch
    BY <1>1, <1>2, <2>1, ElsewhereKeeps DEF Accept, Elsewhere, InTouch, Usable
  <2>2. CASE ~InTouch
    BY <1>1, <1>2, <2>2, AwayKeeps DEF Accept, Away, IRest, Client, Unopened
  <2> QED  BY <2>1, <2>2
<1>3. CASE EndOfConn
  BY <1>1, <1>3, ElsewhereKeeps DEF EndOfConn, Elsewhere
<1>4. CASE HandleShutdown
  <2>1. /\ Incoming("shutdown") /\ serving \in Conn
        /\ toWorker' = [toWorker EXCEPT ![serving] = <<>>]
    BY <1>4, Handled DEF HandleShutdown, Types
  <2>2. \A c \in Conn : \/ toWorker'[c] = toWorker[c]
                        \/ c = serving /\ toWorker'[c] = <<>>
    BY <2>1 DEF Types, Wire
  <2>3. Client' /\ Unopened'
    BY <1>1, <2>2 DEF IRest, Client, Unopened
  <2>4. CASE InTouch
    <3>1. serving # conn
      BY <2>1, <2>4, FoundIsSent
    <3> QED  BY <1>1, <2>2, <3>1, ElsewhereKeeps DEF Elsewhere
  <2>5. CASE ~InTouch
    BY <1>1, <2>3, <2>5, AwayKeeps DEF Away
  <2> QED  BY <2>4, <2>5
<1> QED  BY <1>2, <1>3, <1>4

LEMMA LeaseKeeps ==
    ASSUME Types, IRest, LeaseExpires \/ LeaseShutdown \/ LeaseNotify
    PROVE  IRest'
<1> USE DEF mainVars, hbVars, wireVars, workerVars, leaseVars, lanVars
<1>1. CASE LeaseExpires
  BY <1>1, StandingKeeps DEF LeaseExpires, Standing, InTouch, Usable
<1>2. CASE LeaseShutdown
  BY <1>2, AwayKeeps DEF LeaseShutdown, Away, InTouch, IRest, Client, Unopened
<1>3. CASE LeaseNotify
  <2>1. CASE serving # NoConn /\ serving = conn
    BY <1>3, <2>1, AwayKeeps DEF LeaseNotify, Away, InTouch, IRest, Client, Unopened
  <2>2. CASE ~(serving # NoConn /\ serving = conn)
    <3>1. toClient' = toClient
      BY <1>3, <2>2 DEF LeaseNotify
    <3>2. upset => upset'
      BY <1>3, Zenon DEF LeaseNotify
    <3>3. InTouch' => InTouch
      BY <1>3, <3>1, <3>2 DEF LeaseNotify, InTouch, Usable
    <3> QED  BY <1>3, <3>1, <3>3, StandingKeeps DEF LeaseNotify, Standing
  <2> QED  BY <2>1, <2>2
<1> QED  BY <1>1, <1>2, <1>3

LEMMA EnvironmentKeeps ==
    ASSUME Types, IRest, DesiredChanges \/ WorkerCrash \/ WorkerStart \/ LinkChanges \/ Tick
    PROVE  IRest'
<1> USE DEF mainVars, hbVars, wireVars, workerVars, leaseVars, lanVars
<1>1. CASE DesiredChanges
  BY <1>1, StandingKeeps DEF DesiredChanges, Standing, InTouch, Usable
<1>2. CASE WorkerCrash
  <2>1. Unopened'
    BY <1>2 DEF WorkerCrash, Unopened
  <2> QED  BY <1>2, <2>1, AwayKeeps DEF WorkerCrash, Away, InTouch, Usable, IRest, Client
<1>3. CASE WorkerStart
  BY <1>3, StandingKeeps DEF WorkerStart, Standing, InTouch, Usable
<1>4. CASE LinkChanges
  BY <1>4, StandingKeeps DEF LinkChanges, Standing, InTouch, Usable
<1>5. CASE Tick
  BY <1>5, StandingKeeps DEF Tick, Standing, InTouch, Usable
<1> QED  BY <1>1, <1>2, <1>3, <1>4, <1>5

LEMMA RestKeeps == ASSUME IInv, [Next]_vars PROVE IRest'
<1>1. Types /\ IRest
  BY DEF IInv
<1>2. CASE UNCHANGED vars
  BY <1>1, <1>2, StandingKeeps DEF Standing, InTouch, Usable, vars, mainVars, hbVars, wireVars,
     workerVars, leaseVars, lanVars
<1>3. CASE Next
  BY <1>1, <1>3, MainLoopKeeps, SendTargetsKeeps, ReceiveAppliedKeeps, LossKeeps, OpeningKeeps,
     PacerKeeps, WorkerKeeps, ServerKeeps, LeaseKeeps, EnvironmentKeeps DEF Next
<1> QED  BY <1>2, <1>3

LEMMA InitIInv == Init => IInv
<1> SUFFICES ASSUME Init PROVE IInv
  OBVIOUS
<1>1. Types
  BY InitTypes
<1>2. Client /\ Unopened
  BY DEF Init, Client, Unopened, NoConn
<1>3. ~InTouch
  BY DEF Init, InTouch
<1> QED  BY <1>1, <1>2, <1>3 DEF IInv, IRest, Lockstep, Held

LEMMA Invariant == Spec => []IInv
<1>1. IInv /\ [Next]_vars => IInv'
  BY TypesKeep, RestKeeps DEF IInv
<1> QED  BY InitIInv, <1>1, PTL DEF Spec

-----------------------------------------------------------------------------
(* Theorems.                                                               *)

\* Whatever the processes, the socket, the lease and the environment do, every
\* variable keeps its type: only requests travel one way and replies the other, a
\* request is sent only on a connection that is open, and no budget is overrun.
THEOREM TypeCorrect == Spec => []TypeOK
<1>1. IInv => TypeOK
  BY TypesSuffice DEF IInv
<1> QED  BY Invariant, <1>1, PTL

\* A generation the controller holds for applied, and that was not rejected, is the
\* one the worker poisons, as long as the connection it was applied on lives and
\* the lease has not stepped in: whatever the number of connections, crashes,
\* timeouts and stalls before, and although no reply names its request.
THEOREM AppliedRuns == Spec => []AppliedIsRunning
<1>1. IInv => AppliedIsRunning
  BY DEF IInv, IRest, Held, InTouch, AppliedIsRunning
<1> QED  BY Invariant, <1>1, PTL

=============================================================================
