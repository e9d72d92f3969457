------------------------------ MODULE AgentHub ------------------------------
(***************************************************************************)
(* One agent's connections to the control plane (websocket/hub.py,         *)
(* websocket/agent_handler.py) and the workflow executions that send it    *)
(* commands and wait for the answers (engine/executor.py).                 *)
(*                                                                         *)
(* The hub is keyed by the agent's name, a connection is a WebSocket with  *)
(* its own handler task: after a reconnect two handlers of the same name   *)
(* live side by side until the first one notices that its socket is dead.  *)
(***************************************************************************)
EXTENDS Naturals, FiniteSets

CONSTANTS
  Conn,      \* WebSockets the agent opens, one after the other
  NoConn,    \* "not connected"
  Exec,      \* workflow executions on this agent's server
  Steps,     \* steps of the workflow
  Continue   \* the steps with continue_on_error

ASSUME HubAssumption ==
  /\ NoConn \notin Conn
  /\ Steps \in Nat \ {0}
  /\ Continue \subseteq 1 .. Steps

VARIABLES
  agents,    \* manager._agents.get(name)
  pending,   \* manager._pending: the commands a result is expected for
  server,    \* the server's row: "online" or "offline"
  handler,   \* where the handler of each connection is
  alive,     \* is the socket still connected?
  client,    \* the connection the agent works with
  given,     \* the commands the agent has received and not answered
  ran,       \* history: the commands the agent answered with exit code 0
  exec       \* the executions

connVars == <<agents, server, handler, alive, client>>
vars == <<agents, pending, server, handler, alive, client, given, ran, exec>>

Command == Exec \X (1 .. Steps)

(***************************************************************************)
(* An execution: its step and where it is in it, the future it waits on,   *)
(* the socket it is sending on, the ExecutionLog statuses and its own.     *)
(***************************************************************************)
ExecState ==
  [at : {"log", "send", "sending", "unsent", "await", "final", "done",
         "raised"},
   step : 1 .. Steps,
   future : {"none", "pending", "ok", "bad", "cancelled"},
   ws : Conn \cup {NoConn},
   log : [1 .. Steps -> {"none", "running", "success", "failed"}],
   status : {"none", "running", "success", "failed"},
   final : {"success", "failed"}]

HubTypeOK ==
  /\ agents \in Conn \cup {NoConn}
  /\ pending \subseteq Command
  /\ server \in {"online", "offline"}
  /\ handler \in [Conn -> {"none", "register", "loop", "cleanup", "closed"}]
  /\ alive \in [Conn -> BOOLEAN]
  /\ client \in Conn \cup {NoConn}
  /\ given \subseteq Command
  /\ ran \subseteq Command
  /\ exec \in [Exec -> ExecState]

Init ==
  /\ agents = NoConn
  /\ pending = {}
  /\ server = "offline"
  /\ handler = [c \in Conn |-> "none"]
  /\ alive = [c \in Conn |-> FALSE]
  /\ client = NoConn
  /\ given = {}
  /\ ran = {}
  /\ exec = [e \in Exec |->
       [at |-> "log", step |-> 1, future |-> "none", ws |-> NoConn,
        log |-> [k \in 1 .. Steps |-> "none"],
        status |-> "none", final |-> "success"]]

-----------------------------------------------------------------------------
(* The hub *)

Cmd(e) == <<e, exec[e].step>>

(* What the owner of a pending future sees of it: the entries in gone are  *)
(* dropped and their futures, when not done, get this outcome.             *)
Settled(gone, outcome) ==
  [e \in Exec |->
     IF Cmd(e) \in gone \cap pending
       THEN [exec[e] EXCEPT !.future = outcome] ELSE exec[e]]

(* mutated form of ResolvePending: the caller's current future is taken    *)
ResolveAnyPending(cmd, outcome) ==
  LET mine == {c \in pending : c[1] = cmd[1]} IN
  /\ exec' = Settled(mine, outcome)
  /\ pending' = pending \ mine

ResolvePending(cmd, outcome) ==
  /\ exec' = Settled({cmd}, outcome)
  /\ pending' = pending \ {cmd}

(* mutated form of UnregisterAgent: the name is left in the hub *)
UnregisterOnly ==
  /\ agents' = agents
  /\ exec' = Settled(pending, "cancelled")
  /\ pending' = {}

(* Every pending future of the name is cancelled, whichever connection the *)
(* command was sent on.                                                    *)
UnregisterAgent ==
  /\ agents' = NoConn
  /\ exec' = Settled(pending, "cancelled")
  /\ pending' = {}

-----------------------------------------------------------------------------
(* The connections *)

(* The agent connects again once it holds the previous socket for lost,    *)
(* and sends agent.register.                                               *)
Connect(c) ==
  /\ client = NoConn
  /\ handler[c] = "none"
  /\ handler' = [handler EXCEPT ![c] = "register"]
  /\ alive' = [alive EXCEPT ![c] = TRUE]
  /\ client' = c
  /\ agents' = c
  /\ UNCHANGED <<pending, server, given, ran, exec>>

(* The row is committed and register.ack sent. *)
Registered(c) ==
  /\ handler[c] = "register"
  /\ server' = "online"
  /\ handler' = [handler EXCEPT ![c] = "loop"]
  /\ UNCHANGED <<agents, pending, alive, client, given, ran, exec>>

(* mutated form of Heartbeat: only last_heartbeat is written *)
HeartbeatTime(c) ==
  /\ handler[c] = "loop"
  /\ alive[c]
  /\ UNCHANGED vars

Heartbeat(c) ==
  /\ handler[c] = "loop"
  /\ alive[c]
  /\ server' = "online"
  /\ UNCHANGED <<agents, pending, handler, alive, client, given, ran, exec>>

(* The network drops a socket; the agent notices (ping_timeout). *)
Break(c) ==
  /\ client = c
  /\ alive' = [alive EXCEPT ![c] = FALSE]
  /\ client' = NoConn
  /\ UNCHANGED <<agents, pending, server, handler, given, ran, exec>>

(* The handler notices too: WebSocketDisconnect, and the finally clause.   *)
Disconnect(c) ==
  /\ handler[c] \in {"register", "loop"}
  /\ ~alive[c]
  /\ handler' = [handler EXCEPT ![c] = "cleanup"]
  /\ UnregisterAgent
  /\ UNCHANGED <<server, alive, client, given, ran>>

MarkOffline(c) ==
  /\ handler[c] = "cleanup"
  /\ server' = "offline"
  /\ handler' = [handler EXCEPT ![c] = "closed"]
  /\ UNCHANGED <<agents, pending, alive, client, given, ran, exec>>

HandlerStep(c) == Registered(c) \/ Disconnect(c) \/ MarkOffline(c)

(* agent.command.complete, on whatever connection the agent now has.       *)
Answer(cmd) ==
  /\ cmd \in given
  /\ client # NoConn
  /\ handler[client] = "loop"
  /\ given' = given \ {cmd}
  /\ \/ ResolvePending(cmd, "ok") /\ ran' = ran \cup {cmd}
     \/ ResolvePending(cmd, "bad") /\ UNCHANGED ran
  /\ UNCHANGED connVars

(* It is lost: sent on a dead socket, or the agent was restarted.          *)
AnswerLost(cmd) ==
  /\ cmd \in given
  /\ given' = given \ {cmd}
  /\ UNCHANGED <<connVars, pending, ran, exec>>

-----------------------------------------------------------------------------
(* WorkflowExecutor.execute_on_server() *)

At(e, where) == exec[e].at = where

(* The execution row, once, and the step's ExecutionLog are committed as   *)
(* "running".                                                              *)
CreateLog(e) ==
  /\ At(e, "log")
  /\ exec' = [exec EXCEPT ![e].at = "send", ![e].status = "running",
                          ![e].log[exec[e].step] = "running"]
  /\ UNCHANGED <<connVars, pending, given, ran>>

(* create_pending(), and send_to_agent() up to ws.send_json().  Without a  *)
(* connection it returns False at once, and cancel_pending() follows.      *)
Send(e) ==
  /\ At(e, "send")
  /\ IF agents = NoConn
       THEN /\ exec' = [exec EXCEPT ![e].at = "unsent",
                                    ![e].future = "cancelled"]
            /\ UNCHANGED pending
       ELSE /\ exec' = [exec EXCEPT ![e].at = "sending", ![e].ws = agents,
                                    ![e].future = "pending"]
            /\ pending' = pending \cup {Cmd(e)}
  /\ UNCHANGED <<connVars, given, ran>>

(* send_json() returns; what is written to a dead socket goes nowhere. *)
Sent(e) ==
  /\ At(e, "sending")
  /\ exec' = [exec EXCEPT ![e].at = "await", ![e].ws = NoConn]
  /\ given' = IF alive[exec[e].ws] THEN given \cup {Cmd(e)} ELSE given
  /\ UNCHANGED <<connVars, pending, ran>>

(* send_json() raises: the agent is unregistered and the send has failed.  *)
SendRaises(e) ==
  /\ At(e, "sending")
  /\ ~alive[exec[e].ws]
  /\ agents' = NoConn
  /\ pending' = {}
  /\ exec' = [Settled(pending, "cancelled") EXCEPT
                ![e].at = "unsent", ![e].ws = NoConn]
  /\ UNCHANGED <<server, handler, alive, client, given, ran>>

(* "Agent not connected": the step has failed, and the execution with it   *)
StoreUnsent(e) ==
  /\ At(e, "unsent")
  /\ exec' = [exec EXCEPT ![e].at = "final", ![e].final = "failed",
                          ![e].log[exec[e].step] = "failed"]
  /\ UNCHANGED <<connVars, pending, given, ran>>

(* wait_for() raises CancelledError: nothing up to the task handles it.    *)
Cancelled(e) ==
  /\ At(e, "await")
  /\ exec[e].future = "cancelled"
  /\ exec' = [exec EXCEPT ![e].at = "raised"]
  /\ UNCHANGED <<connVars, pending, given, ran>>

(* mutated form of StepTimeout: the pending entry is left behind *)
StepTimeoutKeeps(e) ==
  /\ At(e, "await")
  /\ exec[e].future = "pending"
  /\ exec' = [exec EXCEPT ![e].future = "bad"]
  /\ UNCHANGED <<connVars, pending, given, ran>>

(* mutated form of StepTimeout: the wait has no bound *)
NoTimeout(e) == FALSE /\ UNCHANGED vars

StepTimeout(e) ==
  /\ At(e, "await")
  /\ exec[e].future = "pending"
  /\ exec' = [exec EXCEPT ![e].future = "bad"]
  /\ pending' = pending \ {Cmd(e)}
  /\ UNCHANGED <<connVars, given, ran>>

(* mutated form of StoreResult: continue_on_error is not looked at *)
StoreResultContinues(e) ==
  /\ At(e, "await")
  /\ exec[e].future \in {"ok", "bad"}
  /\ LET k  == exec[e].step
         ok == exec[e].future = "ok" IN
       exec' = [exec EXCEPT
         ![e].at = IF k < Steps THEN "log" ELSE "final",
         ![e].step = IF k < Steps THEN k + 1 ELSE k,
         ![e].future = "none",
         ![e].log[k] = IF ok THEN "success" ELSE "failed"]
  /\ UNCHANGED <<connVars, pending, given, ran>>

(* The step's log is committed; a failed step ends the execution unless it *)
(* has continue_on_error.                                                  *)
StoreResult(e) ==
  /\ At(e, "await")
  /\ exec[e].future \in {"ok", "bad"}
  /\ LET k    == exec[e].step
         ok   == exec[e].future = "ok"
         stop == ~ok /\ k \notin Continue
         last == stop \/ k = Steps IN
       exec' = [exec EXCEPT
         ![e].at = IF last THEN "final" ELSE "log",
         ![e].step = IF last THEN k ELSE k + 1,
         ![e].future = "none",
         ![e].final = IF stop THEN "failed" ELSE @,
         ![e].log[k] = IF ok THEN "success" ELSE "failed"]
  /\ UNCHANGED <<connVars, pending, given, ran>>

(* mutated form of Finalize: a status the row never has *)
FinalizeDone(e) ==
  /\ At(e, "final")
  /\ exec' = [exec EXCEPT ![e].at = "done", ![e].status = "completed"]
  /\ UNCHANGED <<connVars, pending, given, ran>>

Finalize(e) ==
  /\ At(e, "final")
  /\ exec' = [exec EXCEPT ![e].at = "done", ![e].status = exec[e].final]
  /\ UNCHANGED <<connVars, pending, given, ran>>

ExecStep(e) ==
  \/ CreateLog(e) \/ Send(e) \/ Sent(e) \/ SendRaises(e) \/ StoreUnsent(e)
  \/ Cancelled(e) \/ StepTimeout(e) \/ StoreResult(e) \/ Finalize(e)

Next ==
  \/ \E c \in Conn : HandlerStep(c) \/ Connect(c) \/ Heartbeat(c) \/ Break(c)
  \/ \E cmd \in Command : Answer(cmd) \/ AnswerLost(cmd)
  \/ \E e \in Exec : ExecStep(e)

Spec == Init /\ [][Next]_vars

(* The event loop runs every ready task, step.timeout_seconds bounds the   *)
(* wait for an answer, and a connected agent sends its heartbeats.  It     *)
(* need not answer, nor reconnect.                                         *)
Fairness ==
  /\ \A e \in Exec : WF_vars(ExecStep(e))
  /\ \A c \in Conn : WF_vars(HandlerStep(c)) /\ WF_vars(Heartbeat(c))

FairSpec == Spec /\ Fairness

-----------------------------------------------------------------------------
(* Properties *)

(* manager._pending holds exactly the commands whose caller is sending or  *)
(* waiting on a future that is not done: disconnects, failed sends and     *)
(* timeouts leave no entry behind (R01, R04), and no caller waits on a     *)
(* future an answer could not reach any more.                              *)
PendingExact ==
  pending = {Cmd(e) : e \in {x \in Exec : /\ exec[x].at \in {"sending", "await"}
                                         /\ exec[x].future = "pending"}}

(* A step is recorded as a success only if the agent answered so for that  *)
(* very step: the late answer to an earlier one, or one that arrives over  *)
(* a newer connection, is never taken for it.                              *)
SuccessMeansRan ==
  \A e \in Exec, k \in 1 .. Steps :
    exec[e].log[k] = "success" => <<e, k>> \in ran

(* A step is begun only when every earlier one is over and none of those   *)
(* without continue_on_error has failed; an execution is a success only    *)
(* when that is so of all its steps.                                       *)
PassedBefore(x, k) ==
  \A j \in 1 .. (k - 1) : \/ x.log[j] = "success"
                         \/ (x.log[j] = "failed" /\ j \in Continue)
StepsInOrder ==
  \A e \in Exec :
    /\ \A k \in 1 .. Steps :
         exec[e].log[k] # "none" => PassedBefore(exec[e], k)
    /\ exec[e].status = "success" => PassedBefore(exec[e], Steps + 1)

(* The hub never names a connection whose handler has left its loop: a     *)
(* command would be sent to a socket nobody reads answers from.            *)
RegisteredLive == agents # NoConn => handler[agents] \in {"register", "loop"}

(* No execution waits for an answer for ever, whatever the agent does.     *)
WaitEnds == \A e \in Exec : exec[e].at = "await" ~> exec[e].at # "await"

(* The row of an agent that stays connected becomes "online", also when    *)
(* the handler of its previous connection marks it offline after it has    *)
(* registered again.                                                       *)
OnlineAgain ==
  \A c \in Conn :
    (handler[c] = "loop" /\ alive[c]) ~> (server = "online" \/ ~alive[c])

(* executor.py:32: "Steps are run sequentially. Each step result is        *)
(* stored.": the log of a step does not stay "running".                    *)
StepResultStored ==
  \A e \in Exec, k \in 1 .. Steps :
    exec[e].log[k] = "running" ~> exec[e].log[k] # "running"
=============================================================================
