------------------------------- MODULE SoloLab ------------------------------
(***************************************************************************)
(* The message feed of a lab with one agent, and how the runner's loop     *)
(* (services/lab_runner.py) and SoloAgentStrategy                          *)
(* (services/loop_strategies/solo_agent.py) turn what the user injects     *)
(* into turns of the agent.                                                *)
(*                                                                         *)
(* A row of lab_messages is dated by PostgreSQL's now(): the start of the  *)
(* transaction that inserts it, not its commit.  That date is what the     *)
(* replay guard and the strategy compare.                                  *)
(*                                                                         *)
(* One runner at a time (SingleRunner of LabLifecycle).                    *)
(***************************************************************************)
EXTENDS Naturals, Sequences, FiniteSets

CONSTANTS
  Text,       \* what a user may write
  Window,     \* rows that get_recent() returns (50 in the code)
  MaxUser,    \* bound on the rows of the user
  MaxExtra    \* bound on the tool and synthesis rows, after which no tool is
              \* called and a final answer no longer parks the lab

ASSUME SoloAssumption ==
  /\ Window \in Nat \ {0}
  /\ MaxUser \in Nat
  /\ MaxExtra \in Nat

VARIABLES
  feed,      \* lab_messages, in the order of their commits
  iter,      \* labs.current_iteration, told apart as 0 and more
  run,       \* the runner and its strategy
  cold,      \* an inject request that found no runner
  waking,    \* has a live inject committed its row, and not woken the runner?
  answered   \* history: the rows a turn was recorded for

vars == <<feed, iter, run, cold, waking, answered>>

Row == [kind : {"inject", "user_inject", "tool", "result", "synthesis"},
        text : Text \cup {"-"},
        at : Nat]

(***************************************************************************)
(*   boot     before the replay guard       top      start of an iteration *)
(*   read     the messages are read         plan     a task is to be sent  *)
(*   call     the agent works               stored   before the increment  *)
(*   synth    its last response is to be    pausing  "paused" is committed *)
(*            stored as the final answer    parked   waiting               *)
(***************************************************************************)
NoRun == [at |-> "none", tx |-> 0, guarded |-> {}, seen |-> {}, msgs |-> {},
          queue |-> {}, replied |-> FALSE, seed |-> {}, task |-> {},
          sent |-> {}]

NoCold == [at |-> "none", kind |-> "inject", text |-> "-", tx |-> 0]

SoloTypeOK ==
  LET Rows == SUBSET (DOMAIN feed) IN
  /\ feed \in Seq(Row)
  /\ iter \in {0, 1}
  /\ run \in [at : {"none", "boot", "top", "read", "plan", "call", "stored",
                    "synth", "pausing", "parked"},
              tx : Nat, guarded : Rows, seen : Rows, msgs : Rows,
              queue : Rows, replied : BOOLEAN,
              seed : SUBSET (Text \cup {"-"}), task : Rows, sent : Rows]
  /\ cold \in [at : {"none", "tx", "spawn"}, kind : {"inject", "user_inject"},
               text : Text \cup {"-"}, tx : Nat]
  /\ waking \in BOOLEAN
  /\ answered \in Rows

Init ==
  /\ feed = <<>>
  /\ iter = 0
  /\ run = NoRun
  /\ cold = NoCold
  /\ waking = FALSE
  /\ answered = {}

-----------------------------------------------------------------------------
(* The feed *)

Kind(kinds)  == {i \in DOMAIN feed : feed[i].kind \in kinds}
UserRows     == Kind({"inject", "user_inject"})
Injections   == Kind({"inject"})
TextsOf(S)   == {feed[i].text : i \in S}
Many(kinds, n) == Cardinality(Kind(kinds)) >= n

(* The date of a transaction that starts now: after the rows committed so  *)
(* far, and between two commits a cold inject's comes before the runner's  *)
(* (it needs run.at = "none"), and the runner's before that of a live      *)
(* inject, which commits at once.                                          *)
Began(who, rows) == 3 * rows + CASE who = "cold" -> 0
                                     [] who = "loop" -> 1
                                     [] who = "live" -> 2
Append1(kind, text, at) ==
  feed' = Append(feed, [kind |-> kind, text |-> text, at |-> at])

(* get_recent(limit): the last rows by created_at. *)
Recent ==
  {i \in DOMAIN feed :
     Cardinality({j \in DOMAIN feed : feed[j].at > feed[i].at}) < Window}

(* The rows of S after, and not after, the last row of these kinds in it. *)
After(S, kinds) ==
  {i \in S : \A j \in S \cap Kind(kinds) : feed[i].at > feed[j].at}
NotAfter(S, T, kinds) ==
  {i \in S : \E j \in T \cap Kind(kinds) : feed[i].at <= feed[j].at}

-----------------------------------------------------------------------------
(* The routes *)

StartRunner ==
  /\ run.at = "none"
  /\ run' = [NoRun EXCEPT !.at = "boot"]

(* /run, and /resume of a lab without a runner *)
Run ==
  /\ StartRunner
  /\ UNCHANGED <<feed, iter, cold, waking, answered>>

(* LabRunner.inject(): a transaction of its own, then the wake-up.         *)
InjectLive(text) ==
  /\ run.at # "none"
  /\ ~Many({"inject", "user_inject"}, MaxUser)
  /\ Append1("inject", text, Began("live", Len(feed)))
  /\ waking' = TRUE
  /\ UNCHANGED <<iter, run, cold, answered>>

InjectWake ==
  /\ waking
  /\ waking' = FALSE
  /\ run' = IF run.at = "parked" THEN [run EXCEPT !.at = "stored"] ELSE run
  /\ UNCHANGED <<feed, iter, cold, answered>>

(* LabRunner.resume() *)
Resume ==
  /\ run.at = "parked"
  /\ run' = [run EXCEPT !.at = "stored"]
  /\ UNCHANGED <<feed, iter, cold, waking, answered>>

(* The inject routes without a runner: the request's transaction has begun *)
(* with the read of the lab, the row is committed with the rest of it, and *)
(* a runner is started if there still is none.                             *)
ColdBegin(kind, text) ==
  /\ cold.at = "none"
  /\ run.at = "none"
  /\ ~Many({"inject", "user_inject"}, MaxUser)
  /\ cold' = [at |-> "tx", kind |-> kind, text |-> text,
              tx |-> Began("cold", Len(feed))]
  /\ UNCHANGED <<feed, iter, run, waking, answered>>

ColdCommit ==
  /\ cold.at = "tx"
  /\ Append1(cold.kind, cold.text, cold.tx)
  /\ cold' = [NoCold EXCEPT !.at = "spawn"]
  /\ UNCHANGED <<iter, run, waking, answered>>

ColdSpawn ==
  /\ cold.at = "spawn"
  /\ cold' = NoCold
  /\ StartRunner \/ (run.at # "none" /\ UNCHANGED run)
  /\ UNCHANGED <<feed, iter, waking, answered>>

-----------------------------------------------------------------------------
(* The loop *)

(* mutated form of Boot: no replay guard *)
BootUnguarded ==
  /\ run.at = "boot"
  /\ run' = [run EXCEPT !.at = "top"]
  /\ UNCHANGED <<feed, iter, cold, waking, answered>>

(* mutated form of Boot: contents in place of row ids *)
BootTexts ==
  LET done == NotAfter(Injections, Recent, {"result", "synthesis"}) IN
  /\ run.at = "boot"
  /\ run' = [run EXCEPT !.at = "top", !.guarded = done,
                        !.seen = TextsOf(done)]
  /\ UNCHANGED <<feed, iter, cold, waking, answered>>

(* The replay guard: injections up to the last result or synthesis among   *)
(* the recent rows are held for done.                                      *)
Boot ==
  LET done == NotAfter(Injections, Recent, {"result", "synthesis"}) IN
  /\ run.at = "boot"
  /\ run' = [run EXCEPT !.at = "top", !.guarded = done, !.seen = done]
  /\ UNCHANGED <<feed, iter, cold, waking, answered>>

(* a stop, max_iterations or max_duration *)
EndLoop ==
  /\ run.at = "top"
  /\ run' = NoRun
  /\ UNCHANGED <<feed, iter, cold, waking, answered>>

(* The iteration's transaction begins; the recent messages are read. *)
Refresh ==
  /\ run.at = "top"
  /\ run' = [run EXCEPT !.at = "read", !.tx = Began("loop", Len(feed)),
                        !.msgs = Recent]
  /\ UNCHANGED <<feed, iter, cold, waking, answered>>

(* SoloAgentStrategy._collect_seed() *)
AnsweredTexts ==
  TextsOf(NotAfter(run.msgs \cap UserRows, run.msgs, {"result"}))

(* mutated form of SeedRows: without the injections that were read last *)
SeedRowsRecent == After(run.msgs, {"result"}) \cap UserRows

(* The user's messages after the last result, and the injections that are  *)
(* neither among them nor answered.                                        *)
SeedRows ==
  LET parts == After(run.msgs, {"result"}) \cap UserRows IN
  parts \cup {i \in Injections :
                feed[i].text \notin TextsOf(parts) \cup AnsweredTexts}

(* _collect_unanswered() *)
Unanswered == After(run.msgs, {"result", "synthesis"}) \cap UserRows

(* mutated form of Pending: the seed is not filtered out *)
AllPending(queue) == queue

(* The queued injections, less those whose text was in the seed. *)
Pending(queue) == {i \in queue : feed[i].text \notin run.seed}

(* The injections are read and the new ones given to on_inject(): what     *)
(* next_step() finds queued.                                               *)
Queue == run.queue \cup (Injections \ run.seen)

(* next_step() returns a PlanAction, or a PauseAction if there is nothing. *)
Decide(r, task) ==
  /\ run' = [r EXCEPT !.at = IF task = {} THEN "pausing" ELSE "plan",
                      !.task = task, !.sent = r.sent \cup task,
                      !.tx = 0, !.msgs = {},
                      !.seen = r.seen \cup Injections]

Reading(k) ==
  /\ run.at = "read"
  /\ iter = k
  /\ UNCHANGED <<feed, iter, cold, waking, answered>>

SeedStep ==
  /\ Reading(0)
  /\ Decide([run EXCEPT !.queue = Queue,
                        !.seed = TextsOf(SeedRows) \cup AnsweredTexts],
            SeedRows)

TaskStep ==
  /\ Reading(1)
  /\ Pending(Queue) # {}
  /\ Decide([run EXCEPT !.queue = {}], Pending(Queue))

UnansweredStep ==
  /\ Reading(1)
  /\ Pending(Queue) = {}
  /\ ~run.replied
  /\ Decide([run EXCEPT !.queue = {}], Unanswered)

(* Nothing new: the last response becomes the final answer. *)
FinalStep ==
  /\ Reading(1)
  /\ Pending(Queue) = {}
  /\ run.replied
  /\ run' = [run EXCEPT !.at = "synth", !.queue = {}, !.msgs = {},
                        !.seen = run.seen \cup Injections]

(* The synthesis row is of the transaction of this iteration.  The lab is  *)
(* completed, or parked when the agent has a cron expression.              *)
Synthesize ==
  /\ run.at = "synth"
  /\ Append1("synthesis", "-", run.tx)
  /\ answered' = answered \cup run.sent
  /\ \/ run' = NoRun
     \/ /\ ~Many({"tool", "synthesis"}, MaxExtra)
        /\ run' = [run EXCEPT !.at = "pausing", !.tx = 0]
  /\ UNCHANGED <<iter, cold, waking>>

(* The task row is committed; the agent's call begins the next transaction *)
CallAgent ==
  /\ run.at = "plan"
  /\ run' = [run EXCEPT !.at = "call", !.tx = Began("loop", Len(feed))]
  /\ UNCHANGED <<feed, iter, cold, waking, answered>>

(* A tool call is logged and committed: so does it. *)
ToolCall ==
  /\ run.at = "call"
  /\ ~Many({"tool", "synthesis"}, MaxExtra)
  /\ Append1("tool", "-", run.tx)
  /\ run' = [run EXCEPT !.tx = Began("loop", Len(feed) + 1)]
  /\ UNCHANGED <<iter, cold, waking, answered>>

StoreResult ==
  /\ run.at = "call"
  /\ Append1("result", "-", run.tx)
  /\ answered' = answered \cup run.sent
  /\ run' = [run EXCEPT !.at = "stored", !.task = {}, !.tx = 0,
                        !.replied = TRUE]
  /\ UNCHANGED <<iter, cold, waking>>

(* The call raised: the error is the response, and nothing is stored. *)
CallFails ==
  /\ run.at = "call"
  /\ run' = [run EXCEPT !.at = "stored", !.task = {}, !.tx = 0,
                        !.replied = TRUE]
  /\ UNCHANGED <<feed, iter, cold, waking, answered>>

Increment ==
  /\ run.at = "stored"
  /\ iter' = 1
  /\ run' = [run EXCEPT !.at = "top"]
  /\ UNCHANGED <<feed, cold, waking, answered>>

Park ==
  /\ run.at = "pausing"
  /\ run' = [run EXCEPT !.at = "parked"]
  /\ UNCHANGED <<feed, iter, cold, waking, answered>>

(* The runner's task dies, or the whole process. *)
Crash ==
  /\ run.at # "none"
  /\ run' = NoRun
  /\ \/ UNCHANGED <<cold, waking>>
     \/ cold' = NoCold /\ waking' = FALSE
  /\ UNCHANGED <<feed, iter, answered>>

Loop ==
  \/ Boot \/ Refresh \/ SeedStep \/ TaskStep \/ UnansweredStep \/ FinalStep
  \/ Synthesize \/ CallAgent \/ ToolCall \/ StoreResult \/ CallFails
  \/ Increment \/ Park

Next ==
  \/ Loop \/ EndLoop \/ Crash
  \/ Run \/ Resume \/ InjectWake \/ ColdCommit \/ ColdSpawn
  \/ \E text \in Text :
       \/ InjectLive(text)
       \/ \E kind \in {"inject", "user_inject"} : ColdBegin(kind, text)

Spec == Init /\ [][Next]_vars

-----------------------------------------------------------------------------
(* Properties *)

TaskIsFresh(old) ==
  run.at = "read" /\ run'.at = "plan" => run'.task \cap old = {}

(* solo_agent.py:66-73: a runner gives the agent each message once,        *)
(* although the seed and on_inject() both bring it the same rows.          *)
DispatchedOnce == [][TaskIsFresh(run.sent)]_vars

(* lab_runner.py:426-434: a message whose turn was recorded, by a result   *)
(* or a final answer, is not given to the agent again by a later runner,   *)
(* however the rows' dates, crashes, pauses and cold injects fall.         *)
NeverRedone == [][TaskIsFresh(answered)]_vars

(* solo_agent.py:74-90: when the strategy has nothing more to do, it gives *)
(* its final answer or parks, each injection was given to the agent by     *)
(* this runner, but for those the replay guard holds for done and those    *)
(* whose text the seed had.                                                *)
NothingLeft ==
  [][run.at = "read" /\ run'.at \in {"synth", "pausing"} =>
       \A i \in Injections \ (run.guarded \cup run.sent) :
         feed[i].text \in run'.seed]_vars

(* lab_runner.py:431-432: "Anything created at-or-before the last          *)
(* result/synthesis row is done; only newer rows are live work.": what the *)
(* replay guard drops was given to the agent.                              *)
GuardDropsDone ==
  [][run.at = "boot" /\ run'.at = "top" =>
       run'.guarded \subseteq answered]_vars
=============================================================================
