-------------------------- MODULE AgentHub_proofs ---------------------------
(***************************************************************************)
(* Proofs about AgentHub, for any number of connections, of executions and *)
(* of steps.                                                               *)
(***************************************************************************)
EXTENDS AgentHub, TLAPS

(* PendingExact, said of each command.                                     *)
Expected(x, k) ==
  x.step = k /\ x.at \in {"sending", "await"} /\ x.future = "pending"
PendingIff ==
  \A e \in Exec, k \in 1 .. Steps :
    <<e, k>> \in pending <=> Expected(exec[e], k)

(* What holds of one execution: the steps it has not reached have no log,  *)
(* the steps before its own have passed, and it ends as a success only     *)
(* when its own has passed too.                                            *)
ExecOK(x) ==
  /\ \A k \in 1 .. Steps : k > x.step => x.log[k] = "none"
  /\ PassedBefore(x, x.step)
  /\ x.at \in {"final", "done"} /\ x.final = "success"
       => PassedBefore(x, Steps + 1)
  /\ x.status = "success" => x.at = "done" /\ x.final = "success"

(* The successes of an execution, and the one it is about to record.       *)
RanOK(e, x) ==
  /\ \A k \in 1 .. Steps : x.log[k] = "success" => <<e, k>> \in ran
  /\ x.future = "ok" => <<e, x.step>> \in ran

HubInv ==
  /\ HubTypeOK
  /\ PendingIff
  /\ RegisteredLive
  /\ \A e \in Exec : ExecOK(exec[e]) /\ RanOK(e, exec[e])

-----------------------------------------------------------------------------
(* Settling futures changes nothing of an execution but its future.        *)
LEMMA SettledRecord ==
  ASSUME HubTypeOK, NEW gone, NEW outcome \in {"ok", "bad", "cancelled"},
         NEW e \in Exec
  PROVE  LET x == Settled(gone, outcome)[e] IN
         /\ x \in ExecState
         /\ x = IF Cmd(e) \in gone \cap pending
                  THEN [exec[e] EXCEPT !.future = outcome] ELSE exec[e]
<1>1. exec[e] \in ExecState BY DEF HubTypeOK
<1>2. [exec[e] EXCEPT !.future = outcome] \in ExecState
  BY <1>1 DEF ExecState
<1>3. QED BY <1>1, <1>2 DEF Settled

LEMMA SettledFields ==
  ASSUME HubTypeOK, NEW gone, NEW outcome \in {"ok", "bad", "cancelled"},
         NEW e \in Exec
  PROVE  LET x == Settled(gone, outcome)[e] IN
         /\ x.at = exec[e].at /\ x.step = exec[e].step /\ x.ws = exec[e].ws
         /\ x.log = exec[e].log /\ x.status = exec[e].status
         /\ x.final = exec[e].final
         /\ x.future = IF Cmd(e) \in gone \cap pending THEN outcome
                                                       ELSE exec[e].future
<1> DEFINE x == Settled(gone, outcome)[e]
<1>1. exec[e] \in ExecState BY DEF HubTypeOK
<1>2. CASE Cmd(e) \in gone \cap pending
  <2>1. x = [exec[e] EXCEPT !.future = outcome] BY <1>2, SettledRecord
  <2>2. QED BY <1>1, <1>2, <2>1 DEF ExecState
<1>3. CASE Cmd(e) \notin gone \cap pending
  <2>1. x = exec[e] BY <1>3, SettledRecord
  <2>2. QED BY <1>3, <2>1
<1>4. QED BY <1>2, <1>3

(* Futures that are settled, with their commands, keep the invariant: what *)
(* a caller is told to be a success is one the agent reported.             *)
LEMMA SettleKeeps ==
  ASSUME HubInv, NEW gone, NEW outcome \in {"ok", "bad", "cancelled"},
         exec' = Settled(gone, outcome), pending' = pending \ gone,
         ran \subseteq ran',
         outcome = "ok" => gone \cap pending \subseteq ran'
  PROVE  /\ exec' \in [Exec -> ExecState]
         /\ pending' \subseteq Command
         /\ PendingIff'
         /\ \A e \in Exec : ExecOK(exec'[e]) /\ RanOK(e, exec[e])'
<1>1. HubTypeOK BY DEF HubInv
<1>2. exec' \in [Exec -> ExecState]
  BY <1>1, SettledRecord DEF Settled
<1>3. pending' \subseteq Command BY <1>1 DEF HubTypeOK
<1>4. ASSUME NEW e \in Exec, NEW k \in 1 .. Steps
      PROVE  <<e, k>> \in pending' <=> Expected(exec'[e], k)
  <2>1. <<e, k>> \in pending <=> Expected(exec[e], k)
    BY DEF HubInv, PendingIff
  <2>2. /\ exec'[e].at = exec[e].at /\ exec'[e].step = exec[e].step
        /\ exec'[e].future = IF Cmd(e) \in gone \cap pending THEN outcome
                                                           ELSE exec[e].future
    BY <1>1, SettledFields
  <2>3. CASE exec[e].step = k
    BY <2>1, <2>2, <2>3 DEF Cmd, Expected
  <2>4. CASE exec[e].step # k
    BY <2>1, <2>2, <2>4 DEF Expected
  <2>5. QED BY <2>3, <2>4
<1>5. ASSUME NEW e \in Exec
      PROVE  ExecOK(exec'[e]) /\ RanOK(e, exec[e])'
  <2>1. ExecOK(exec[e]) /\ RanOK(e, exec[e]) BY DEF HubInv
  <2>2. /\ exec'[e].at = exec[e].at /\ exec'[e].step = exec[e].step
        /\ exec'[e].log = exec[e].log /\ exec'[e].status = exec[e].status
        /\ exec'[e].final = exec[e].final
        /\ exec'[e].future = IF Cmd(e) \in gone \cap pending THEN outcome
                                                           ELSE exec[e].future
    BY <1>1, SettledFields
  <2>3. ExecOK(exec'[e]) BY <2>1, <2>2 DEF ExecOK, PassedBefore
  <2>4. RanOK(e, exec[e])' BY <2>1, <2>2 DEF RanOK, Cmd
  <2>5. QED BY <2>3, <2>4
<1>6. QED BY <1>2, <1>3, <1>4, <1>5 DEF PendingIff

(* The step of an execution that leaves the others alone. *)
LEMMA OwnStep ==
  ASSUME HubInv, NEW e \in Exec, NEW r \in ExecState,
         exec' = [exec EXCEPT ![e] = r],
         UNCHANGED <<connVars, ran>>,
         given' \subseteq Command, pending' \subseteq Command,
         \A f \in Exec \ {e}, k \in 1 .. Steps :
           <<f, k>> \in pending' <=> <<f, k>> \in pending,
         \A k \in 1 .. Steps : <<e, k>> \in pending' <=> Expected(r, k),
         ExecOK(r), RanOK(e, r)
  PROVE  HubInv'
<1>1. HubTypeOK' BY DEF HubInv, HubTypeOK, connVars
<1>2. exec'[e] = r /\ \A f \in Exec \ {e} : exec'[f] = exec[f]
  BY DEF HubInv, HubTypeOK
<1>3. PendingIff' BY <1>2 DEF HubInv, PendingIff
<1>4. RegisteredLive' BY DEF HubInv, RegisteredLive, connVars
<1>5. \A f \in Exec : ExecOK(exec'[f]) /\ RanOK(f, exec[f])'
  BY <1>2 DEF HubInv, RanOK
<1>6. QED BY <1>1, <1>3, <1>4, <1>5 DEF HubInv

-----------------------------------------------------------------------------
(* The steps of an execution *)

LEMMA RecordOf ==
  ASSUME HubInv, NEW e \in Exec
  PROVE  exec[e] \in ExecState /\ exec[e].step \in 1 .. Steps
BY DEF HubInv, HubTypeOK, ExecState

(* One that keeps the pending commands, and leaves none of its own there.  *)
LEMMA QuietStep ==
  ASSUME HubInv, NEW e \in Exec, NEW r \in ExecState,
         exec' = [exec EXCEPT ![e] = r],
         UNCHANGED <<connVars, pending, ran>>, given' \subseteq Command,
         \A k \in 1 .. Steps : Expected(r, k) <=> Expected(exec[e], k),
         ExecOK(r), RanOK(e, r)
  PROVE  HubInv'
<1>1. \A k \in 1 .. Steps : <<e, k>> \in pending' <=> Expected(r, k)
  BY DEF HubInv, PendingIff
<1>2. pending' \subseteq Command BY DEF HubInv, HubTypeOK
<1>3. QED BY <1>1, <1>2, OwnStep

LEMMA CreateLogKeeps ==
  ASSUME HubInv, NEW e \in Exec, CreateLog(e)
  PROVE  HubInv'
<1> DEFINE x == exec[e]
           r == [x EXCEPT !.at = "send", !.status = "running",
                          !.log[x.step] = "running"]
<1>1. x \in ExecState /\ x.step \in 1 .. Steps BY RecordOf
<1>2. ExecOK(x) /\ RanOK(e, x) BY DEF HubInv
<1>3. r \in ExecState BY <1>1 DEF ExecState
<1>4. /\ r.at = "send" /\ r.status = "running" /\ r.step = x.step
      /\ r.future = x.future
      /\ r.log = [x.log EXCEPT ![x.step] = "running"]
  BY <1>1 DEF ExecState
<1>5. x.at = "log" BY DEF CreateLog, At
<1>6. exec' = [exec EXCEPT ![e] = r]
  BY <1>1 DEF CreateLog, HubInv, HubTypeOK, ExecState
<1>7. ExecOK(r) BY <1>1, <1>2, <1>4 DEF ExecOK, PassedBefore, ExecState
<1>8. RanOK(e, r) BY <1>1, <1>2, <1>4 DEF RanOK, ExecState
<1>9. \A k \in 1 .. Steps : Expected(r, k) <=> Expected(x, k)
  BY <1>4, <1>5 DEF Expected
<1>10. /\ UNCHANGED <<connVars, pending, ran>>
       /\ given' \subseteq Command
  BY DEF CreateLog, HubInv, HubTypeOK
<1> HIDE DEF x, r
<1>11. QED BY <1>3, <1>6, <1>7, <1>8, <1>9, <1>10, QuietStep DEF x
LEMMA StoreUnsentKeeps ==
  ASSUME HubInv, NEW e \in Exec, StoreUnsent(e)
  PROVE  HubInv'
<1> DEFINE x == exec[e]
           r == [x EXCEPT !.at = "final", !.final = "failed",
                          !.log[x.step] = "failed"]
<1>1. x \in ExecState /\ x.step \in 1 .. Steps BY RecordOf
<1>2. ExecOK(x) /\ RanOK(e, x) BY DEF HubInv
<1>3. r \in ExecState BY <1>1 DEF ExecState
<1>4. /\ r.at = "final" /\ r.final = "failed" /\ r.step = x.step
      /\ r.future = x.future /\ r.status = x.status
      /\ r.log = [x.log EXCEPT ![x.step] = "failed"]
  BY <1>1 DEF ExecState
<1>5. x.at = "unsent" BY DEF StoreUnsent, At
<1>6. exec' = [exec EXCEPT ![e] = r]
  BY <1>1 DEF StoreUnsent, HubInv, HubTypeOK, ExecState
<1>7. ExecOK(r)
  BY <1>1, <1>2, <1>4, <1>5 DEF ExecOK, PassedBefore, ExecState
<1>8. RanOK(e, r) BY <1>1, <1>2, <1>4, <1>5 DEF RanOK, ExecState
<1>9. \A k \in 1 .. Steps : Expected(r, k) <=> Expected(x, k)
  BY <1>4, <1>5 DEF Expected
<1>10. /\ UNCHANGED <<connVars, pending, ran>>
       /\ given' \subseteq Command
  BY DEF StoreUnsent, HubInv, HubTypeOK
<1> HIDE DEF x, r
<1>11. QED BY <1>3, <1>6, <1>7, <1>8, <1>9, <1>10, QuietStep DEF x

LEMMA CancelledKeeps ==
  ASSUME HubInv, NEW e \in Exec, Cancelled(e)
  PROVE  HubInv'
<1> DEFINE x == exec[e]
           r == [x EXCEPT !.at = "raised"]
<1>1. x \in ExecState /\ x.step \in 1 .. Steps BY RecordOf
<1>2. ExecOK(x) /\ RanOK(e, x) BY DEF HubInv
<1>3. r \in ExecState BY <1>1 DEF ExecState
<1>4. /\ r.at = "raised" /\ r.final = x.final /\ r.step = x.step
      /\ r.future = x.future /\ r.status = x.status /\ r.log = x.log
  BY <1>1 DEF ExecState
<1>5. x.at = "await" /\ x.future = "cancelled" BY DEF Cancelled, At
<1>6. exec' = [exec EXCEPT ![e] = r]
  BY <1>1 DEF Cancelled, HubInv, HubTypeOK, ExecState
<1>7. ExecOK(r)
  BY <1>1, <1>2, <1>4, <1>5 DEF ExecOK, PassedBefore, ExecState
<1>8. RanOK(e, r) BY <1>1, <1>2, <1>4, <1>5 DEF RanOK, ExecState
<1>9. \A k \in 1 .. Steps : Expected(r, k) <=> Expected(x, k)
  BY <1>4, <1>5 DEF Expected
<1>10. /\ UNCHANGED <<connVars, pending, ran>>
       /\ given' \subseteq Command
  BY DEF Cancelled, HubInv, HubTypeOK
<1> HIDE DEF x, r
<1>11. QED BY <1>3, <1>6, <1>7, <1>8, <1>9, <1>10, QuietStep DEF x

LEMMA FinalizeKeeps ==
  ASSUME HubInv, NEW e \in Exec, Finalize(e)
  PROVE  HubInv'
<1> DEFINE x == exec[e]
           r == [x EXCEPT !.at = "done", !.status = x.final]
<1>1. x \in ExecState /\ x.step \in 1 .. Steps BY RecordOf
<1>2. ExecOK(x) /\ RanOK(e, x) BY DEF HubInv
<1>3. r \in ExecState BY <1>1 DEF ExecState
<1>4. /\ r.at = "done" /\ r.final = x.final /\ r.step = x.step
      /\ r.future = x.future /\ r.status = x.final /\ r.log = x.log
  BY <1>1 DEF ExecState
<1>5. x.at = "final" BY DEF Finalize, At
<1>6. exec' = [exec EXCEPT ![e] = r]
  BY <1>1 DEF Finalize, HubInv, HubTypeOK, ExecState
<1>7. ExecOK(r)
  BY <1>1, <1>2, <1>4, <1>5 DEF ExecOK, PassedBefore, ExecState
<1>8. RanOK(e, r) BY <1>1, <1>2, <1>4, <1>5 DEF RanOK, ExecState
<1>9. \A k \in 1 .. Steps : Expected(r, k) <=> Expected(x, k)
  BY <1>4, <1>5 DEF Expected
<1>10. /\ UNCHANGED <<connVars, pending, ran>>
       /\ given' \subseteq Command
  BY DEF Finalize, HubInv, HubTypeOK
<1> HIDE DEF x, r
<1>11. QED BY <1>3, <1>6, <1>7, <1>8, <1>9, <1>10, QuietStep DEF x
LEMMA SentKeeps ==
  ASSUME HubInv, NEW e \in Exec, Sent(e)
  PROVE  HubInv'
<1> DEFINE x == exec[e]
           r == [x EXCEPT !.at = "await", !.ws = NoConn]
<1>1. x \in ExecState /\ x.step \in 1 .. Steps BY RecordOf
<1>2. ExecOK(x) /\ RanOK(e, x) BY DEF HubInv
<1>3. r \in ExecState BY <1>1 DEF ExecState
<1>4. /\ r.at = "await" /\ r.final = x.final /\ r.step = x.step
      /\ r.future = x.future /\ r.status = x.status /\ r.log = x.log
  BY <1>1 DEF ExecState
<1>5. x.at = "sending" BY DEF Sent, At
<1>6. exec' = [exec EXCEPT ![e] = r]
  BY <1>1 DEF Sent, HubInv, HubTypeOK, ExecState
<1>7. ExecOK(r)
  BY <1>1, <1>2, <1>4, <1>5 DEF ExecOK, PassedBefore, ExecState
<1>8. RanOK(e, r) BY <1>1, <1>2, <1>4, <1>5 DEF RanOK, ExecState
<1>9. \A k \in 1 .. Steps : Expected(r, k) <=> Expected(x, k)
  BY <1>4, <1>5 DEF Expected
<1>10. UNCHANGED <<connVars, pending, ran>> BY DEF Sent
<1>11. given' \subseteq Command
  <2>1. Cmd(e) \in Command BY <1>1 DEF Cmd, Command
  <2>2. QED BY <2>1 DEF Sent, HubInv, HubTypeOK
<1> HIDE DEF x, r
<1>12. QED BY <1>3, <1>6, <1>7, <1>8, <1>9, <1>10, <1>11, QuietStep DEF x

(* A command becomes pending when it is sent, and only then. *)
LEMMA SendKeeps ==
  ASSUME HubInv, NEW e \in Exec, Send(e)
  PROVE  HubInv'
<1> DEFINE x == exec[e]
           q == [x EXCEPT !.at = "unsent", !.future = "cancelled"]
           r == [x EXCEPT !.at = "sending", !.ws = agents,
                          !.future = "pending"]
<1>1. x \in ExecState /\ x.step \in 1 .. Steps BY RecordOf
<1>2. ExecOK(x) /\ RanOK(e, x) BY DEF HubInv
<1>3. x.at = "send" BY DEF Send, At
<1>4. UNCHANGED <<connVars, ran>> /\ given' \subseteq Command
  BY DEF Send, HubInv, HubTypeOK
<1>5. \A k \in 1 .. Steps : <<e, k>> \in pending <=> Expected(x, k)
  BY DEF HubInv, PendingIff
<1>6. CASE agents = NoConn
  <2>1. q \in ExecState BY <1>1 DEF ExecState
  <2>2. /\ q.at = "unsent" /\ q.final = x.final /\ q.step = x.step
        /\ q.future = "cancelled" /\ q.status = x.status /\ q.log = x.log
    BY <1>1 DEF ExecState
  <2>3. exec' = [exec EXCEPT ![e] = q] /\ pending' = pending
    BY <1>1, <1>6 DEF Send, HubInv, HubTypeOK, ExecState
  <2>4. ExecOK(q)
    BY <1>1, <1>2, <1>3, <2>2 DEF ExecOK, PassedBefore, ExecState
  <2>5. RanOK(e, q) BY <1>1, <1>2, <2>2 DEF RanOK, ExecState
  <2>6. \A k \in 1 .. Steps : Expected(q, k) <=> Expected(x, k)
    BY <1>3, <2>2 DEF Expected
  <2> HIDE DEF x, q, r
  <2>7. QED BY <1>4, <2>1, <2>3, <2>4, <2>5, <2>6, QuietStep DEF x
<1>7. CASE agents # NoConn
  <2>1. r \in ExecState
    BY <1>1 DEF ExecState, HubInv, HubTypeOK
  <2>2. /\ r.at = "sending" /\ r.final = x.final /\ r.step = x.step
        /\ r.future = "pending" /\ r.status = x.status /\ r.log = x.log
    BY <1>1 DEF ExecState
  <2>3. /\ exec' = [exec EXCEPT ![e] = r]
        /\ pending' = pending \cup {<<e, x.step>>}
    BY <1>1, <1>7 DEF Send, HubInv, HubTypeOK, ExecState, Cmd
  <2>4. ExecOK(r)
    BY <1>1, <1>2, <1>3, <2>2 DEF ExecOK, PassedBefore, ExecState
  <2>5. RanOK(e, r) BY <1>1, <1>2, <2>2 DEF RanOK, ExecState
  <2>6. \A k \in 1 .. Steps : <<e, k>> \in pending' <=> Expected(r, k)
    BY <1>3, <1>5, <2>2, <2>3 DEF Expected
  <2>7. \A f \in Exec \ {e}, k \in 1 .. Steps :
          <<f, k>> \in pending' <=> <<f, k>> \in pending
    BY <2>3
  <2>8. pending' \subseteq Command
    BY <1>1, <2>3 DEF HubInv, HubTypeOK, Command
  <2> HIDE DEF x, q, r
  <2>9. QED BY <1>4, <2>1, <2>3, <2>4, <2>5, <2>6, <2>7, <2>8, OwnStep
<1>8. QED BY <1>6, <1>7

LEMMA StepTimeoutKeepsInv ==
  ASSUME HubInv, NEW e \in Exec, StepTimeout(e)
  PROVE  HubInv'
<1> DEFINE x == exec[e]
           r == [x EXCEPT !.future = "bad"]
<1>1. x \in ExecState /\ x.step \in 1 .. Steps BY RecordOf
<1>2. ExecOK(x) /\ RanOK(e, x) BY DEF HubInv
<1>3. r \in ExecState BY <1>1 DEF ExecState
<1>4. /\ r.at = x.at /\ r.final = x.final /\ r.step = x.step
      /\ r.future = "bad" /\ r.status = x.status /\ r.log = x.log
  BY <1>1 DEF ExecState
<1>5. x.at = "await" /\ x.future = "pending" BY DEF StepTimeout, At
<1>6. /\ exec' = [exec EXCEPT ![e] = r]
      /\ pending' = pending \ {<<e, x.step>>}
  BY <1>1 DEF StepTimeout, HubInv, HubTypeOK, ExecState, Cmd
<1>7. ExecOK(r) BY <1>2, <1>4 DEF ExecOK, PassedBefore
<1>8. RanOK(e, r) BY <1>2, <1>4 DEF RanOK
<1>9. \A k \in 1 .. Steps : <<e, k>> \in pending <=> Expected(x, k)
  BY DEF HubInv, PendingIff
<1>10. \A k \in 1 .. Steps : <<e, k>> \in pending' <=> Expected(r, k)
  BY <1>4, <1>6, <1>9 DEF Expected
<1>11. \A f \in Exec \ {e}, k \in 1 .. Steps :
         <<f, k>> \in pending' <=> <<f, k>> \in pending
  BY <1>6
<1>12. /\ UNCHANGED <<connVars, ran>>
       /\ given' \subseteq Command /\ pending' \subseteq Command
  BY <1>6 DEF StepTimeout, HubInv, HubTypeOK
<1> HIDE DEF x, r
<1>13. QED
  BY <1>3, <1>6, <1>7, <1>8, <1>10, <1>11, <1>12, OwnStep

(* The step that is stored as a success was answered so; the next one is   *)
(* begun only when it has passed.                                          *)
LEMMA StoreResultKeeps ==
  ASSUME HubInv, NEW e \in Exec, StoreResult(e)
  PROVE  HubInv'
<1> DEFINE x    == exec[e]
           ok   == x.future = "ok"
           stop == ~ok /\ x.step \notin Continue
           last == stop \/ x.step = Steps
           r    == [x EXCEPT !.at = IF last THEN "final" ELSE "log",
                             !.step = IF last THEN x.step ELSE x.step + 1,
                             !.future = "none",
                             !.final = IF stop THEN "failed" ELSE x.final,
                             !.log[x.step] = IF ok THEN "success"
                                                   ELSE "failed"]
<1>1. x \in ExecState /\ x.step \in 1 .. Steps BY RecordOf
<1>2. ExecOK(x) /\ RanOK(e, x) BY DEF HubInv
<1>3. (IF last THEN x.step ELSE x.step + 1) \in 1 .. Steps
  BY <1>1, HubAssumption
<1>4. r \in ExecState BY <1>1, <1>3 DEF ExecState
<1>5. /\ r.at = IF last THEN "final" ELSE "log"
      /\ r.step = IF last THEN x.step ELSE x.step + 1
      /\ r.future = "none" /\ r.status = x.status
      /\ r.final = IF stop THEN "failed" ELSE x.final
      /\ r.log = [x.log EXCEPT ![x.step] = IF ok THEN "success"
                                                 ELSE "failed"]
  BY <1>1 DEF ExecState
<1>6. x.at = "await" /\ x.future \in {"ok", "bad"}
  BY DEF StoreResult, At
<1>7. exec' = [exec EXCEPT ![e] = r]
  BY <1>1 DEF StoreResult, HubInv, HubTypeOK, ExecState
<1>8. /\ DOMAIN x.log = 1 .. Steps
      /\ \A k \in 1 .. Steps : r.log[k] = IF k # x.step THEN x.log[k]
                                 ELSE IF ok THEN "success" ELSE "failed"
  BY <1>1, <1>5 DEF ExecState
<1>9. ExecOK(r)
  <2>1. PassedBefore(r, x.step)
    BY <1>1, <1>2, <1>8, HubAssumption DEF ExecOK, PassedBefore
  <2>2. ~stop => PassedBefore(r, x.step + 1)
    BY <1>1, <1>8, <2>1, HubAssumption DEF PassedBefore
  <2>3. PassedBefore(r, r.step) BY <1>5, <2>1, <2>2
  <2>4. r.at \in {"final", "done"} /\ r.final = "success"
          => PassedBefore(r, Steps + 1)
    BY <1>5, <2>2
  <2>5. \A k \in 1 .. Steps : k > r.step => r.log[k] = "none"
    BY <1>1, <1>2, <1>5, <1>8, HubAssumption DEF ExecOK
  <2>6. r.status # "success" BY <1>2, <1>5, <1>6 DEF ExecOK
  <2>7. QED BY <2>3, <2>4, <2>5, <2>6 DEF ExecOK
<1>10. RanOK(e, r) BY <1>1, <1>2, <1>5, <1>8 DEF RanOK
<1>11. \A k \in 1 .. Steps : Expected(r, k) <=> Expected(x, k)
  BY <1>5, <1>6 DEF Expected
<1>12. UNCHANGED <<connVars, pending, ran>> /\ given' \subseteq Command
  BY DEF StoreResult, HubInv, HubTypeOK
<1> HIDE DEF x, r
<1>13. QED BY <1>4, <1>7, <1>9, <1>10, <1>11, <1>12, QuietStep DEF x
(* All the pending futures are cancelled, and the sender gives up.         *)
LEMMA SendRaisesKeeps ==
  ASSUME HubInv, NEW e \in Exec, SendRaises(e)
  PROVE  HubInv'
<1> DEFINE st == Settled(pending, "cancelled")
           r  == [st[e] EXCEPT !.at = "unsent", !.ws = NoConn]
<1>1. HubTypeOK BY DEF HubInv
<1>2. \A f \in Exec : st[f] \in ExecState
  BY <1>1, SettledRecord
<1>3. \A f \in Exec :
        /\ st[f].at = exec[f].at /\ st[f].step = exec[f].step
        /\ st[f].log = exec[f].log /\ st[f].status = exec[f].status
        /\ st[f].final = exec[f].final
        /\ st[f].future = IF Cmd(f) \in pending THEN "cancelled"
                                                ELSE exec[f].future
  BY <1>1, SettledFields
<1>4. r \in ExecState BY <1>2 DEF ExecState
<1>5. /\ r.at = "unsent" /\ r.step = st[e].step /\ r.future = st[e].future
      /\ r.log = st[e].log /\ r.status = st[e].status
      /\ r.final = st[e].final
  BY <1>2 DEF ExecState
<1>6. exec' = [st EXCEPT ![e] = r]
  BY DEF SendRaises, Settled
<1>7. /\ exec' \in [Exec -> ExecState]
      /\ exec'[e] = r /\ \A f \in Exec \ {e} : exec'[f] = st[f]
  <2>1. st \in [Exec -> ExecState] BY <1>2 DEF Settled
  <2> HIDE DEF st, r
  <2>2. QED BY <1>4, <1>6, <2>1
<1>8. ASSUME NEW f \in Exec, NEW k \in 1 .. Steps
      PROVE  ~Expected(exec'[f], k)
  <2>1. <<f, k>> \in pending <=> Expected(exec[f], k)
    BY DEF HubInv, PendingIff
  <2>2. CASE f = e BY <1>5, <1>7, <2>2 DEF Expected
  <2>3. CASE f # e
    <3>1. exec'[f] = st[f] BY <1>7, <2>3
    <3>2. /\ st[f].at = exec[f].at /\ st[f].step = exec[f].step
          /\ st[f].future = IF Cmd(f) \in pending THEN "cancelled"
                                                  ELSE exec[f].future
      BY <1>3
    <3> HIDE DEF st, r
    <3>3. CASE Cmd(f) \in pending BY <3>1, <3>2, <3>3 DEF Expected
    <3>4. CASE Cmd(f) \notin pending
      BY <2>1, <3>1, <3>2, <3>4 DEF Expected, Cmd
    <3>5. QED BY <3>3, <3>4
  <2>4. QED BY <2>2, <2>3
<1>9. PendingIff' BY <1>8 DEF SendRaises, PendingIff
<1>10. ASSUME NEW f \in Exec
       PROVE  ExecOK(exec'[f]) /\ RanOK(f, exec[f])'
  <2>1. ExecOK(exec[f]) /\ RanOK(f, exec[f]) BY DEF HubInv
  <2>2. /\ exec'[f].step = exec[f].step /\ exec'[f].log = exec[f].log
        /\ exec'[f].status = exec[f].status
        /\ exec'[f].final = exec[f].final
        /\ exec'[f].future \in {"cancelled", exec[f].future}
        /\ exec'[f].at = IF f = e THEN "unsent" ELSE exec[f].at
    <3>1. CASE f = e
      <4>1. exec'[f] = r BY <1>7, <3>1
      <4> HIDE DEF st, r
      <4>2. QED BY <1>3, <1>5, <3>1, <4>1
    <3>2. CASE f # e
      <4>1. exec'[f] = st[f] BY <1>7, <3>2
      <4> HIDE DEF st, r
      <4>2. QED BY <1>3, <3>2, <4>1
    <3>3. QED BY <3>1, <3>2
  <2>3. exec[e].at = "sending" BY DEF SendRaises, At
  <2>4. ExecOK(exec'[f])
    BY <2>1, <2>2, <2>3 DEF ExecOK, PassedBefore
  <2>5. RanOK(f, exec[f])' BY <2>1, <2>2 DEF RanOK, SendRaises
  <2>6. QED BY <2>4, <2>5
<1>11. HubTypeOK'
  <2>1. exec' \in [Exec -> ExecState] BY <1>7
  <2> HIDE DEF st, r
  <2>2. QED BY <1>1, <2>1 DEF SendRaises, HubTypeOK
<1>12. RegisteredLive' BY DEF SendRaises, RegisteredLive
<1>13. QED BY <1>9, <1>10, <1>11, <1>12 DEF HubInv

-----------------------------------------------------------------------------
(* The steps of the connections *)

(* What concerns neither the commands nor the executions. *)
LEMMA ConnectionStep ==
  ASSUME HubInv, UNCHANGED <<pending, ran, exec>>, HubTypeOK',
         RegisteredLive'
  PROVE  HubInv'
<1>1. PendingIff' BY DEF HubInv, PendingIff
<1>2. \A e \in Exec : ExecOK(exec'[e]) /\ RanOK(e, exec[e])'
  BY DEF HubInv, RanOK
<1>3. QED BY <1>1, <1>2 DEF HubInv

LEMMA ConnectKeeps ==
  ASSUME HubInv, NEW c \in Conn,
         Connect(c) \/ Registered(c) \/ Heartbeat(c) \/ Break(c)
           \/ MarkOffline(c)
  PROVE  HubInv'
<1>1. HubTypeOK'
  BY DEF HubInv, HubTypeOK, Connect, Registered, Heartbeat, Break,
         MarkOffline
<1>2. RegisteredLive'
  BY DEF HubInv, HubTypeOK, RegisteredLive, Connect, Registered, Heartbeat,
         Break, MarkOffline
<1>3. UNCHANGED <<pending, ran, exec>>
  BY DEF Connect, Registered, Heartbeat, Break, MarkOffline
<1>4. QED BY <1>1, <1>2, <1>3, ConnectionStep

LEMMA DisconnectKeeps ==
  ASSUME HubInv, NEW c \in Conn, Disconnect(c)
  PROVE  HubInv'
<1>1. /\ exec' = Settled(pending, "cancelled")
      /\ pending' = pending \ pending
      /\ ran \subseteq ran'
  BY DEF Disconnect, UnregisterAgent
<1>2. /\ exec' \in [Exec -> ExecState]
      /\ pending' \subseteq Command
      /\ PendingIff'
      /\ \A e \in Exec : ExecOK(exec'[e]) /\ RanOK(e, exec[e])'
  BY <1>1, SettleKeeps
<1>3. HubTypeOK'
  BY <1>2 DEF HubInv, HubTypeOK, Disconnect, UnregisterAgent
<1>4. RegisteredLive' BY DEF RegisteredLive, Disconnect, UnregisterAgent
<1>5. QED BY <1>2, <1>3, <1>4 DEF HubInv

(* The future that is settled by an answer is that of the very command.    *)
LEMMA AnswerKeeps ==
  ASSUME HubInv, NEW cmd \in Command, Answer(cmd)
  PROVE  HubInv'
<1>1. PICK outcome \in {"ok", "bad"} :
        /\ ResolvePending(cmd, outcome)
        /\ ran' = IF outcome = "ok" THEN ran \cup {cmd} ELSE ran
  BY DEF Answer
<1>2. /\ exec' \in [Exec -> ExecState]
      /\ pending' \subseteq Command
      /\ PendingIff'
      /\ \A e \in Exec : ExecOK(exec'[e]) /\ RanOK(e, exec[e])'
  BY <1>1, SettleKeeps DEF ResolvePending
<1>3. HubTypeOK'
  BY <1>1, <1>2 DEF HubInv, HubTypeOK, Answer, connVars
<1>4. RegisteredLive' BY DEF HubInv, RegisteredLive, Answer, connVars
<1>5. QED BY <1>2, <1>3, <1>4 DEF HubInv

LEMMA AnswerLostKeeps ==
  ASSUME HubInv, NEW cmd \in Command, AnswerLost(cmd)
  PROVE  HubInv'
<1>1. HubTypeOK' BY DEF HubInv, HubTypeOK, AnswerLost, connVars
<1>2. RegisteredLive' BY DEF HubInv, RegisteredLive, AnswerLost, connVars
<1>3. UNCHANGED <<pending, ran, exec>> BY DEF AnswerLost
<1>4. QED BY <1>1, <1>2, <1>3, ConnectionStep

-----------------------------------------------------------------------------

LEMMA InitInv == Init => HubInv
<1> SUFFICES ASSUME Init PROVE HubInv
  OBVIOUS
<1> DEFINE x == [at |-> "log", step |-> 1, future |-> "none", ws |-> NoConn,
                 log |-> [k \in 1 .. Steps |-> "none"],
                 status |-> "none", final |-> "success"]
<1>1. \A e \in Exec : exec[e] = x BY DEF Init
<1>2. x \in ExecState BY HubAssumption DEF ExecState
<1>3. HubTypeOK BY <1>2 DEF Init, HubTypeOK
<1>4. ASSUME NEW e \in Exec
      PROVE  /\ ExecOK(exec[e]) /\ RanOK(e, exec[e])
             /\ \A k \in 1 .. Steps : ~Expected(exec[e], k)
  BY <1>1, HubAssumption DEF ExecOK, RanOK, PassedBefore, Expected
<1>5. PendingIff BY <1>4 DEF PendingIff, Init
<1>6. RegisteredLive BY DEF RegisteredLive, Init
<1>7. QED BY <1>3, <1>4, <1>5, <1>6 DEF HubInv

LEMMA NextInv == HubInv /\ [Next]_vars => HubInv'
<1> SUFFICES ASSUME HubInv, [Next]_vars PROVE HubInv'
  OBVIOUS
<1>1. CASE UNCHANGED vars
  <2>1. HubTypeOK' BY <1>1 DEF HubInv, HubTypeOK, vars
  <2>2. RegisteredLive' BY <1>1 DEF HubInv, RegisteredLive, vars
  <2>3. QED BY <1>1, <2>1, <2>2, ConnectionStep DEF vars
<1>2. ASSUME NEW c \in Conn,
             HandlerStep(c) \/ Connect(c) \/ Heartbeat(c) \/ Break(c)
      PROVE  HubInv'
  BY <1>2, ConnectKeeps, DisconnectKeeps DEF HandlerStep
<1>3. ASSUME NEW cmd \in Command, Answer(cmd) \/ AnswerLost(cmd)
      PROVE  HubInv'
  BY <1>3, AnswerKeeps, AnswerLostKeeps
<1>4. ASSUME NEW e \in Exec, ExecStep(e) PROVE HubInv'
  BY <1>4, CreateLogKeeps, SendKeeps, SentKeeps, SendRaisesKeeps,
     StoreUnsentKeeps, CancelledKeeps, StepTimeoutKeepsInv,
     StoreResultKeeps, FinalizeKeeps DEF ExecStep
<1>5. QED BY <1>1, <1>2, <1>3, <1>4 DEF Next

(* The inductive invariant: the types, the pending commands one by one,    *)
(* the history of every execution, and what the agent has answered.        *)
THEOREM HubInvariant == Spec => []HubInv
<1>1. Init => HubInv BY InitInv
<1>2. HubInv /\ [Next]_vars => HubInv' BY NextInv
<1>3. QED BY <1>1, <1>2, PTL DEF Spec

(* HubTypeOK holds in every reachable state.                               *)
THEOREM HubTypeCorrect == Spec => []HubTypeOK
<1>1. HubInv => HubTypeOK BY DEF HubInv
<1>2. QED BY <1>1, HubInvariant, PTL

(* manager._pending holds the commands of the callers that are sending or  *)
(* waiting, and no others: nothing leaks, and nobody waits unregistered.   *)
THEOREM PendingIsExact == Spec => []PendingExact
<1>1. HubInv => PendingExact
  <2> SUFFICES ASSUME HubInv PROVE PendingExact
    OBVIOUS
  <2> DEFINE W == {e \in Exec : /\ exec[e].at \in {"sending", "await"}
                                /\ exec[e].future = "pending"}
  <2>1. \A e \in Exec : exec[e].step \in 1 .. Steps BY RecordOf
  <2>2. \A e \in Exec, k \in 1 .. Steps :
          <<e, k>> \in pending <=> (e \in W /\ exec[e].step = k)
    BY DEF HubInv, PendingIff, Expected
  <2>3. pending \subseteq Exec \X (1 .. Steps)
    BY DEF HubInv, HubTypeOK, Command
  <2>4. pending = {Cmd(e) : e \in W}
    BY <2>1, <2>2, <2>3 DEF Cmd
  <2>5. QED BY <2>4 DEF PendingExact
<1>2. QED BY <1>1, HubInvariant, PTL

(* A step that is stored as a success is one the agent answered with exit  *)
(* code 0, however answers, timeouts and reconnections interleave.         *)
THEOREM SuccessIsReal == Spec => []SuccessMeansRan
<1>1. HubInv => SuccessMeansRan BY DEF HubInv, RanOK, SuccessMeansRan
<1>2. QED BY <1>1, HubInvariant, PTL

(* The steps of an execution are begun in order, each one only when those  *)
(* before it have passed, and success is the success of them all.          *)
THEOREM StepsAreInOrder == Spec => []StepsInOrder
<1>1. HubInv => StepsInOrder
  <2> SUFFICES ASSUME HubInv, NEW e \in Exec
               PROVE  /\ \A k \in 1 .. Steps : exec[e].log[k] # "none"
                           => PassedBefore(exec[e], k)
                      /\ exec[e].status = "success"
                           => PassedBefore(exec[e], Steps + 1)
    BY DEF StepsInOrder
  <2>1. ExecOK(exec[e]) /\ exec[e].step \in 1 .. Steps
    BY RecordOf DEF HubInv
  <2>2. ASSUME NEW k \in 1 .. Steps, exec[e].log[k] # "none"
        PROVE  PassedBefore(exec[e], k)
    <3>1. k <= exec[e].step BY <2>1, <2>2, HubAssumption DEF ExecOK
    <3>2. QED BY <2>1, <3>1, HubAssumption DEF ExecOK, PassedBefore
  <2>3. QED BY <2>1, <2>2 DEF ExecOK
<1>2. QED BY <1>1, HubInvariant, PTL

(* The hub names only connections whose handler still reads.               *)
THEOREM RegisteredIsLive == Spec => []RegisteredLive
<1>1. HubInv => RegisteredLive BY DEF HubInv
<1>2. QED BY <1>1, HubInvariant, PTL

-----------------------------------------------------------------------------
(* The logs of an execution, and the commands they stand for *)

(* The log of the current step agrees with where the execution is in it.   *)
CurrentLog(x) ==
  \/ x.at = "log" /\ x.log[x.step] = "none"
  \/ /\ x.at \in {"send", "sending", "unsent", "await", "raised"}
     /\ x.log[x.step] = "running"
  \/ /\ x.at \in {"final", "done"}
     /\ x.log[x.step] \in {"success", "failed"}

(* The command of step k is yet to be sent.                                *)
Ahead(x, k) ==
  \/ k > x.step
  \/ k = x.step /\ x.at \in {"log", "send", "sending"}

(* The agent holds, or has answered, no command that is yet to be sent.    *)
SentBefore ==
  \A e \in Exec, k \in 1 .. Steps :
    <<e, k>> \in given \cup ran => ~Ahead(exec[e], k)

(* The agent is never handed a command it has already run with success:    *)
(* each step of a workflow is sent once, and a connection that breaks      *)
(* while it is sent, or waited for, does not have it sent again.           *)
GivenOnce == given \cap ran = {}

(* The log of a step goes from nothing to "running" and from there to its  *)
(* result, which no later step, answer or disconnect rewrites.             *)
LogsAdvance ==
  \A e \in Exec, k \in 1 .. Steps :
    \/ exec'[e].log[k] = exec[e].log[k]
    \/ exec[e].log[k] = "none" /\ exec'[e].log[k] = "running"
    \/ /\ exec[e].log[k] = "running"
       /\ exec'[e].log[k] \in {"success", "failed"}

HistoryInv ==
  /\ HubInv
  /\ \A e \in Exec : CurrentLog(exec[e])
  /\ SentBefore
  /\ GivenOnce

(* What one step makes of one execution.                                   *)
Moved(x, y) ==
  \/ y.at = x.at /\ y.step = x.step /\ y.log = x.log
  \/ /\ x.at = "log" /\ y.at = "send" /\ y.step = x.step
     /\ y.log = [x.log EXCEPT ![x.step] = "running"]
  \/ /\ x.at = "send" /\ y.at \in {"unsent", "sending"}
     /\ y.step = x.step /\ y.log = x.log
  \/ /\ x.at = "sending" /\ y.at \in {"unsent", "await"}
     /\ y.step = x.step /\ y.log = x.log
  \/ /\ x.at = "await" /\ y.at = "raised"
     /\ y.step = x.step /\ y.log = x.log
  \/ /\ x.at = "final" /\ y.at = "done"
     /\ y.step = x.step /\ y.log = x.log
  \/ /\ x.at = "unsent" /\ y.at = "final" /\ y.step = x.step
     /\ y.log = [x.log EXCEPT ![x.step] = "failed"]
  \/ /\ x.at = "await"
     /\ \/ y.at = "final" /\ y.step = x.step
        \/ y.at = "log" /\ y.step = x.step + 1
     /\ \E result \in {"success", "failed"} :
          y.log = [x.log EXCEPT ![x.step] = result]

LEMMA MovedSelf == \A x : Moved(x, x)
BY DEF Moved

LEMMA ConnectionMoves ==
  ASSUME HubInv, NEW e \in Exec, NEW c \in Conn,
         HandlerStep(c) \/ Connect(c) \/ Heartbeat(c) \/ Break(c)
  PROVE  Moved(exec[e], exec'[e])
<1>1. CASE exec' = exec BY <1>1, MovedSelf
<1>2. CASE exec' = Settled(pending, "cancelled")
  <2>1. /\ exec'[e].at = exec[e].at /\ exec'[e].step = exec[e].step
        /\ exec'[e].log = exec[e].log
    BY <1>2, SettledFields DEF HubInv
  <2>2. QED BY <2>1 DEF Moved
<1>3. QED
  BY <1>1, <1>2 DEF HandlerStep, Registered, Disconnect, MarkOffline, Connect,
     Heartbeat, Break, UnregisterAgent

LEMMA AnswerMoves ==
  ASSUME HubInv, NEW e \in Exec, NEW cmd \in Command,
         Answer(cmd) \/ AnswerLost(cmd)
  PROVE  Moved(exec[e], exec'[e])
<1>1. CASE AnswerLost(cmd) BY <1>1, MovedSelf DEF AnswerLost
<1>2. CASE Answer(cmd)
  <2>1. PICK outcome \in {"ok", "bad"} : exec' = Settled({cmd}, outcome)
    BY <1>2 DEF Answer, ResolvePending
  <2>2. /\ exec'[e].at = exec[e].at /\ exec'[e].step = exec[e].step
        /\ exec'[e].log = exec[e].log
    BY <2>1, SettledFields DEF HubInv
  <2>3. QED BY <2>2 DEF Moved
<1>3. QED BY <1>1, <1>2

(* An execution's own step: each of the nine is one disjunct of Moved.     *)
LEMMA OwnMoves ==
  ASSUME HubInv, NEW e \in Exec, ExecStep(e)
  PROVE  Moved(exec[e], exec'[e])
<1> DEFINE x == exec[e]
           y == exec'[e]
<1>1. /\ x \in ExecState /\ x.step \in 1 .. Steps
      /\ exec \in [Exec -> ExecState]
  BY RecordOf DEF HubInv, HubTypeOK
<1>2. CASE CreateLog(e)
  BY <1>1, <1>2 DEF CreateLog, At, Moved, ExecState
<1>3. CASE Send(e)
  BY <1>1, <1>3 DEF Send, At, Moved, ExecState
<1>4. CASE Sent(e)
  BY <1>1, <1>4 DEF Sent, At, Moved, ExecState
<1>5. CASE SendRaises(e)
  <2> DEFINE st == Settled(pending, "cancelled")
  <2>1. st \in [Exec -> ExecState]
    BY SettledRecord DEF Settled, HubInv
  <2>2. st[e].step = x.step /\ st[e].log = x.log /\ st[e] \in ExecState
    BY <2>1, SettledFields DEF HubInv
  <2>3. exec' = [st EXCEPT ![e].at = "unsent", ![e].ws = NoConn]
    BY <1>5 DEF SendRaises
  <2> HIDE DEF st
  <2>4. y.at = "unsent" /\ y.step = st[e].step /\ y.log = st[e].log
    BY <2>1, <2>2, <2>3 DEF ExecState
  <2>5. x.at = "sending" BY <1>5 DEF SendRaises, At
  <2>6. QED BY <2>2, <2>4, <2>5 DEF Moved
<1>6. CASE StoreUnsent(e)
  BY <1>1, <1>6 DEF StoreUnsent, At, Moved, ExecState
<1>7. CASE Cancelled(e)
  BY <1>1, <1>7 DEF Cancelled, At, Moved, ExecState
<1>8. CASE StepTimeout(e)
  BY <1>1, <1>8 DEF StepTimeout, At, Moved, ExecState
<1>9. CASE StoreResult(e)
  <2> DEFINE ok   == x.future = "ok"
             stop == ~ok /\ x.step \notin Continue
             last == stop \/ x.step = Steps
  <2>1. x.at = "await" BY <1>9 DEF StoreResult, At
  <2>2. /\ y.at = IF last THEN "final" ELSE "log"
        /\ y.step = IF last THEN x.step ELSE x.step + 1
        /\ y.log = [x.log EXCEPT ![x.step] = IF ok THEN "success"
                                                  ELSE "failed"]
    BY <1>1, <1>9 DEF StoreResult, ExecState
  <2>3. \E result \in {"success", "failed"} :
          y.log = [x.log EXCEPT ![x.step] = result]
    BY <2>2
  <2>4. \/ y.at = "final" /\ y.step = x.step
        \/ y.at = "log" /\ y.step = x.step + 1
    BY <2>2
  <2> HIDE DEF x, y
  <2>5. QED BY <2>1, <2>3, <2>4 DEF Moved, x, y
<1>10. CASE Finalize(e)
  BY <1>1, <1>10 DEF Finalize, At, Moved, ExecState
<1>11. QED
  BY <1>2, <1>3, <1>4, <1>5, <1>6, <1>7, <1>8, <1>9, <1>10 DEF ExecStep

LEMMA OthersMove ==
  ASSUME HubInv, NEW f \in Exec, ExecStep(f), NEW e \in Exec \ {f}
  PROVE  Moved(exec[e], exec'[e])
<1>1. exec \in [Exec -> ExecState] BY DEF HubInv, HubTypeOK
<1>2. CASE SendRaises(f)
  <2> DEFINE st == Settled(pending, "cancelled")
  <2>1. st \in [Exec -> ExecState]
    BY SettledRecord DEF Settled, HubInv
  <2>2. /\ st[e].at = exec[e].at /\ st[e].step = exec[e].step
        /\ st[e].log = exec[e].log
    BY SettledFields DEF HubInv
  <2>3. exec' = [st EXCEPT ![f].at = "unsent", ![f].ws = NoConn]
    BY <1>2 DEF SendRaises
  <2> HIDE DEF st
  <2>4. exec'[e] = st[e] BY <2>1, <2>3
  <2>5. QED BY <2>2, <2>4 DEF Moved
<1>3. CASE ~SendRaises(f)
  <2>1. exec'[e] = exec[e]
    BY <1>1, <1>3 DEF ExecStep, CreateLog, Send, Sent, StoreUnsent, Cancelled,
       StepTimeout, StoreResult, Finalize
  <2>2. QED BY <2>1, MovedSelf
<1>4. QED BY <1>2, <1>3

LEMMA EveryMove ==
  ASSUME HubInv, [Next]_vars, NEW e \in Exec
  PROVE  Moved(exec[e], exec'[e])
<1>1. CASE UNCHANGED vars BY <1>1, MovedSelf DEF vars
<1>2. QED
  BY <1>1, ConnectionMoves, AnswerMoves, OwnMoves, OthersMove DEF Next

(* A move keeps the current log in place, takes the logs forward, and      *)
(* brings no command back before its sending.                              *)
LEMMA MoveKeepsLogs ==
  ASSUME NEW x \in ExecState, NEW y \in ExecState, ExecOK(x),
         CurrentLog(x), Moved(x, y)
  PROVE  /\ CurrentLog(y)
         /\ \A k \in 1 .. Steps :
              \/ y.log[k] = x.log[k]
              \/ x.log[k] = "none" /\ y.log[k] = "running"
              \/ x.log[k] = "running" /\ y.log[k] \in {"success", "failed"}
<1>1. /\ x.step \in 1 .. Steps /\ y.step \in 1 .. Steps
      /\ DOMAIN x.log = 1 .. Steps
      /\ \A k \in 1 .. Steps : k > x.step => x.log[k] = "none"
  BY DEF ExecState, ExecOK
<1>2. CASE y.at = x.at /\ y.step = x.step /\ y.log = x.log
  BY <1>2 DEF CurrentLog
<1>3. CASE /\ x.at = "log" /\ y.at = "send" /\ y.step = x.step
           /\ y.log = [x.log EXCEPT ![x.step] = "running"]
  BY <1>1, <1>3 DEF CurrentLog
<1>4. CASE /\ x.at = "unsent" /\ y.at = "final" /\ y.step = x.step
           /\ y.log = [x.log EXCEPT ![x.step] = "failed"]
  BY <1>1, <1>4 DEF CurrentLog
<1>5. CASE /\ y.step = x.step /\ y.log = x.log
           /\ \/ x.at \in {"send", "sending", "await"}
                 /\ y.at \in {"unsent", "sending", "await", "raised"}
              \/ x.at = "final" /\ y.at = "done"
  BY <1>5 DEF CurrentLog
<1>6. CASE /\ x.at = "await"
           /\ \/ y.at = "final" /\ y.step = x.step
              \/ y.at = "log" /\ y.step = x.step + 1
           /\ \E result \in {"success", "failed"} :
                y.log = [x.log EXCEPT ![x.step] = result]
  <2>1. PICK result \in {"success", "failed"} :
          y.log = [x.log EXCEPT ![x.step] = result]
    BY <1>6
  <2>2. x.log[x.step] = "running" BY <1>6 DEF CurrentLog
  <2>3. \A k \in 1 .. Steps :
          y.log[k] = IF k = x.step THEN result ELSE x.log[k]
    BY <1>1, <2>1
  <2>4. CurrentLog(y)
    BY <1>1, <1>6, <2>3, HubAssumption DEF CurrentLog
  <2>5. QED BY <2>2, <2>3, <2>4
<1>7. QED BY <1>2, <1>3, <1>4, <1>5, <1>6 DEF Moved

LEMMA MoveKeepsSent ==
  ASSUME NEW x \in ExecState, NEW y \in ExecState, Moved(x, y),
         NEW k \in 1 .. Steps
  PROVE  /\ ~Ahead(x, k) => ~Ahead(y, k)
         /\ x.at = "sending" /\ y.at = "await" => ~Ahead(y, x.step)
<1>1. x.step \in 1 .. Steps /\ y.step \in 1 .. Steps BY DEF ExecState
<1>2. y.step >= x.step BY <1>1, HubAssumption DEF Moved
<1>3. ~Ahead(x, k) => ~Ahead(y, k)
  BY <1>1, <1>2, HubAssumption DEF Moved, Ahead
<1>4. x.at = "sending" /\ y.at = "await" => y.step = x.step
  BY DEF Moved
<1>5. QED BY <1>1, <1>3, <1>4 DEF Ahead

(* The agent comes to hold a command only when it is sent, and what it     *)
(* has answered with success it holds no more.                             *)
LEMMA HandedOver ==
  ASSUME HubInv, [Next]_vars
  PROVE  \/ /\ given' \subseteq given /\ ran' = ran
         \/ \E cmd \in given : /\ given' = given \ {cmd}
                               /\ ran' \subseteq ran \cup {cmd}
         \/ \E e \in Exec : /\ At(e, "sending") /\ At(e, "await")'
                            /\ given' \subseteq given \cup {Cmd(e)}
                            /\ ran' = ran
<1>1. CASE UNCHANGED vars BY <1>1 DEF vars
<1>2. ASSUME NEW c \in Conn,
             HandlerStep(c) \/ Connect(c) \/ Heartbeat(c) \/ Break(c)
      PROVE  given' = given /\ ran' = ran
  BY <1>2 DEF HandlerStep, Registered, Disconnect, MarkOffline, Connect,
     Heartbeat, Break
<1>3. ASSUME NEW cmd \in Command, Answer(cmd) \/ AnswerLost(cmd)
      PROVE  /\ cmd \in given /\ given' = given \ {cmd}
             /\ ran' \subseteq ran \cup {cmd}
  BY <1>3 DEF Answer, AnswerLost
<1>4. ASSUME NEW e \in Exec, ExecStep(e), ~Sent(e)
      PROVE  given' = given /\ ran' = ran
  BY <1>4 DEF ExecStep, CreateLog, Send, SendRaises, StoreUnsent, Cancelled,
     StepTimeout, StoreResult, Finalize
<1>5. ASSUME NEW e \in Exec, Sent(e)
      PROVE  /\ At(e, "sending") /\ At(e, "await")'
             /\ given' \subseteq given \cup {Cmd(e)} /\ ran' = ran
  <2>1. exec[e] \in ExecState /\ exec \in [Exec -> ExecState]
    BY DEF HubInv, HubTypeOK
  <2>2. exec'[e].at = "await" BY <1>5, <2>1 DEF Sent, ExecState
  <2>3. QED BY <1>5, <2>2 DEF Sent, At
<1>6. QED BY <1>1, <1>2, <1>3, <1>4, <1>5 DEF Next

LEMMA HistoryStep ==
  ASSUME HistoryInv, [Next]_vars
  PROVE  HistoryInv' /\ LogsAdvance
<1>1. HubInv /\ HubInv' BY NextInv DEF HistoryInv
<1>2. ASSUME NEW e \in Exec
      PROVE  /\ exec[e] \in ExecState /\ exec'[e] \in ExecState
             /\ ExecOK(exec[e]) /\ CurrentLog(exec[e])
             /\ Moved(exec[e], exec'[e])
  BY <1>1, EveryMove DEF HistoryInv, HubInv, HubTypeOK
<1>3. \A e \in Exec : CurrentLog(exec'[e]) BY <1>2, MoveKeepsLogs
<1>4. LogsAdvance BY <1>2, MoveKeepsLogs DEF LogsAdvance
<1>5. given \subseteq Command /\ ran \subseteq Command
  BY <1>1 DEF HubInv, HubTypeOK
<1>6. ASSUME NEW e \in Exec, NEW k \in 1 .. Steps, <<e, k>> \in given \cup ran
      PROVE  ~Ahead(exec'[e], k)
  BY <1>2, <1>6, MoveKeepsSent DEF HistoryInv, SentBefore
<1>7. CASE given' \subseteq given /\ ran' = ran
  BY <1>1, <1>3, <1>4, <1>6, <1>7 DEF HistoryInv, SentBefore, GivenOnce
<1>8. CASE \E cmd \in given : /\ given' = given \ {cmd}
                             /\ ran' \subseteq ran \cup {cmd}
  BY <1>1, <1>3, <1>4, <1>6, <1>8 DEF HistoryInv, SentBefore, GivenOnce
<1>9. ASSUME NEW f \in Exec, At(f, "sending"), At(f, "await")',
             given' \subseteq given \cup {Cmd(f)}, ran' = ran
      PROVE  SentBefore' /\ GivenOnce'
  <2>1. exec[f].at = "sending" /\ exec'[f].at = "await"
    BY <1>9 DEF At
  <2>2. exec[f].step \in 1 .. Steps BY <1>2 DEF ExecState
  <2>3. ~Ahead(exec'[f], exec[f].step)
    BY <1>2, <2>1, <2>2, MoveKeepsSent
  <2>4. SentBefore' BY <1>6, <1>9, <2>3 DEF SentBefore, Cmd
  <2>5. Ahead(exec[f], exec[f].step) BY <2>1 DEF Ahead
  <2>6. Cmd(f) \notin ran BY <2>2, <2>5 DEF HistoryInv, SentBefore, Cmd
  <2>7. GivenOnce' BY <1>9, <2>6 DEF HistoryInv, GivenOnce
  <2>8. QED BY <2>4, <2>7
<1>10. QED
  BY <1>1, <1>3, <1>4, <1>7, <1>8, <1>9, HandedOver DEF HistoryInv

LEMMA HistoryAtFirst == Init => HistoryInv
<1> SUFFICES ASSUME Init PROVE HistoryInv
  OBVIOUS
<1>1. \A e \in Exec : CurrentLog(exec[e])
  BY HubAssumption DEF Init, CurrentLog
<1>2. QED BY <1>1, InitInv DEF HistoryInv, Init, SentBefore, GivenOnce

(* No step of a workflow is run twice: what the agent has answered with    *)
(* exit code 0 it is never given again.                                    *)
THEOREM NoStepRunsTwice == Spec => []GivenOnce
<1>1. Init => HistoryInv BY HistoryAtFirst
<1>2. HistoryInv /\ [Next]_vars => HistoryInv' BY HistoryStep
<1>3. HistoryInv => GivenOnce BY DEF HistoryInv
<1>4. QED BY <1>1, <1>2, <1>3, PTL DEF Spec

(* The log of a step never goes back: a late answer, a timeout or a        *)
(* disconnect after the result is stored leaves it as it is.               *)
THEOREM LogsOnlyAdvance == Spec => [][LogsAdvance]_vars
<1>1. Init => HistoryInv BY HistoryAtFirst
<1>2. HistoryInv /\ [Next]_vars => HistoryInv' BY HistoryStep
<1>3. HistoryInv /\ [Next]_vars => [LogsAdvance]_vars BY HistoryStep
<1>4. QED BY <1>1, <1>2, <1>3, PTL DEF Spec
=============================================================================
