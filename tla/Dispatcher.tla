----------------------------- MODULE Dispatcher -----------------------------
(***************************************************************************)
(* services/lab_dispatcher.py: LLM calls routed over the providers that    *)
(* host a model.  A call sorts the candidates by affinity and load, then   *)
(* tries them one after the other; each provider serves a limited number   *)
(* of calls at a time and the others wait in line.                         *)
(*                                                                         *)
(* The module has the steps of a call; the module that extends it says who *)
(* begins one (BeginCall), takes its result, and may cancel it (Cut).      *)
(***************************************************************************)
EXTENDS Naturals, Sequences, FiniteSets

CONSTANTS
  Caller,      \* coroutines that can be in a call at the same time
  Name,        \* caller names of a lab, the keys of its affinity
  Provider,
  None,        \* "no affinity recorded", "no call"
  Limit,       \* concurrency of each provider's semaphore
  MaxDepth     \* bound: cancelled waits are no longer enumerated above it

ASSUME DispatcherAssumption ==
  /\ IsFiniteSet(Caller)
  /\ IsFiniteSet(Provider)
  /\ None \notin Provider \cup Name
  /\ Limit \in [Provider -> Nat \ {0}]
  /\ MaxDepth \in Nat

VARIABLES
  call,      \* the call each coroutine is in
  holders,   \* who has a permit of each provider's semaphore
  queue,     \* who waits for one, in order
  depth,     \* _ProviderSlot._waiters, the load the candidates are sorted by
  pinned     \* _caller_affinity of the lab

dispVars == <<call, holders, queue, depth, pinned>>

(***************************************************************************)
(*   none     no call                                                      *)
(*   route    reading the models and the providers                         *)
(*   try      about to acquire the slot of the first of order              *)
(*   wait     in line for it                                               *)
(*   woken    has the permit, not resumed yet                              *)
(*   chat     the provider is generating                                   *)
(*   ok, error   the outcome, until the caller takes it                    *)
(***************************************************************************)
OnSlot == {"wait", "woken", "chat"}
NoCall   == [at |-> "none", by |-> None, order |-> <<>>]
CallState == [at : {"none", "route", "try", "ok", "error"} \cup OnSlot,
              by : Name \cup {None}, order : Seq(Provider)]

DispTypeOK ==
  /\ call \in [Caller -> CallState]
  /\ holders \in [Provider -> SUBSET Caller]
  /\ queue \in [Provider -> Seq(Caller)]
  /\ depth \in [Provider -> Nat]
  /\ pinned \in [Name -> Provider \cup {None}]

DispInit ==
  /\ call = [c \in Caller |-> NoCall]
  /\ holders = [p \in Provider |-> {}]
  /\ queue = [p \in Provider |-> <<>>]
  /\ depth = [p \in Provider |-> 0]
  /\ pinned = [a \in Name |-> None]

-----------------------------------------------------------------------------
(* The order of the candidates *)

(* _sort_with_affinity(): the caller's own provider, then those no other   *)
(* caller of the lab is pinned to, then the others; by load within a tier  *)
Tier(a, p) ==
  CASE pinned[a] = p -> 0
    [] pinned[a] # p /\ \E b \in Name \ {a} : pinned[b] = p -> 2
    [] OTHER -> 1

Precedes(a, p, q) ==
  \/ Tier(a, p) < Tier(a, q)
  \/ Tier(a, p) = Tier(a, q) /\ depth[p] <= depth[q]

Orders(a, candidates) ==
  {o \in [1..Cardinality(candidates) -> candidates] :
     \A i, j \in DOMAIN o : i < j => o[i] # o[j] /\ Precedes(a, o[i], o[j])}

-----------------------------------------------------------------------------
(* asyncio.Semaphore *)

Uses(c, p) == call[c].at \in OnSlot /\ Head(call[c].order) = p
Woken(p)   == {c \in Caller : Uses(c, p) /\ call[c].at = "woken"}

(* locked(): no permit, or somebody is still in line or about to resume *)
Locked(p) ==
  \/ Cardinality(holders[p]) >= Limit[p]
  \/ queue[p] # <<>>
  \/ Woken(p) # {}

(* With holders h and line q, permits go to the first of the line as long  *)
(* as there are any; at most one of them when most is 1.                   *)
Grant(p, h, q, most, calls) ==
  \E k \in 0..Len(q) :
    LET served == {q[i] : i \in 1..k} IN
    /\ k <= most
    /\ k = 0 \/ Cardinality(h \cup served) <= Limit[p]
    /\ (k < Len(q) /\ k < most) => Cardinality(h \cup served) >= Limit[p]
    /\ holders' = [holders EXCEPT ![p] = h \cup served]
    /\ queue' = [queue EXCEPT ![p] = SubSeq(q, k + 1, Len(q))]
    /\ call' = [c \in Caller |->
                  IF c \in served THEN [calls[c] EXCEPT !.at = "woken"]
                  ELSE calls[c]]

Set(c, where) == [call EXCEPT ![c].at = where]

-----------------------------------------------------------------------------
(* One call *)

BeginCall(c, a) ==
  /\ call[c].at = "none"
  /\ call' = [call EXCEPT ![c] = [at |-> "route", by |-> a, order |-> <<>>]]
  /\ UNCHANGED <<holders, queue, depth, pinned>>

(* Which providers are active, approved or still cached is the database's  *)
(* and the slot table's affair: any of them may be candidates.             *)
Route(c) ==
  /\ call[c].at = "route"
  /\ \E candidates \in (SUBSET Provider) \ {{}} :
       \E o \in Orders(call[c].by, candidates) :
         call' = [call EXCEPT ![c].at = "try", ![c].order = o]
  /\ UNCHANGED <<holders, queue, depth, pinned>>

(* no candidate, a media pipeline, or a query that fails *)
RouteFails(c) ==
  /\ call[c].at \in {"route", "try"}
  /\ call' = [call EXCEPT ![c].at = "error", ![c].order = <<>>]
  /\ UNCHANGED <<holders, queue, depth, pinned>>

(* mutated form of Acquire: the waiter is counted once it has the slot *)
AcquireThenCount(c) ==
  LET p == Head(call[c].order) IN
  /\ call[c].at = "try"
  /\ IF Locked(p)
       THEN /\ queue' = [queue EXCEPT ![p] = Append(@, c)]
            /\ call' = Set(c, "wait")
            /\ UNCHANGED <<holders, depth>>
       ELSE /\ holders' = [holders EXCEPT ![p] = @ \cup {c}]
            /\ call' = Set(c, "chat")
            /\ depth' = [depth EXCEPT ![p] = @ + 1]
            /\ UNCHANGED queue
  /\ UNCHANGED pinned

Acquire(c) ==
  LET p == Head(call[c].order) IN
  /\ call[c].at = "try"
  /\ depth' = [depth EXCEPT ![p] = @ + 1]
  /\ IF Locked(p)
       THEN /\ queue' = [queue EXCEPT ![p] = Append(@, c)]
            /\ call' = Set(c, "wait")
            /\ UNCHANGED holders
       ELSE /\ holders' = [holders EXCEPT ![p] = @ \cup {c}]
            /\ call' = Set(c, "chat")
            /\ UNCHANGED queue
  /\ UNCHANGED pinned

(* A waiter resumes; permits that came back meanwhile go to the line. *)
Resume(c) ==
  LET p == Head(call[c].order) IN
  /\ call[c].at = "woken"
  /\ Grant(p, holders[p], queue[p], Len(queue[p]), Set(c, "chat"))
  /\ UNCHANGED <<depth, pinned>>

(* _ProviderSlot.release() *)
Release(p, c, calls) ==
  /\ depth' = [depth EXCEPT ![p] = @ - 1]
  /\ Grant(p, holders[p] \ {c}, queue[p], 1, calls)

Served(c) ==
  LET p == Head(call[c].order) IN
  /\ call[c].at = "chat"
  /\ Release(p, c, [call EXCEPT ![c].at = "ok", ![c].order = <<>>])
  /\ pinned' = [pinned EXCEPT ![call[c].by] = p]

(* mutated form of Failed: the slot is released on success only *)
FailedKeepsSlot(c) ==
  LET rest == Tail(call[c].order) IN
  /\ call[c].at = "chat"
  /\ call' = [call EXCEPT ![c].at = IF rest = <<>> THEN "error" ELSE "try",
                          ![c].order = rest]
  /\ UNCHANGED <<holders, queue, depth, pinned>>

(* The provider raised: its slot is released and the next one is tried. *)
Failed(c) ==
  LET rest == Tail(call[c].order) IN
  /\ call[c].at = "chat"
  /\ Release(Head(call[c].order), c,
             [call EXCEPT ![c].at = IF rest = <<>> THEN "error" ELSE "try",
                          ![c].order = rest])
  /\ UNCHANGED pinned

CallStep(c) ==
  \/ Route(c) \/ RouteFails(c) \/ Acquire(c) \/ Resume(c)
  \/ Served(c) \/ Failed(c)

-----------------------------------------------------------------------------
(* A call is cancelled.  Only a call that is past acquire() is inside the  *)
(* try block whose finally clause releases the slot; the semaphore takes a *)
(* waiter out of the line, and gives on the permit it may have been handed.*)

CutBefore(c) ==
  /\ call[c].at \in {"route", "try"}
  /\ call' = [call EXCEPT ![c] = NoCall]
  /\ UNCHANGED <<holders, queue, depth, pinned>>

(* the line without c, who stands in it once at most *)
Without(q, c) ==
  IF \E i \in DOMAIN q : q[i] = c
    THEN LET i == CHOOSE j \in DOMAIN q : q[j] = c IN
         SubSeq(q, 1, i - 1) \o SubSeq(q, i + 1, Len(q))
    ELSE q

(* mutated form of CutWaiting: a permit it was handed is not passed on *)
CutWaitingForgets(c) ==
  LET p == Head(call[c].order) IN
  /\ call[c].at \in {"wait", "woken"}
  /\ holders' = [holders EXCEPT ![p] = @ \ {c}]
  /\ queue' = [queue EXCEPT ![p] = Without(@, c)]
  /\ call' = [call EXCEPT ![c] = NoCall]
  /\ UNCHANGED <<depth, pinned>>

CutWaiting(c) ==
  LET p == Head(call[c].order)
      line == Without(queue[p], c) IN
  /\ call[c].at \in {"wait", "woken"}
  /\ depth[p] < MaxDepth
  /\ Grant(p, holders[p] \ {c}, line, Len(line),
           [call EXCEPT ![c] = NoCall])
  /\ UNCHANGED <<depth, pinned>>

CutChat(c) ==
  /\ call[c].at = "chat"
  /\ Release(Head(call[c].order), c, [call EXCEPT ![c] = NoCall])
  /\ UNCHANGED pinned

Cut(c) == CutBefore(c) \/ CutWaiting(c) \/ CutChat(c)

-----------------------------------------------------------------------------
(* Properties *)

(* A permit is held by exactly the calls that use the provider, and by no  *)
(* more than it serves at a time: no outcome, failover or cancellation     *)
(* leaks a permit or gives one back twice.                                 *)
PermitsMatch ==
  \A p \in Provider :
    /\ holders[p] = {c \in Caller : Uses(c, p) /\ call[c].at # "wait"}
    /\ Cardinality(holders[p]) <= Limit[p]

(* A provider that has a permit to give makes nobody wait, unless someone  *)
(* it was handed to is about to resume and to hand the rest on.            *)
NobodyForgotten ==
  \A p \in Provider :
    queue[p] # <<>> /\ Woken(p) = {} => Cardinality(holders[p]) = Limit[p]

(* The load the candidates are sorted by counts every call that waits for  *)
(* or uses the provider ("waiting + active"); cancelled waits may make it  *)
(* count more, never less.                                                 *)
DepthCovers ==
  \A p \in Provider : depth[p] >= Cardinality({c \in Caller : Uses(c, p)})

=============================================================================
