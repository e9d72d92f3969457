--------------------------- MODULE SoloLab_proofs ---------------------------
(***************************************************************************)
(* Proofs about SoloLab, for any texts, any window of get_recent() and any *)
(* number of messages, tool calls and parks.                               *)
(***************************************************************************)
EXTENDS SoloLab, FiniteSetTheorems, TLAPS

Rows == DOMAIN feed
Texts == Text \cup {"-"}

(* The states of a runner over a feed with these rows. *)
Place == {"none", "boot", "top", "read", "plan", "call", "stored",
          "synth", "pausing", "parked"}
RunIn(D) ==
  [at : Place, tx : Nat, guarded : SUBSET D, seen : SUBSET D, msgs : SUBSET D,
   queue : SUBSET D, replied : BOOLEAN, seed : SUBSET Texts,
   task : SUBSET D, sent : SUBSET D]
ColdType ==
  [at : {"none", "tx", "spawn"}, kind : {"inject", "user_inject"},
   text : Texts, tx : Nat]

LEMMA TypeIs ==
  SoloTypeOK <=> /\ feed \in Seq(Row) /\ iter \in {0, 1}
                 /\ run \in RunIn(Rows) /\ cold \in ColdType
                 /\ waking \in BOOLEAN /\ answered \subseteq Rows
BY DEF SoloTypeOK, RunIn, Rows, Texts, Place, ColdType

(* The feed only grows. *)
FeedGrows == /\ Rows \subseteq Rows'
             /\ \A i \in Rows : feed'[i] = feed[i]

LEMMA AppendGrows ==
  ASSUME feed \in Seq(Row), NEW text \in Texts, NEW at \in Nat,
         NEW kind \in {"inject", "user_inject", "tool", "result", "synthesis"},
         Append1(kind, text, at)
  PROVE  feed' \in Seq(Row) /\ FeedGrows
<1>1. [kind |-> kind, text |-> text, at |-> at] \in Row BY DEF Row, Texts
<1>2. QED BY <1>1 DEF Append1, FeedGrows, Rows

LEMMA RunGrows ==
  ASSUME FeedGrows, run \in RunIn(Rows)
  PROVE  run \in RunIn(Rows')
BY DEF FeedGrows, RunIn

(* A date is a number. *)
LEMMA BeganIsDate ==
  ASSUME NEW n \in Nat, NEW who \in {"cold", "loop", "live"}
  PROVE  Began(who, n) \in Nat
BY DEF Began

LEMMA LenIsNat == ASSUME feed \in Seq(Row) PROVE Len(feed) \in Nat
OBVIOUS

(* What the operators on the feed return. *)
LEMMA Selections ==
  /\ Injections \subseteq Rows
  /\ UserRows \subseteq Rows
  /\ Recent \subseteq Rows
  /\ NotAfter(Injections, Recent, {"result", "synthesis"}) \subseteq Injections
  /\ SeedRows \subseteq Rows
  /\ Unanswered \subseteq Rows
BY DEF Injections, UserRows, Kind, Recent, NotAfter, SeedRows, Unanswered, Rows

LEMMA TextsAreTexts ==
  ASSUME feed \in Seq(Row), NEW S \in SUBSET Rows
  PROVE  TextsOf(S) \subseteq Texts
<1>1. \A i \in Rows : feed[i] \in Row BY DEF Rows
<1>2. QED BY <1>1 DEF TextsOf, Row, Texts

-----------------------------------------------------------------------------
(* Types *)

LEMMA NoRunType ==
  \A D : /\ NoRun \in RunIn(D)
         /\ [NoRun EXCEPT !.at = "boot"] \in RunIn(D)
BY DEF NoRun, RunIn, Place

LEMMA RunMoves ==
  ASSUME NEW D, NEW r \in RunIn(D), NEW at \in Place
  PROVE  /\ [r EXCEPT !.at = at] \in RunIn(D)
         /\ [r EXCEPT !.at = at, !.tx = 0] \in RunIn(D)
         /\ [r EXCEPT !.at = at, !.task = {}, !.tx = 0, !.replied = TRUE]
              \in RunIn(D)
         /\ \A tx \in Nat : /\ [r EXCEPT !.tx = tx] \in RunIn(D)
                            /\ [r EXCEPT !.at = at, !.tx = tx] \in RunIn(D)
BY DEF RunIn

(* The requests. *)
LEMMA RequestType ==
  ASSUME SoloTypeOK,
         \/ Run \/ Resume \/ InjectWake \/ ColdCommit \/ ColdSpawn
         \/ \E text \in Text :
              \/ InjectLive(text)
              \/ \E kind \in {"inject", "user_inject"} : ColdBegin(kind, text)
  PROVE  SoloTypeOK' /\ FeedGrows
<1>1. /\ feed \in Seq(Row) /\ iter \in {0, 1}
      /\ run \in RunIn(Rows) /\ cold \in ColdType
      /\ waking \in BOOLEAN /\ answered \subseteq Rows
  BY TypeIs
<1>2. feed' \in Seq(Row) /\ FeedGrows
  <2>1. CASE UNCHANGED feed BY <1>1, <2>1 DEF FeedGrows, Rows
  <2>2. CASE ColdCommit
    <3>1. cold.kind \in {"inject", "user_inject"} /\ cold.text \in Texts
          /\ cold.tx \in Nat
      BY <1>1 DEF ColdType
    <3>2. QED BY <1>1, <2>2, <3>1, AppendGrows DEF ColdCommit
  <2>3. ASSUME NEW text \in Text, InjectLive(text)
        PROVE  feed' \in Seq(Row) /\ FeedGrows
    BY <1>1, <2>3, AppendGrows, BeganIsDate, LenIsNat DEF InjectLive, Texts
  <2>4. QED
    BY <2>1, <2>2, <2>3 DEF Run, Resume, InjectWake, ColdSpawn, ColdBegin
<1>3. run \in RunIn(Rows') /\ answered \subseteq Rows'
  BY <1>1, <1>2, RunGrows DEF FeedGrows
<1>4. run' \in RunIn(Rows')
  <2>1. CASE UNCHANGED run BY <1>3, <2>1
  <2>2. CASE StartRunner BY <2>2, NoRunType DEF StartRunner
  <2>3. CASE run' = [run EXCEPT !.at = "stored"]
    BY <1>3, <2>3, RunMoves DEF Place
  <2>4. QED
    BY <2>1, <2>2, <2>3
    DEF Run, Resume, InjectWake, ColdCommit, ColdSpawn, InjectLive, ColdBegin
<1>5. cold' \in ColdType
  <2>1. CASE UNCHANGED cold BY <1>1, <2>1
  <2>2. CASE ColdCommit \/ ColdSpawn
    <3>1. NoCold \in ColdType /\ [NoCold EXCEPT !.at = "spawn"] \in ColdType
      BY DEF NoCold, ColdType, Texts
    <3>2. QED BY <2>2, <3>1 DEF ColdCommit, ColdSpawn
  <2>3. ASSUME NEW text \in Text, NEW kind \in {"inject", "user_inject"},
               ColdBegin(kind, text)
        PROVE  cold' \in ColdType
    BY <1>1, <2>3, BeganIsDate, LenIsNat DEF ColdBegin, ColdType, Texts
  <2>4. QED
    BY <2>1, <2>2, <2>3 DEF Run, Resume, InjectWake, InjectLive
<1>6. iter' = iter /\ answered' = answered /\ waking' \in BOOLEAN
  BY <1>1
  DEF Run, Resume, InjectWake, ColdCommit, ColdSpawn, InjectLive, ColdBegin
<1>7. QED
  BY <1>1, <1>2, <1>3, <1>4, <1>5, <1>6
  DEF SoloTypeOK, RunIn, Rows, Texts, Place, ColdType

(* The loop, and its end. *)
LEMMA LoopType ==
  ASSUME SoloTypeOK, Loop \/ EndLoop \/ Crash
  PROVE  SoloTypeOK' /\ FeedGrows
<1>1. /\ feed \in Seq(Row) /\ iter \in {0, 1}
      /\ run \in RunIn(Rows) /\ cold \in ColdType
      /\ waking \in BOOLEAN /\ answered \subseteq Rows
  BY TypeIs
<1>2. run.tx \in Nat /\ run.sent \subseteq Rows BY <1>1 DEF RunIn
<1>3. feed' \in Seq(Row) /\ FeedGrows
  <2>1. CASE UNCHANGED feed BY <1>1, <2>1 DEF FeedGrows, Rows
  <2>2. CASE Synthesize \/ ToolCall \/ StoreResult
    BY <1>1, <1>2, <2>2, AppendGrows
    DEF Synthesize, ToolCall, StoreResult, Texts
  <2>3. QED
    BY <2>1, <2>2
    DEF Loop, EndLoop, Crash, Boot, Refresh, SeedStep, TaskStep,
        UnansweredStep, FinalStep, Reading, CallAgent, CallFails, Increment,
        Park
<1>4. run \in RunIn(Rows') /\ answered \subseteq Rows'
      /\ run.sent \subseteq Rows'
  BY <1>1, <1>2, <1>3, RunGrows DEF FeedGrows
<1>5. Began("loop", Len(feed)) \in Nat /\ Began("loop", Len(feed) + 1) \in Nat
  <2>1. Len(feed) \in Nat /\ Len(feed) + 1 \in Nat BY <1>1, LenIsNat
  <2>2. QED BY <2>1, BeganIsDate
<1>6. run' \in RunIn(Rows')
  <2>1. CASE EndLoop \/ Crash BY <2>1, NoRunType DEF EndLoop, Crash
  <2>2. CASE Synthesize
    <3>1. [run EXCEPT !.at = "pausing", !.tx = 0] \in RunIn(Rows')
      BY <1>4, RunMoves DEF Place
    <3>2. QED BY <2>2, <3>1, NoRunType DEF Synthesize
  <2>3. CASE ToolCall \/ CallAgent
    <3>1. \A tx \in Nat : /\ [run EXCEPT !.tx = tx] \in RunIn(Rows')
                         /\ [run EXCEPT !.at = "call", !.tx = tx]
                              \in RunIn(Rows')
      BY <1>4, RunMoves DEF Place
    <3>2. QED BY <1>5, <2>3, <3>1 DEF ToolCall, CallAgent
  <2>4. CASE StoreResult \/ CallFails \/ Increment \/ Park
    BY <1>4, <2>4, RunMoves DEF StoreResult, CallFails, Increment, Park, Place
  <2>5. CASE Boot \/ Refresh
    <3>1. Rows' = Rows BY <2>5 DEF Boot, Refresh, Rows
    <3>2. CASE Boot
      BY <1>1, <3>1, <3>2, Selections DEF Boot, RunIn, Place
    <3>3. CASE Refresh
      BY <1>1, <1>5, <3>1, <3>3, Selections DEF Refresh, RunIn, Place
    <3>4. QED BY <2>5, <3>2, <3>3
  <2>6. CASE SeedStep \/ TaskStep \/ UnansweredStep \/ FinalStep
    <3>1. Rows' = Rows
      BY <2>6 DEF SeedStep, TaskStep, UnansweredStep, FinalStep, Reading, Rows
    <3>2. Queue \subseteq Rows /\ Pending(Queue) \subseteq Rows
      BY <1>1, Selections DEF Queue, Pending, RunIn
    <3>3. ASSUME NEW r \in RunIn(Rows), NEW task \in SUBSET Rows,
                 Decide(r, task)
          PROVE  run' \in RunIn(Rows)
      BY <3>3, Selections DEF Decide, RunIn, Place
    <3>4. CASE SeedStep
      <4>1. TextsOf(SeedRows) \cup AnsweredTexts \subseteq Texts
        <5>1. NotAfter(run.msgs \cap UserRows, run.msgs, {"result"})
                \subseteq Rows
          BY Selections DEF NotAfter
        <5>2. QED BY <1>1, <5>1, Selections, TextsAreTexts DEF AnsweredTexts
      <4>2. [run EXCEPT !.queue = Queue,
                        !.seed = TextsOf(SeedRows) \cup AnsweredTexts]
              \in RunIn(Rows)
        BY <1>1, <3>2, <4>1 DEF RunIn
      <4>3. QED BY <3>1, <3>3, <3>4, <4>2, Selections DEF SeedStep
    <3>5. CASE TaskStep \/ UnansweredStep
      <4>1. [run EXCEPT !.queue = {}] \in RunIn(Rows) BY <1>1 DEF RunIn
      <4>2. CASE TaskStep
        BY <3>1, <3>2, <3>3, <4>1, <4>2 DEF TaskStep
      <4>3. CASE UnansweredStep
        BY <3>1, <3>3, <4>1, <4>3, Selections DEF UnansweredStep
      <4>4. QED BY <3>5, <4>2, <4>3
    <3>6. CASE FinalStep
      BY <1>1, <3>1, <3>6, Selections DEF FinalStep, RunIn, Place
    <3>7. QED BY <2>6, <3>4, <3>5, <3>6
  <2>7. QED BY <2>1, <2>2, <2>3, <2>4, <2>5, <2>6 DEF Loop
<1>7. answered' \subseteq Rows'
  BY <1>4
  DEF Loop, EndLoop, Crash, Boot, Refresh, SeedStep, TaskStep, UnansweredStep,
      FinalStep, Reading, Synthesize, CallAgent, ToolCall, StoreResult,
      CallFails, Increment, Park
<1>8. cold' \in ColdType /\ waking' \in BOOLEAN /\ iter' \in {0, 1}
  <2>1. NoCold \in ColdType BY DEF NoCold, ColdType, Texts
  <2>2. QED
    BY <1>1, <2>1
    DEF Loop, EndLoop, Crash, Boot, Refresh, SeedStep, TaskStep,
        UnansweredStep, FinalStep, Reading, Synthesize, CallAgent, ToolCall,
        StoreResult, CallFails, Increment, Park
<1>9. QED
  BY <1>3, <1>6, <1>7, <1>8
  DEF SoloTypeOK, RunIn, Rows, Texts, Place, ColdType
-----------------------------------------------------------------------------
(* The inductive invariant *)

(* An injection that was given to the agent has been read. *)
SentSeen == run.sent \cap Injections \subseteq run.seen

(* What is queued and was given to the agent nevertheless, was in the seed. *)
QueueOld == \A i \in run.queue \cap run.sent : feed[i].text \in run.seed

(* Nothing that was read is lost. *)
Covered ==
  \A i \in run.seen :
    i \in run.guarded \cup run.sent \cup run.queue \/ feed[i].text \in run.seed

(* The seed is the first thing that a runner gives the agent, *)
FirstTurn ==
  iter = 0 /\ run.at \in {"boot", "top", "read"} =>
    run.sent = {} /\ run.seed = {}

(* and a runner without a response has given it nothing else. *)
NoReply == ~run.replied /\ run.at \notin {"plan", "call"} => run.sent = {}

(* A runner that has just been started has done nothing. *)
AtBoot == run.at = "boot" => run = [NoRun EXCEPT !.at = "boot"]

Books == SentSeen /\ QueueOld /\ Covered
Turns == FirstTurn /\ NoReply /\ AtBoot
SoloInv == SoloTypeOK /\ Books /\ Turns

(* What the rows of old say stays so while the feed grows. *)
LEMMA OldRows ==
  ASSUME FeedGrows
  PROVE  /\ Injections' \cap Rows = Injections
         /\ Injections \subseteq Injections'
         /\ \A i \in Rows : feed'[i].text = feed[i].text
BY DEF FeedGrows, Injections, Kind, Rows

(* A runner that is not there, or has just been started. *)
LEMMA NoRunBooks ==
  ASSUME \/ run' = NoRun
         \/ run' = [NoRun EXCEPT !.at = "boot"]
  PROVE  Books' /\ Turns'
<1>1. run'.sent = {} /\ run'.seed = {} /\ run'.seen = {} /\ run'.queue = {}
  BY DEF NoRun
<1>2. AtBoot' BY DEF AtBoot, NoRun
<1>3. QED
  BY <1>1, <1>2
  DEF Books, SentSeen, QueueOld, Covered, Turns, FirstTurn, NoReply

(* The books do not change. *)
SameBooks ==
  /\ run'.guarded = run.guarded /\ run'.seen = run.seen
  /\ run'.queue = run.queue /\ run'.seed = run.seed /\ run'.sent = run.sent

LEMMA BooksKept ==
  ASSUME run \in RunIn(Rows), Books, FeedGrows, SameBooks
  PROVE  Books'
<1>1. run.sent \subseteq Rows /\ run.queue \subseteq Rows
      /\ run.seen \subseteq Rows
  BY DEF RunIn
<1>2. SentSeen'
  BY <1>1, OldRows DEF Books, SameBooks, SentSeen
<1>3. QueueOld'
  BY <1>1, OldRows DEF Books, SameBooks, QueueOld
<1>4. Covered'
  BY <1>1, OldRows DEF Books, SameBooks, Covered
<1>5. QED BY <1>2, <1>3, <1>4 DEF Books

(* The four ways to go on with what was read: what each gives the agent is *)
(* new to it, and what it leaves aside is accounted for.                   *)
LEMMA QueueRows ==
  ASSUME run \in RunIn(Rows)
  PROVE  /\ run.sent \subseteq Rows /\ run.seen \subseteq Rows
         /\ Queue \subseteq Rows
         /\ Injections \subseteq run.seen \cup Queue
         /\ run.queue \subseteq Queue
BY Selections DEF RunIn, Queue

LEMMA PendingIsFresh ==
  ASSUME run \in RunIn(Rows), SentSeen, QueueOld
  PROVE  Pending(Queue) \cap run.sent = {}
BY DEF Pending, Queue, SentSeen, QueueOld

LEMMA CoveredByQueue ==
  ASSUME run \in RunIn(Rows), Covered, NEW i \in run.seen \cup Injections
  PROVE  i \in run.guarded \cup run.sent \cup Queue \/ feed[i].text \in run.seed
BY DEF Covered, Queue

LEMMA SeedKeeps ==
  ASSUME run \in RunIn(Rows), Books, FirstTurn, SeedStep
  PROVE  /\ Books' /\ Turns'
         /\ run'.task = SeedRows /\ run.sent = {}
         /\ SeedRows = {} =>
              \A i \in Injections : feed[i].text \in run'.seed
<1>1. run.sent = {} /\ run.seed = {}
  BY DEF SeedStep, Reading, FirstTurn
<1>2. /\ run'.guarded = run.guarded
      /\ run'.seen = run.seen \cup Injections
      /\ run'.queue = Queue
      /\ run'.seed = TextsOf(SeedRows) \cup AnsweredTexts
      /\ run'.task = SeedRows
      /\ run'.sent = SeedRows
      /\ run'.at \in {"pausing", "plan"}
      /\ SeedRows # {} => run'.at = "plan"
      /\ UNCHANGED <<feed, iter>>
  BY <1>1 DEF SeedStep, Reading, Decide, RunIn
<1>3. Injections' = Injections BY <1>2 DEF Injections, Kind
<1>4. SentSeen' BY <1>2, <1>3 DEF SentSeen
<1>5. QueueOld' BY <1>2 DEF QueueOld, TextsOf
<1>6. Covered'
  <2>1. \A i \in run.seen \cup Injections : i \in run.guarded \cup Queue
    BY <1>1, CoveredByQueue DEF Books
  <2>2. QED BY <1>2, <2>1 DEF Covered
<1>7. Turns' BY <1>2 DEF Turns, FirstTurn, NoReply, AtBoot
<1>8. ASSUME SeedRows = {}, NEW i \in Injections
      PROVE  feed[i].text \in AnsweredTexts
  <2>1. After(run.msgs, {"result"}) \cap UserRows = {}
    BY <1>8 DEF SeedRows
  <2>2. feed[i].text \in TextsOf({}) \cup AnsweredTexts
    BY <1>8, <2>1 DEF SeedRows
  <2>3. QED BY <2>2 DEF TextsOf
<1>9. QED BY <1>1, <1>2, <1>4, <1>5, <1>6, <1>7, <1>8 DEF Books

LEMMA TaskKeeps ==
  ASSUME run \in RunIn(Rows), Books, TaskStep
  PROVE  /\ Books' /\ Turns'
         /\ run'.task = Pending(Queue) /\ run'.at = "plan"
<1>1. /\ run'.guarded = run.guarded
      /\ run'.seen = run.seen \cup Injections
      /\ run'.queue = {}
      /\ run'.seed = run.seed
      /\ run'.task = Pending(Queue)
      /\ run'.sent = run.sent \cup Pending(Queue)
      /\ run'.at = "plan"
      /\ UNCHANGED <<feed, iter>>
  BY DEF TaskStep, Reading, Decide, RunIn
<1>2. Injections' = Injections BY <1>1 DEF Injections, Kind
<1>3. SentSeen'
  BY <1>1, <1>2 DEF SentSeen
<1>4. QueueOld' BY <1>1 DEF QueueOld
<1>5. Covered'
  <2>1. \A i \in Queue : i \in Pending(Queue) \/ feed[i].text \in run.seed
    BY DEF Pending
  <2>2. QED BY <1>1, <2>1, CoveredByQueue DEF Covered, Books
<1>6. QED
  BY <1>1, <1>3, <1>4, <1>5 DEF Books, Turns, FirstTurn, NoReply, AtBoot

(* Nothing is pending. *)
LEMMA IdleKeeps ==
  ASSUME run \in RunIn(Rows), Books, NoReply, UnansweredStep \/ FinalStep
  PROVE  /\ Books' /\ Turns'
         /\ run'.at = "plan" => run.sent = {}
         /\ \A i \in Injections \ (run.guarded \cup run.sent) :
              feed[i].text \in run'.seed
<1>1. \A i \in Queue : feed[i].text \in run.seed
  BY DEF UnansweredStep, FinalStep, Pending
<1>2. \A i \in run.seen \cup Injections :
        i \in run.guarded \cup run.sent \/ feed[i].text \in run.seed
  BY <1>1, CoveredByQueue DEF Books
<1>3. /\ run'.guarded = run.guarded
      /\ run'.seen = run.seen \cup Injections
      /\ run'.queue = {}
      /\ run'.seed = run.seed
      /\ run'.replied = run.replied
      /\ run.sent \subseteq run'.sent
      /\ UNCHANGED <<feed, iter>>
  <2>1. CASE UnansweredStep BY <2>1 DEF UnansweredStep, Reading, Decide, RunIn
  <2>2. CASE FinalStep BY <2>2 DEF FinalStep, Reading, RunIn
  <2>3. QED BY <2>1, <2>2
<1>4. Injections' = Injections BY <1>3 DEF Injections, Kind
<1>5. QueueOld' /\ Covered'
  BY <1>2, <1>3 DEF QueueOld, Covered
<1>6. CASE UnansweredStep
  <2>1. run.sent = {} BY <1>6 DEF UnansweredStep, Reading, NoReply
  <2>2. /\ run'.sent = Unanswered
        /\ run'.at = IF Unanswered = {} THEN "pausing" ELSE "plan"
    BY <1>6, <2>1 DEF UnansweredStep, Decide, RunIn
  <2>3. SentSeen' BY <1>3, <1>4, <2>2 DEF SentSeen
  <2>4. Turns' BY <2>2 DEF Turns, FirstTurn, NoReply, AtBoot
  <2>5. QED BY <1>2, <1>3, <1>5, <2>1, <2>3, <2>4 DEF Books
<1>7. CASE FinalStep
  <2>1. run'.sent = run.sent /\ run'.at = "synth" /\ run.replied
    BY <1>7 DEF FinalStep, RunIn
  <2>2. SentSeen' BY <1>3, <1>4, <2>1 DEF SentSeen
  <2>3. Turns' BY <1>3, <2>1 DEF Turns, FirstTurn, NoReply, AtBoot
  <2>4. QED BY <1>2, <1>3, <1>5, <2>1, <2>2, <2>3 DEF Books
<1>8. QED BY <1>6, <1>7

-----------------------------------------------------------------------------
(* The theorems *)

(* The steps that leave the books alone, those of the requests first. *)
LEMMA RequestKeeps ==
  ASSUME SoloInv,
         \/ Run \/ Resume \/ InjectWake \/ ColdCommit \/ ColdSpawn
         \/ \E text \in Text :
              \/ InjectLive(text)
              \/ \E kind \in {"inject", "user_inject"} : ColdBegin(kind, text)
  PROVE  SoloInv'
<1>1. SoloTypeOK' /\ FeedGrows BY RequestType DEF SoloInv
<1>2. run \in RunIn(Rows) BY TypeIs DEF SoloInv
<1>3. CASE StartRunner
  BY <1>1, <1>3, NoRunBooks DEF StartRunner, SoloInv
<1>4. CASE UNCHANGED <<run, iter>>
  <2>1. SameBooks BY <1>4 DEF SameBooks
  <2>2. Books' BY <1>1, <1>2, <2>1, BooksKept DEF SoloInv
  <2>3. Turns'
    BY <1>4 DEF SoloInv, Turns, FirstTurn, NoReply, AtBoot
  <2>4. QED BY <1>1, <2>2, <2>3 DEF SoloInv
<1>5. CASE /\ run.at = "parked" /\ run' = [run EXCEPT !.at = "stored"]
  <2>1. SameBooks /\ run'.replied = run.replied /\ run'.at = "stored"
    BY <1>2, <1>5 DEF SameBooks, RunIn
  <2>2. Books' BY <1>1, <1>2, <2>1, BooksKept DEF SoloInv
  <2>3. Turns'
    BY <1>5, <2>1
    DEF SoloInv, Turns, FirstTurn, NoReply, AtBoot, SameBooks
  <2>4. QED BY <1>1, <2>2, <2>3 DEF SoloInv
<1>6. QED
  BY <1>3, <1>4, <1>5
  DEF Run, Resume, InjectWake, ColdCommit, ColdSpawn, InjectLive, ColdBegin

(* A step of the runner that keeps the books, from one place to the next. *)
LEMMA RunnerKeeps ==
  ASSUME SoloInv,
         \/ Refresh \/ CallAgent \/ ToolCall \/ StoreResult \/ CallFails
         \/ Increment \/ Park
         \/ Synthesize /\ run' # NoRun
  PROVE  SoloInv'
<1>1. SoloTypeOK' /\ FeedGrows BY LoopType DEF SoloInv, Loop
<1>2. run \in RunIn(Rows) BY TypeIs DEF SoloInv
<1>3. /\ SameBooks
      /\ \/ run.at = "top" /\ run'.at = "read" /\ run'.replied = run.replied
            /\ iter' = iter
         \/ run.at \in {"plan", "call"} /\ run'.at = "call"
         \/ run.at = "call" /\ run'.at = "stored" /\ run'.replied
         \/ run.at = "stored" /\ run'.at = "top" /\ run'.replied = run.replied
            /\ iter' = 1
         \/ run.at = "pausing" /\ run'.at = "parked"
            /\ run'.replied = run.replied
         \/ run.at = "synth" /\ run'.at = "pausing"
            /\ run'.replied = run.replied
  <2>1. CASE Refresh BY <1>2, <2>1 DEF Refresh, RunIn, SameBooks
  <2>2. CASE CallAgent BY <1>2, <2>2 DEF CallAgent, RunIn, SameBooks
  <2>3. CASE ToolCall BY <1>2, <2>3 DEF ToolCall, RunIn, SameBooks
  <2>4. CASE StoreResult BY <1>2, <2>4 DEF StoreResult, RunIn, SameBooks
  <2>5. CASE CallFails BY <1>2, <2>5 DEF CallFails, RunIn, SameBooks
  <2>6. CASE Increment BY <1>2, <2>6 DEF Increment, RunIn, SameBooks
  <2>7. CASE Park BY <1>2, <2>7 DEF Park, RunIn, SameBooks
  <2>8. CASE Synthesize /\ run' # NoRun
    <3>1. run.at = "synth" /\ run' = [run EXCEPT !.at = "pausing", !.tx = 0]
      BY <2>8 DEF Synthesize
    <3>2. QED BY <1>2, <3>1 DEF RunIn, SameBooks
  <2>9. QED BY <2>1, <2>2, <2>3, <2>4, <2>5, <2>6, <2>7, <2>8
<1>4. Books' BY <1>1, <1>2, <1>3, BooksKept DEF SoloInv
<1>5. FirstTurn' BY <1>3 DEF SoloInv, Turns, FirstTurn, SameBooks
<1>6. NoReply' BY <1>3 DEF SoloInv, Turns, NoReply, SameBooks
<1>7. AtBoot' BY <1>3 DEF AtBoot
<1>8. QED BY <1>1, <1>4, <1>5, <1>6, <1>7 DEF SoloInv, Turns

LEMMA BootKeeps ==
  ASSUME SoloInv, Boot
  PROVE  SoloInv'
<1>1. SoloTypeOK' /\ FeedGrows BY LoopType DEF SoloInv, Loop
<1>2. run.sent = {} /\ run.seed = {} /\ run.queue = {}
  BY DEF SoloInv, Turns, AtBoot, NoRun, Boot
<1>3. /\ run'.seen = run'.guarded
      /\ run'.queue = {} /\ run'.seed = {} /\ run'.sent = {}
      /\ run'.at = "top"
  <2>1. run \in RunIn(Rows) BY TypeIs DEF SoloInv
  <2>2. QED BY <1>2, <2>1 DEF Boot, RunIn
<1>4. QED
  BY <1>1, <1>3
  DEF SoloInv, Books, SentSeen, QueueOld, Covered, Turns, FirstTurn, NoReply,
      AtBoot

(* Every step keeps the invariant. *)
LEMMA StepKeeps ==
  ASSUME SoloInv, [Next]_vars
  PROVE  SoloInv'
<1>1. run \in RunIn(Rows) BY TypeIs DEF SoloInv
<1>2. CASE UNCHANGED vars
  <2>1. UNCHANGED <<feed, iter, run, cold, waking, answered>>
    BY <1>2 DEF vars
  <2>2. SoloTypeOK' BY <2>1 DEF SoloInv, SoloTypeOK
  <2>3. Books'
    BY <2>1 DEF SoloInv, Books, SentSeen, QueueOld, Covered, Injections, Kind
  <2>4. Turns' BY <2>1 DEF SoloInv, Turns, FirstTurn, NoReply, AtBoot
  <2>5. QED BY <2>2, <2>3, <2>4 DEF SoloInv
<1>3. CASE EndLoop \/ Crash \/ (Synthesize /\ run' = NoRun)
  <2>1. run' = NoRun BY <1>3 DEF EndLoop, Crash
  <2>2. SoloTypeOK' BY <1>3, LoopType DEF SoloInv, Loop
  <2>3. QED BY <2>1, <2>2, NoRunBooks DEF SoloInv
<1>4. CASE SeedStep \/ TaskStep \/ UnansweredStep \/ FinalStep
  <2>1. SoloTypeOK' BY <1>4, LoopType DEF SoloInv, Loop
  <2>2. Books' /\ Turns'
    <3>1. CASE SeedStep BY <1>1, <3>1, SeedKeeps DEF SoloInv, Turns
    <3>2. CASE TaskStep BY <1>1, <3>2, TaskKeeps DEF SoloInv
    <3>3. CASE UnansweredStep \/ FinalStep
      BY <1>1, <3>3, IdleKeeps DEF SoloInv, Turns
    <3>4. QED BY <1>4, <3>1, <3>2, <3>3
  <2>3. QED BY <2>1, <2>2 DEF SoloInv
<1>5. QED
  BY <1>2, <1>3, <1>4, RequestKeeps, RunnerKeeps, BootKeeps DEF Next, Loop

LEMMA Reads ==
  ASSUME SoloInv, [Next]_vars, run.at = "read",
         run'.at \in {"plan", "synth", "pausing"}
  PROVE  SeedStep \/ TaskStep \/ UnansweredStep \/ FinalStep
<1>1. run' # run /\ run' # NoRun BY DEF NoRun
<1>2. \/ Resume \/ InjectWake \/ ColdSpawn \/ Boot \/ Refresh
      \/ Synthesize \/ CallAgent \/ ToolCall \/ StoreResult \/ CallFails
      \/ Increment \/ Park \/ EndLoop \/ Crash \/ Run
      \/ SeedStep \/ TaskStep \/ UnansweredStep \/ FinalStep
  BY <1>1 DEF Next, Loop, vars, ColdCommit, InjectLive, ColdBegin
<1>3. QED
  BY <1>1, <1>2
  DEF Resume, InjectWake, ColdSpawn, Boot, Refresh, Synthesize, CallAgent,
      ToolCall, StoreResult, CallFails, Increment, Park, EndLoop, Crash, Run,
      StartRunner

(* The inductive invariant: what was read, queued, seeded and given to the *)
(* agent agree in every reachable state.                                   *)
THEOREM SoloInvariant == Spec => []SoloInv
<1>1. Init => SoloInv
  <2>1. SUFFICES ASSUME Init PROVE SoloInv OBVIOUS
  <2>2. SoloTypeOK
    <3>1. run \in RunIn(Rows) BY <2>1, NoRunType DEF Init
    <3>2. cold \in ColdType
      BY <2>1 DEF Init, NoCold, ColdType, Texts
    <3>3. /\ feed \in Seq(Row) /\ iter \in {0, 1}
          /\ waking \in BOOLEAN /\ answered \subseteq Rows
      <4>1. \A S : <<>> \in Seq(S) OBVIOUS
      <4>2. feed = <<>> /\ iter = 0 /\ waking = FALSE /\ answered = {}
        BY <2>1 DEF Init
      <4>3. QED BY <4>1, <4>2
    <3>4. QED BY <3>1, <3>2, <3>3, TypeIs
  <2>3. Books /\ Turns
    BY <2>1
    DEF Init, NoRun, Books, SentSeen, QueueOld, Covered, Turns, FirstTurn,
        NoReply, AtBoot
  <2>4. QED BY <2>2, <2>3 DEF SoloInv
<1>2. SoloInv /\ [Next]_vars => SoloInv' BY StepKeeps
<1>3. QED BY <1>1, <1>2, PTL DEF Spec

(* The variables of the feed, the runner and the requests have their types *)
(* whatever the user and the agent do.                                     *)
THEOREM SoloTypeCorrect == Spec => []SoloTypeOK
<1>1. SoloInv => SoloTypeOK BY DEF SoloInv
<1>2. QED BY <1>1, SoloInvariant, PTL

(* solo_agent.py:66-73: a runner gives the agent each message once.        *)
THEOREM DispatchesOnce == Spec => DispatchedOnce
<1>1. SoloInv /\ [Next]_vars => [TaskIsFresh(run.sent)]_vars
  <2>1. SUFFICES ASSUME SoloInv, [Next]_vars,
                        run.at = "read", run'.at = "plan"
                 PROVE  run'.task \cap run.sent = {}
    BY DEF TaskIsFresh
  <2>2. run \in RunIn(Rows) BY <2>1, TypeIs DEF SoloInv
  <2>3. CASE SeedStep
    BY <2>1, <2>2, <2>3, SeedKeeps DEF SoloInv, Turns
  <2>4. CASE TaskStep
    BY <2>1, <2>2, <2>4, TaskKeeps, PendingIsFresh DEF SoloInv, Books
  <2>5. CASE UnansweredStep \/ FinalStep
    BY <2>1, <2>2, <2>5, IdleKeeps DEF SoloInv, Turns
  <2>6. QED BY <2>1, <2>3, <2>4, <2>5, Reads
<1>2. QED BY <1>1, SoloInvariant, PTL DEF Spec, DispatchedOnce

(* solo_agent.py:74-90: the strategy ends its work, with a final answer or *)
(* parked, only when no injection is left out.                             *)
THEOREM LeavesNothing == Spec => NothingLeft
<1>1. ASSUME SoloInv, [Next]_vars,
             run.at = "read", run'.at \in {"synth", "pausing"},
             NEW i \in Injections \ (run.guarded \cup run.sent)
      PROVE  feed[i].text \in run'.seed
  <2>1. run \in RunIn(Rows) BY <1>1, TypeIs DEF SoloInv
  <2>2. CASE SeedStep
    <3>1. SeedRows = {}
      BY <1>1, <2>1, <2>2 DEF SeedStep, Reading, Decide, RunIn
    <3>2. QED BY <1>1, <2>1, <2>2, <3>1, SeedKeeps DEF SoloInv, Turns
  <2>3. CASE TaskStep
    BY <1>1, <2>1, <2>3, TaskKeeps DEF SoloInv
  <2>4. CASE UnansweredStep \/ FinalStep
    BY <1>1, <2>1, <2>4, IdleKeeps DEF SoloInv, Turns
  <2>5. QED BY <1>1, <2>2, <2>3, <2>4, Reads
<1>2. SoloInv /\ [Next]_vars =>
        [run.at = "read" /\ run'.at \in {"synth", "pausing"} =>
           \A i \in Injections \ (run.guarded \cup run.sent) :
             feed[i].text \in run'.seed]_vars
  BY <1>1
<1>3. QED BY <1>2, SoloInvariant, PTL DEF Spec, NothingLeft
-----------------------------------------------------------------------------
(***************************************************************************)
(* NeverRedone, across runners.  It depends on what get_recent() returns,  *)
(* so it is proved under a hypothesis on the window (WindowSees), which a  *)
(* feed of at most Window rows satisfies.                                  *)
(*                                                                         *)
(* A runner knows what earlier ones did only by dates: a row is answered   *)
(* if a result or a synthesis is dated after it.  The invariant says that  *)
(* this is sound, although a row's date is not that of its commit: what a  *)
(* turn was given is dated before the transaction that records the turn.   *)
(***************************************************************************)
Answers == {"result", "synthesis"}

(* The recent rows hold an answer as new as any, and before the counter is *)
(* first incremented every injection (the seed reads them all).            *)
WindowSees ==
  /\ \A j \in Kind(Answers) :
       \E k \in Recent \cap Kind(Answers) : feed[j].at <= feed[k].at
  /\ iter = 0 => Injections \subseteq Recent

(* A row is dated before the next one is committed, and a transaction is   *)
(* not dated after what is committed while it is open.                     *)
RowsDated == \A i \in Rows : feed[i].at < 3 * i
OpenDated ==
  /\ cold.at = "tx" => cold.tx <= 3 * Len(feed)
  /\ run.tx <= 3 * Len(feed) + 1

(* What a turn was given is dated before the transaction that records it.  *)
InTurn == {"read", "call", "synth"}
SentDated == run.at \in InTurn => \A i \in run.sent : feed[i].at <= run.tx

(* Each answered row has an answer dated after it. *)
Recorded ==
  \A i \in answered : \E j \in Kind(Answers) : feed[i].at <= feed[j].at

(* No final answer is given before the counter is first incremented. *)
NoFinalYet == iter = 0 => run.at # "synth" /\ Kind({"synthesis"}) = {}

(* Once the guard is up, an answered injection is guarded or was given to  *)
(* the agent by this runner; and nothing guarded is queued.                *)
Known ==
  /\ run.at \notin {"none", "boot"} =>
       answered \cap Injections \subseteq run.guarded \cup run.sent
  /\ run.guarded \subseteq run.seen
  /\ run.queue \subseteq Injections \ run.guarded

(* What was read for this iteration tells which rows are answered. *)
ReadAll ==
  run.at = "read" =>
    /\ \A i \in answered :
         \E j \in run.msgs \cap Kind(Answers) : feed[i].at <= feed[j].at
    /\ iter = 0 => answered \cap Injections \subseteq run.msgs

Dates == RowsDated /\ OpenDated /\ SentDated
Memory == Recorded /\ NoFinalYet /\ Known /\ ReadAll
RedoInv == Dates /\ Memory

LEMMA RowTypes ==
  ASSUME SoloTypeOK
  PROVE  \A i \in Rows : feed[i].at \in Nat
<1>1. feed \in Seq(Row) BY TypeIs
<1>2. \A i \in Rows : feed[i] \in Row BY <1>1 DEF Rows
<1>3. QED BY <1>2 DEF Row

LEMMA AppendedRow ==
  ASSUME feed \in Seq(Row), NEW kind, NEW text, NEW at,
         Append1(kind, text, at)
  PROVE  /\ Len(feed) \in Nat
         /\ Len(feed') = Len(feed) + 1
         /\ Rows' = Rows \cup {Len(feed) + 1}
         /\ feed'[Len(feed) + 1] = [kind |-> kind, text |-> text, at |-> at]
         /\ \A i \in Rows : feed'[i] = feed[i]
BY DEF Append1, Rows

(* What a step can do to the feed and to the history: nothing, or append a *)
(* row dated by the transaction that commits it, and record the turn if it *)
(* is a result or a synthesis.                                             *)
RowBy(kind, at) ==
  \/ kind \in {"inject", "user_inject"} /\ at = Began("live", Len(feed))
  \/ kind \in {"inject", "user_inject"} /\ cold.at = "tx" /\ at = cold.tx
  \/ kind = "tool" /\ at = run.tx
RecordBy(kind, at) ==
  /\ at = run.tx
  /\ answered' = answered \cup run.sent
  /\ iter' = iter
  /\ run'.at # "read"
  /\ \/ kind = "result" /\ run.at = "call"
     \/ kind = "synthesis" /\ run.at = "synth"

LEMMA FeedSteps ==
  ASSUME SoloInv, [Next]_vars
  PROVE  \/ UNCHANGED <<feed, answered>>
         \/ \E kind, text, at :
              /\ Append1(kind, text, at)
              /\ \/ RowBy(kind, at) /\ UNCHANGED answered
                 \/ RecordBy(kind, at)
<1>1. run \in RunIn(Rows) /\ cold \in ColdType BY TypeIs DEF SoloInv
<1>2. CASE UNCHANGED vars BY <1>2 DEF vars
<1>3. CASE \/ Run \/ Resume \/ InjectWake \/ ColdSpawn
           \/ Boot \/ Refresh \/ SeedStep \/ TaskStep \/ UnansweredStep
           \/ FinalStep \/ CallAgent \/ CallFails \/ Increment \/ Park
           \/ EndLoop \/ Crash
  BY <1>3
  DEF Run, Resume, InjectWake, ColdSpawn, Boot, Refresh, SeedStep, TaskStep,
      UnansweredStep, FinalStep, Reading, CallAgent, CallFails, Increment,
      Park, EndLoop, Crash
<1>4. ASSUME NEW text \in Text, NEW kind \in {"inject", "user_inject"},
             ColdBegin(kind, text)
      PROVE  UNCHANGED <<feed, answered>>
  BY <1>4 DEF ColdBegin
<1>5. ASSUME NEW text \in Text, InjectLive(text)
      PROVE  \E at : /\ Append1("inject", text, at)
                     /\ RowBy("inject", at) /\ UNCHANGED answered
  BY <1>5 DEF InjectLive, RowBy
<1>6. CASE ColdCommit
  <2>1. cold.kind \in {"inject", "user_inject"} BY <1>1 DEF ColdType
  <2>2. QED BY <1>6, <2>1 DEF ColdCommit, RowBy
<1>7. CASE ToolCall BY <1>7 DEF ToolCall, RowBy
<1>8. CASE StoreResult
  <2>1. run'.at = "stored" BY <1>1, <1>8 DEF StoreResult, RunIn
  <2>2. QED BY <1>8, <2>1 DEF StoreResult, RecordBy
<1>9. CASE Synthesize
  <2>1. run'.at \in {"none", "pausing"}
    <3>1. CASE run' = NoRun BY <3>1 DEF NoRun
    <3>2. CASE run' = [run EXCEPT !.at = "pausing", !.tx = 0]
      BY <1>1, <3>2 DEF RunIn
    <3>3. QED BY <1>9, <3>1, <3>2 DEF Synthesize
  <2>2. QED BY <1>9, <2>1 DEF Synthesize, RecordBy
<1>10. QED
  BY <1>2, <1>3, <1>4, <1>5, <1>6, <1>7, <1>8, <1>9 DEF Next, Loop

(* What a step can do to the runner's transaction: end it, leave it open,  *)
(* or begin one after all rows.                                            *)
LEMMA RunSteps ==
  ASSUME SoloInv, [Next]_vars
  PROVE  \/ /\ run'.tx \in {0, run.tx}
            /\ run'.at \in InTurn =>
                 run.at \in InTurn /\ run'.tx = run.tx /\ run'.sent = run.sent
         \/ run'.tx = Began("loop", Len(feed')) /\ run'.sent = run.sent
<1> USE DEF InTurn
<1>1. run \in RunIn(Rows) /\ feed \in Seq(Row) BY TypeIs DEF SoloInv
<1>2. CASE UNCHANGED run BY <1>2
<1>3. CASE run' = NoRun \/ run' = [NoRun EXCEPT !.at = "boot"]
  BY <1>3 DEF NoRun
<1>4. CASE Refresh \/ CallAgent
  <2>1. /\ feed' = feed
        /\ run'.tx = Began("loop", Len(feed)) /\ run'.sent = run.sent
    <3>1. CASE Refresh BY <1>1, <3>1 DEF Refresh, RunIn
    <3>2. CASE CallAgent BY <1>1, <3>2 DEF CallAgent, RunIn
    <3>3. QED BY <1>4, <3>1, <3>2
  <2>2. QED BY <2>1
<1>5. CASE ToolCall
  <2>1. Len(feed') = Len(feed) + 1 BY <1>1, <1>5, AppendedRow DEF ToolCall
  <2>2. QED BY <1>1, <1>5, <2>1 DEF ToolCall, RunIn
<1>6. CASE Boot \/ Increment \/ Park \/ run' = [run EXCEPT !.at = "stored"]
  BY <1>1, <1>6 DEF Boot, Increment, Park, RunIn
<1>7. CASE StoreResult \/ CallFails
  BY <1>1, <1>7 DEF StoreResult, CallFails, RunIn
<1>8. CASE run' = [run EXCEPT !.at = "pausing", !.tx = 0]
  BY <1>1, <1>8 DEF RunIn
<1>9. CASE SeedStep \/ TaskStep \/ UnansweredStep
  <2>1. run'.tx = 0 /\ run'.at \in {"pausing", "plan"}
    BY <1>1, <1>9 DEF SeedStep, TaskStep, UnansweredStep, Decide, RunIn
  <2>2. QED BY <2>1
<1>10. CASE FinalStep BY <1>1, <1>10 DEF FinalStep, Reading, RunIn
<1>11. QED
  BY <1>2, <1>3, <1>4, <1>5, <1>6, <1>7, <1>8, <1>9, <1>10
  DEF Next, Loop, vars, Run, Resume, InjectWake, ColdCommit, ColdSpawn,
      StartRunner, InjectLive, ColdBegin, EndLoop, Crash, Synthesize

(* What a step can do to a cold inject's transaction. *)
LEMMA ColdSteps ==
  ASSUME SoloInv, [Next]_vars
  PROVE  \/ cold' = cold
         \/ cold'.at # "tx"
         \/ cold'.tx = Began("cold", Len(feed)) /\ feed' = feed
<1>1. CASE ColdCommit \/ ColdSpawn
  BY <1>1 DEF ColdCommit, ColdSpawn, NoCold
<1>2. CASE Crash BY <1>2 DEF Crash, NoCold
<1>3. ASSUME NEW text \in Text, NEW kind \in {"inject", "user_inject"},
             ColdBegin(kind, text)
      PROVE  cold'.tx = Began("cold", Len(feed)) /\ feed' = feed
  BY <1>3 DEF ColdBegin
<1>4. QED
  BY <1>1, <1>2, <1>3
  DEF Next, Loop, vars, Run, Resume, InjectWake, InjectLive, EndLoop, Boot,
      Refresh, SeedStep, TaskStep, UnansweredStep, FinalStep, Reading,
      Synthesize, CallAgent, ToolCall, StoreResult, CallFails, Increment, Park

LEMMA BeganIs ==
  ASSUME NEW n \in Nat
  PROVE  /\ Began("cold", n) = 3 * n
         /\ Began("loop", n) = 3 * n + 1
         /\ Began("live", n) = 3 * n + 2
BY DEF Began
(* The dates of the old rows stay, and a new row has its index's. *)
LEMMA DatesKept ==
  ASSUME SoloInv, Dates, NoFinalYet, [Next]_vars
  PROVE  Dates'
<1>1. /\ feed \in Seq(Row) /\ run \in RunIn(Rows) /\ cold \in ColdType
      /\ Len(feed) \in Nat /\ run.tx \in Nat /\ cold.tx \in Nat
      /\ run.sent \subseteq Rows /\ Rows = 1 .. Len(feed)
  BY TypeIs DEF SoloInv, RunIn, ColdType, Rows
<1>2. feed' \in Seq(Row) /\ run' \in RunIn(Rows')
      /\ Len(feed') \in Nat /\ run'.tx \in Nat
      /\ run'.sent \subseteq Rows' /\ Rows' = 1 .. Len(feed')
  <2>1. SoloTypeOK' BY StepKeeps DEF SoloInv
  <2>2. feed' \in Seq(Row) /\ run' \in RunIn(Rows')
    BY <2>1 DEF SoloTypeOK, RunIn, Rows, Texts, Place
  <2>3. QED BY <2>2 DEF RunIn, Rows
<1>3. /\ RowsDated'
      /\ Len(feed) <= Len(feed')
      /\ \A i \in Rows : i \in Rows' /\ feed'[i] = feed[i]
  <2>1. CASE UNCHANGED feed
    BY <1>1, <2>1 DEF Dates, RowsDated, Rows
  <2>2. ASSUME NEW kind, NEW text, NEW at, Append1(kind, text, at),
               RowBy(kind, at) \/ RecordBy(kind, at)
        PROVE  /\ RowsDated'
               /\ Len(feed) <= Len(feed')
               /\ \A i \in Rows : i \in Rows' /\ feed'[i] = feed[i]
    <3>1. /\ Len(feed') = Len(feed) + 1
          /\ Rows' = Rows \cup {Len(feed) + 1}
          /\ feed'[Len(feed) + 1] = [kind |-> kind, text |-> text, at |-> at]
          /\ \A i \in Rows : feed'[i] = feed[i]
      BY <1>1, <2>2, AppendedRow
    <3>2. at < 3 * (Len(feed) + 1)
      <4>1. \/ at = 3 * Len(feed) + 2
            \/ cold.at = "tx" /\ at = cold.tx
            \/ at = run.tx
        BY <1>1, <2>2, BeganIs DEF RowBy, RecordBy
      <4>2. QED BY <1>1, <4>1 DEF Dates, OpenDated
    <3>3. ASSUME NEW i \in Rows' PROVE feed'[i].at < 3 * i
      <4>1. CASE i \in Rows BY <3>1, <4>1 DEF Dates, RowsDated
      <4>2. CASE i = Len(feed) + 1
        <5>1. feed'[i].at = at BY <3>1, <4>2
        <5>2. QED BY <3>2, <4>2, <5>1
      <4>3. QED BY <3>1, <3>3, <4>1, <4>2
    <3>4. QED BY <1>1, <3>1, <3>3 DEF RowsDated
  <2>3. QED BY <2>1, <2>2, FeedSteps
<1>4. OpenDated'
  <2>1. run'.tx <= 3 * Len(feed') + 1
    <3>1. Began("loop", Len(feed')) = 3 * Len(feed') + 1 BY <1>2, BeganIs
    <3>2. run'.tx \in {0, run.tx, Began("loop", Len(feed'))} BY RunSteps
    <3>3. QED BY <1>1, <1>2, <1>3, <3>1, <3>2 DEF Dates, OpenDated
  <2>2. cold'.at = "tx" => cold'.tx <= 3 * Len(feed')
    <3>1. CASE cold' = cold BY <1>1, <1>2, <1>3, <3>1 DEF Dates, OpenDated
    <3>2. CASE cold'.tx = Began("cold", Len(feed)) /\ feed' = feed
      BY <1>1, <3>2, BeganIs
    <3>3. QED BY <3>1, <3>2, ColdSteps
  <2>3. QED BY <2>1, <2>2 DEF OpenDated
<1>5. SentDated'
  <2>1. SUFFICES ASSUME run'.at \in InTurn, NEW i \in run'.sent
                 PROVE  feed'[i].at <= run'.tx
    BY DEF SentDated
  <2>2. CASE run.at \in InTurn /\ run'.tx = run.tx /\ run'.sent = run.sent
    BY <1>1, <1>3, <2>1, <2>2 DEF Dates, SentDated
  <2>3. CASE run'.tx = Began("loop", Len(feed'))
    <3>1. run'.tx = 3 * Len(feed') + 1 BY <1>2, <2>3, BeganIs
    <3>2. i \in 1 .. Len(feed') /\ feed'[i].at < 3 * i /\ feed'[i].at \in Nat
      <4>1. i \in Rows' /\ feed'[i] \in Row BY <1>2, <2>1
      <4>2. QED BY <1>2, <1>3, <4>1 DEF RowsDated, Row
    <3>3. QED BY <1>2, <3>1, <3>2
  <2>4. QED BY <2>1, <2>2, <2>3, RunSteps
<1>6. QED BY <1>3, <1>4, <1>5 DEF Dates

(* What the rows of old are, and how new, stays so.                        *)
LEMMA OldAnswers ==
  ASSUME FeedGrows
  PROVE  /\ \A j \in Kind(Answers) : j \in Kind(Answers)' /\ feed'[j] = feed[j]
         /\ \A i \in Rows : feed'[i] = feed[i]
         /\ Injections' \cap Rows = Injections
BY DEF FeedGrows, Kind, Injections, Rows

LEMMA StepGrows ==
  ASSUME SoloInv, [Next]_vars
  PROVE  FeedGrows
<1>1. feed \in Seq(Row) BY TypeIs DEF SoloInv
<1>2. CASE UNCHANGED feed BY <1>2 DEF FeedGrows, Rows
<1>3. ASSUME NEW kind, NEW text, NEW at, Append1(kind, text, at)
      PROVE  FeedGrows
  BY <1>1, <1>3, AppendedRow DEF FeedGrows
<1>4. QED BY <1>2, <1>3, FeedSteps

(* A turn is recorded by a row dated after all it was given.               *)
LEMMA RecordedKept ==
  ASSUME SoloInv, Dates, Recorded, [Next]_vars
  PROVE  Recorded'
<1>1. /\ feed \in Seq(Row) /\ run.sent \subseteq Rows
      /\ answered \subseteq Rows
  BY TypeIs DEF SoloInv, RunIn
<1>2. FeedGrows BY StepGrows
<1>3. \A i \in answered : \E j \in Kind(Answers)' : feed'[i].at <= feed'[j].at
  BY <1>1, <1>2, OldAnswers DEF Recorded
<1>4. CASE UNCHANGED answered BY <1>3, <1>4 DEF Recorded
<1>5. ASSUME NEW kind, NEW text, NEW at, Append1(kind, text, at),
             RecordBy(kind, at), NEW i \in run.sent
      PROVE  \E j \in Kind(Answers)' : feed'[i].at <= feed'[j].at
  <2>1. /\ Rows' = Rows \cup {Len(feed) + 1}
        /\ feed'[Len(feed) + 1] = [kind |-> kind, text |-> text, at |-> at]
        /\ \A k \in Rows : feed'[k] = feed[k]
    BY <1>1, <1>5, AppendedRow
  <2>2. Len(feed) + 1 \in Kind(Answers)'
    BY <1>5, <2>1 DEF Kind, Answers, RecordBy, Rows
  <2>3. feed'[i].at <= feed'[Len(feed) + 1].at
    BY <1>1, <1>5, <2>1 DEF Dates, SentDated, InTurn, RecordBy
  <2>4. QED BY <2>2, <2>3
<1>6. QED BY <1>3, <1>4, <1>5, FeedSteps DEF Recorded, RecordBy

LEMMA NoFinalKept ==
  ASSUME SoloInv, NoFinalYet, [Next]_vars
  PROVE  NoFinalYet'
<1>1. feed \in Seq(Row) /\ run \in RunIn(Rows) /\ iter \in {0, 1}
  BY TypeIs DEF SoloInv
<1>2. iter' = 0 => iter = 0
  <2>1. iter' = iter \/ iter' = 1
    BY DEF Next, Loop, vars, Run, Resume, InjectWake, ColdCommit, ColdSpawn,
           InjectLive, ColdBegin, Crash, EndLoop, Boot, Refresh, SeedStep,
           TaskStep, UnansweredStep, FinalStep, Reading, Synthesize,
           CallAgent, ToolCall, StoreResult, CallFails, Increment, Park
  <2>2. QED BY <1>1, <2>1
<1>3. run'.at = "synth" => run.at = "synth" \/ iter = 1
  <2>1. CASE FinalStep BY <2>1 DEF FinalStep, Reading
  <2>2. CASE UNCHANGED run BY <2>2
  <2>3. CASE run' = NoRun \/ run' = [NoRun EXCEPT !.at = "boot"]
    BY <2>3 DEF NoRun
  <2>4. CASE Refresh \/ CallAgent \/ Boot
    BY <1>1, <2>4 DEF Refresh, CallAgent, Boot, RunIn
  <2>5. CASE ToolCall BY <1>1, <2>5 DEF ToolCall, RunIn
  <2>6. CASE Increment \/ Park \/ run' = [run EXCEPT !.at = "stored"]
    BY <1>1, <2>6 DEF Increment, Park, RunIn
  <2>7. CASE StoreResult \/ CallFails
    BY <1>1, <2>7 DEF StoreResult, CallFails, RunIn
  <2>8. CASE run' = [run EXCEPT !.at = "pausing", !.tx = 0]
    BY <1>1, <2>8 DEF RunIn
  <2>9. CASE SeedStep \/ TaskStep \/ UnansweredStep
    <3>1. run'.at \in {"pausing", "plan"}
      BY <1>1, <2>9 DEF SeedStep, TaskStep, UnansweredStep, Decide, RunIn
    <3>2. QED BY <3>1
  <2>10. QED
    BY <2>1, <2>2, <2>3, <2>4, <2>5, <2>6, <2>7, <2>8, <2>9
    DEF Next, Loop, vars, Run, Resume, InjectWake, ColdCommit, ColdSpawn,
        StartRunner, InjectLive, ColdBegin, EndLoop, Crash, Synthesize
<1>4. iter' = 0 => Kind({"synthesis"})' = {}
  <2>1. SUFFICES ASSUME iter' = 0, NEW i \in Kind({"synthesis"})' PROVE FALSE
    OBVIOUS
  <2>2. Kind({"synthesis"}) = {} /\ run.at # "synth"
    BY <1>2, <2>1 DEF NoFinalYet
  <2>3. ASSUME NEW kind, NEW text, NEW at, Append1(kind, text, at),
               RowBy(kind, at) \/ RecordBy(kind, at)
        PROVE  FALSE
    <3>1. kind # "synthesis" BY <2>2, <2>3 DEF RowBy, RecordBy
    <3>2. /\ Rows' = Rows \cup {Len(feed) + 1}
          /\ feed'[Len(feed) + 1] = [kind |-> kind, text |-> text, at |-> at]
          /\ \A k \in Rows : feed'[k] = feed[k]
      BY <1>1, <2>3, AppendedRow
    <3>3. QED BY <2>1, <2>2, <3>1, <3>2 DEF Kind, Rows
  <2>4. CASE UNCHANGED feed BY <2>1, <2>2, <2>4 DEF Kind
  <2>5. QED BY <2>3, <2>4, FeedSteps
<1>5. QED BY <1>1, <1>2, <1>3, <1>4 DEF NoFinalYet
(* What a step can do to the books: start anew, raise the guard, go on     *)
(* with what was read, or keep them.                                       *)
BooksGoOn ==
  /\ run.at = "read" /\ run'.at # "read"
  /\ UNCHANGED <<feed, answered>>
  /\ run'.guarded = run.guarded
  /\ run.seen \subseteq run'.seen
  /\ run'.queue \subseteq Queue
  /\ run.sent \subseteq run'.sent

LEMMA BooksSteps ==
  ASSUME SoloInv, [Next]_vars
  PROVE  \/ run' = NoRun \/ run' = [NoRun EXCEPT !.at = "boot"]
         \/ Boot
         \/ BooksGoOn
         \/ Refresh
         \/ /\ SameBooks
            /\ run'.at = "read" => run' = run /\ iter' = iter
            /\ run'.at \notin {"none", "boot"} => run.at \notin {"none", "boot"}
<1>1. run \in RunIn(Rows) BY TypeIs DEF SoloInv
<1>2. CASE StartRunner \/ EndLoop \/ Crash
  BY <1>2 DEF StartRunner, EndLoop, Crash
<1>3. CASE UNCHANGED <<run, iter>>
  BY <1>3 DEF SameBooks
<1>4. CASE \/ Increment \/ Park
           \/ run.at = "parked" /\ run' = [run EXCEPT !.at = "stored"]
  BY <1>1, <1>4 DEF Increment, Park, RunIn, SameBooks
<1>5. CASE CallAgent \/ ToolCall \/ StoreResult \/ CallFails
  BY <1>1, <1>5
  DEF CallAgent, ToolCall, StoreResult, CallFails, RunIn, SameBooks
<1>6. CASE Synthesize
  <2>1. CASE run' = NoRun BY <2>1
  <2>2. CASE run' = [run EXCEPT !.at = "pausing", !.tx = 0]
    BY <1>1, <1>6, <2>2 DEF Synthesize, RunIn, SameBooks
  <2>3. QED BY <1>6, <2>1, <2>2 DEF Synthesize
<1>7. CASE SeedStep
  BY <1>1, <1>7 DEF SeedStep, Reading, Decide, RunIn, BooksGoOn
<1>8. CASE TaskStep \/ UnansweredStep
  <2>1. PICK task : Decide([run EXCEPT !.queue = {}], task)
    BY <1>8 DEF TaskStep, UnansweredStep
  <2>2. run.at = "read" /\ UNCHANGED <<feed, answered>>
    BY <1>8 DEF TaskStep, UnansweredStep, Reading
  <2>3. QED BY <1>1, <2>1, <2>2 DEF Decide, RunIn, BooksGoOn
<1>9. CASE FinalStep
  BY <1>1, <1>9 DEF FinalStep, Reading, RunIn, BooksGoOn
<1>10. QED
  BY <1>2, <1>3, <1>4, <1>5, <1>6, <1>7, <1>8, <1>9
  DEF Next, Loop, vars, Run, Resume, InjectWake, ColdCommit, ColdSpawn,
      InjectLive, ColdBegin

(* The guard holds every answered injection, and what a runner records it  *)
(* has sent.                                                               *)
LEMMA KnownKept ==
  ASSUME SoloInv, Recorded, Known, WindowSees, [Next]_vars
  PROVE  Known'
<1>1. /\ run \in RunIn(Rows) /\ answered \subseteq Rows
      /\ run.queue \subseteq Rows /\ run.sent \subseteq Rows
  BY TypeIs DEF SoloInv, RunIn
<1>2. FeedGrows BY StepGrows
<1>3. answered' \subseteq answered \cup run.sent BY FeedSteps DEF RecordBy
<1>4. CASE run' = NoRun \/ run' = [NoRun EXCEPT !.at = "boot"]
  BY <1>4 DEF Known, NoRun
<1>5. CASE Boot
  <2>1. run.queue = {} BY <1>5 DEF SoloInv, Turns, AtBoot, NoRun, Boot
  <2>2. /\ run'.guarded = NotAfter(Injections, Recent, Answers)
        /\ run'.seen = run'.guarded
        /\ run'.queue = {}
        /\ UNCHANGED <<feed, answered>>
    BY <1>1, <1>5, <2>1 DEF Boot, RunIn, Answers
  <2>3. ASSUME NEW i \in answered \cap Injections PROVE i \in run'.guarded
    <3>1. PICK j \in Kind(Answers) : feed[i].at <= feed[j].at
      BY <2>3 DEF Recorded
    <3>2. PICK k \in Recent \cap Kind(Answers) : feed[j].at <= feed[k].at
      BY <3>1 DEF WindowSees
    <3>3. feed[i].at \in Nat /\ feed[j].at \in Nat /\ feed[k].at \in Nat
      <4>1. \A r \in Rows : feed[r].at \in Nat BY RowTypes DEF SoloInv
      <4>2. i \in Rows /\ j \in Rows /\ k \in Rows
        BY <1>1, <2>3 DEF Kind, Rows
      <4>3. QED BY <4>1, <4>2
    <3>4. feed[i].at <= feed[k].at BY <3>1, <3>2, <3>3
    <3>5. QED BY <2>2, <2>3, <3>2, <3>4 DEF NotAfter
  <2>4. Injections' = Injections BY <2>2 DEF Injections, Kind
  <2>5. QED BY <2>2, <2>3, <2>4 DEF Known
<1>6. CASE BooksGoOn
  <2>1. Injections' = Injections BY <1>6 DEF BooksGoOn, Injections, Kind
  <2>2. Queue \subseteq Injections \ run.guarded BY DEF Known, Queue
  <2>3. QED BY <1>6, <2>1, <2>2 DEF BooksGoOn, Known
<1>7. CASE SameBooks /\ (run'.at \notin {"none", "boot"} =>
                           run.at \notin {"none", "boot"})
  <2>1. answered' \cap Injections' \subseteq
          (answered \cap Injections) \cup run.sent
    BY <1>1, <1>2, <1>3, OldAnswers
  <2>2. run.queue \subseteq Injections' BY <1>1, <1>2, OldAnswers DEF Known
  <2>3. QED BY <1>7, <2>1, <2>2 DEF Known, SameBooks
<1>8. CASE Refresh
  <2>1. SameBooks /\ UNCHANGED <<feed, answered>> /\ run.at = "top"
    BY <1>1, <1>8 DEF Refresh, RunIn, SameBooks
  <2>2. Injections' = Injections BY <2>1 DEF Injections, Kind
  <2>3. QED BY <2>1, <2>2 DEF Known, SameBooks
<1>9. QED BY <1>4, <1>5, <1>6, <1>7, <1>8, BooksSteps

(* No turn is recorded between the read and the decision.                  *)
LEMMA ReadAllKept ==
  ASSUME SoloInv, Recorded, ReadAll, WindowSees, [Next]_vars
  PROVE  ReadAll'
<1>1. /\ run \in RunIn(Rows) /\ answered \subseteq Rows
      /\ run.msgs \subseteq Rows
  BY TypeIs DEF SoloInv, RunIn
<1>2. FeedGrows BY StepGrows
<1>3. CASE Refresh
  <2>1. /\ run'.msgs = Recent
        /\ UNCHANGED <<feed, answered, iter>>
    BY <1>1, <1>3 DEF Refresh, RunIn
  <2>2. Kind(Answers)' = Kind(Answers) /\ Injections' = Injections
    BY <2>1 DEF Kind, Injections
  <2>3. ASSUME NEW i \in answered
        PROVE  \E k \in Recent \cap Kind(Answers) : feed[i].at <= feed[k].at
    <3>1. PICK j \in Kind(Answers) : feed[i].at <= feed[j].at
      BY DEF Recorded
    <3>2. PICK k \in Recent \cap Kind(Answers) : feed[j].at <= feed[k].at
      BY <3>1 DEF WindowSees
    <3>3. feed[i].at \in Nat /\ feed[j].at \in Nat /\ feed[k].at \in Nat
      <4>1. \A r \in Rows : feed[r].at \in Nat BY RowTypes DEF SoloInv
      <4>2. i \in Rows /\ j \in Rows /\ k \in Rows
        BY <1>1 DEF Kind, Rows
      <4>3. QED BY <4>1, <4>2
    <3>4. feed[i].at <= feed[k].at BY <3>1, <3>2, <3>3
    <3>5. QED BY <3>2, <3>4
  <2>4. QED BY <2>1, <2>2, <2>3 DEF ReadAll, WindowSees
<1>4. ASSUME run' = run, iter' = iter, run.at = "read" PROVE ReadAll'
  <2>1. answered' = answered BY <1>4, FeedSteps DEF RecordBy
  <2>2. \A j \in run.msgs \cap Kind(Answers) :
          j \in run'.msgs \cap Kind(Answers)' /\ feed'[j] = feed[j]
    BY <1>2, <1>4, OldAnswers
  <2>3. answered' \cap Injections' = answered \cap Injections
    BY <1>1, <1>2, <2>1, OldAnswers
  <2>4. \A i \in answered : feed'[i] = feed[i] BY <1>1, <1>2, OldAnswers
  <2>5. QED BY <1>4, <2>1, <2>2, <2>3, <2>4 DEF ReadAll
<1>5. run'.at = "read" => Refresh \/ (run' = run /\ iter' = iter)
  <2>1. Boot => run'.at = "top" BY <1>1 DEF Boot, RunIn
  <2>2. NoRun.at = "none" /\ [NoRun EXCEPT !.at = "boot"].at = "boot"
    BY DEF NoRun
  <2>3. QED BY <2>1, <2>2, BooksSteps DEF BooksGoOn
<1>6. QED BY <1>3, <1>4, <1>5 DEF ReadAll

LEMMA RedoStep ==
  ASSUME SoloInv, RedoInv, WindowSees, [Next]_vars
  PROVE  RedoInv'
BY DatesKept, RecordedKept, NoFinalKept, KnownKept, ReadAllKept
DEF RedoInv, Memory

(* What a turn is given has no recorded turn yet.                          *)
LEMMA GivenIsNew ==
  ASSUME SoloInv, RedoInv, [Next]_vars, run.at = "read", run'.at = "plan"
  PROVE  run'.task \cap answered = {}
<1>1. run \in RunIn(Rows) /\ answered \subseteq Rows /\ iter \in {0, 1}
  BY TypeIs DEF SoloInv
<1>2. /\ answered \cap Injections \subseteq run.guarded \cup run.sent
      /\ Queue \subseteq Injections \ run.guarded
  BY DEF RedoInv, Memory, Known, Queue
<1>3. \A i \in answered :
        \E j \in run.msgs \cap Kind(Answers) : feed[i].at <= feed[j].at
  BY DEF RedoInv, Memory, ReadAll
<1>4. \A r \in Rows : feed[r].at \in Nat BY RowTypes DEF SoloInv
<1>5. CASE SeedStep
  <2>1. run'.task = SeedRows BY <1>1, <1>5, SeedKeeps DEF SoloInv, Turns
  <2>2. iter = 0 BY <1>5 DEF SeedStep, Reading
  <2>3. Kind(Answers) = Kind({"result"})
    BY <2>2 DEF RedoInv, Memory, NoFinalYet, Kind, Answers
  <2>4. answered \cap Injections \subseteq run.msgs
    BY <2>2 DEF RedoInv, Memory, ReadAll
  <2>5. ASSUME NEW i \in SeedRows, i \in answered PROVE FALSE
    <3>1. PICK j \in run.msgs \cap Kind({"result"}) : feed[i].at <= feed[j].at
      BY <1>3, <2>3, <2>5
    <3>2. feed[i].at \in Nat /\ feed[j].at \in Nat
      BY <1>1, <1>4, <2>5 DEF Kind, Rows
    <3>3. i \notin After(run.msgs, {"result"}) BY <3>1, <3>2 DEF After
    <3>4. i \in Injections /\ feed[i].text \notin AnsweredTexts
      BY <2>5, <3>3 DEF SeedRows
    <3>5. i \in run.msgs \cap UserRows
      BY <2>4, <2>5, <3>4 DEF Injections, UserRows, Kind
    <3>6. i \in NotAfter(run.msgs \cap UserRows, run.msgs, {"result"})
      BY <3>1, <3>5 DEF NotAfter
    <3>7. QED BY <3>4, <3>6 DEF AnsweredTexts, TextsOf
  <2>6. QED BY <2>1, <2>5
<1>6. CASE TaskStep
  <2>1. run'.task = Pending(Queue) BY <1>1, <1>6, TaskKeeps DEF SoloInv
  <2>2. Pending(Queue) \cap run.sent = {}
    BY <1>1, PendingIsFresh DEF SoloInv, Books
  <2>3. QED BY <1>2, <2>1, <2>2 DEF Pending
<1>7. CASE UnansweredStep
  <2>1. run'.task = Unanswered
    BY <1>1, <1>7 DEF UnansweredStep, Decide, RunIn
  <2>2. ASSUME NEW i \in Unanswered, i \in answered PROVE FALSE
    <3>1. PICK j \in run.msgs \cap Kind(Answers) : feed[i].at <= feed[j].at
      BY <1>3, <2>2
    <3>2. feed[i].at > feed[j].at
      BY <2>2, <3>1 DEF Unanswered, After, Answers
    <3>3. feed[i].at \in Nat /\ feed[j].at \in Nat
      BY <1>1, <1>4, <2>2 DEF Kind, Rows
    <3>4. QED BY <3>1, <3>2, <3>3
  <2>3. QED BY <2>1, <2>2
<1>8. CASE FinalStep
  <2>1. run'.at = "synth" BY <1>1, <1>8 DEF FinalStep, RunIn
  <2>2. QED BY <2>1
<1>9. QED BY <1>5, <1>6, <1>7, <1>8, Reads

(* lab_runner.py:426-434: a message whose turn was recorded is not given   *)
(* to the agent again, by this runner or a later one, as long as the       *)
(* recent rows show the newest answer, and every injection until the       *)
(* counter is first incremented.                                           *)
THEOREM NeverRedoneInWindow == Spec /\ []WindowSees => NeverRedone
<1>1. Init => RedoInv
  <2>1. SUFFICES ASSUME Init PROVE RedoInv OBVIOUS
  <2>2. /\ feed = <<>> /\ iter = 0 /\ run = NoRun /\ cold = NoCold
        /\ answered = {}
    BY <2>1 DEF Init
  <2>3. Rows = {} /\ Len(feed) = 0 BY <2>2 DEF Rows
  <2>4. Dates
    BY <2>2, <2>3
    DEF Dates, RowsDated, OpenDated, SentDated, InTurn, NoRun, NoCold
  <2>5. Memory
    BY <2>2, <2>3
    DEF Memory, Recorded, NoFinalYet, Known, ReadAll, NoRun, Kind, Rows
  <2>6. QED BY <2>4, <2>5 DEF RedoInv
<1>2. SoloInv /\ RedoInv /\ WindowSees /\ [Next]_vars => RedoInv'
  BY RedoStep
<1>3. SoloInv /\ RedoInv /\ [Next]_vars => [TaskIsFresh(answered)]_vars
  BY GivenIsNew DEF TaskIsFresh
<1>4. QED BY <1>1, <1>2, <1>3, SoloInvariant, PTL DEF Spec, NeverRedone
(* A feed that is no longer than the window is seen whole. *)
LEMMA ShortFeedIsSeen ==
  ASSUME SoloTypeOK, Len(feed) <= Window
  PROVE  WindowSees
<1>1. feed \in Seq(Row) /\ Len(feed) \in Nat /\ Rows = 1 .. Len(feed)
  BY TypeIs DEF Rows
<1>2. ASSUME NEW i \in Rows
      PROVE  Cardinality({j \in Rows : feed[j].at > feed[i].at}) < Window
  <2> DEFINE Newer == {j \in Rows : feed[j].at > feed[i].at}
  <2>1. IsFiniteSet(Rows) /\ Cardinality(Rows) = Len(feed)
    BY <1>1, FS_Interval
  <2>2. feed[i].at \in Nat BY RowTypes
  <2>3. Newer \subseteq Rows \ {i} BY <2>2
  <2>4. /\ IsFiniteSet(Rows \ {i})
        /\ Cardinality(Rows \ {i}) = Len(feed) - 1
    BY <2>1, FS_RemoveElement
  <2>5. /\ Cardinality(Newer) \in Nat
        /\ Cardinality(Newer) <= Cardinality(Rows \ {i})
    BY <2>3, <2>4, FS_Subset, FS_CardinalityType
  <2>6. Cardinality(Newer) < Window
    BY <1>1, <2>4, <2>5, SoloAssumption
  <2>7. QED BY <2>6
<1>3. Recent = Rows BY <1>2 DEF Recent, Rows
<1>4. \A kinds : Kind(kinds) \subseteq Rows BY DEF Kind, Rows
<1>5. \A j \in Rows : feed[j].at <= feed[j].at BY RowTypes
<1>6. QED BY <1>3, <1>4, <1>5, Selections DEF WindowSees

(* In particular while the feed of the lab is no longer than the window of *)
(* get_recent(), whatever the dates, crashes, pauses and cold injects.     *)
THEOREM NeverRedoneWhileShort ==
  Spec /\ [](Len(feed) <= Window) => NeverRedone
<1>1. SoloInv /\ Len(feed) <= Window => WindowSees
  BY ShortFeedIsSeen DEF SoloInv
<1>2. QED BY <1>1, SoloInvariant, NeverRedoneInWindow, PTL
=============================================================================
