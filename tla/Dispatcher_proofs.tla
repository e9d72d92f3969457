------------------------- MODULE Dispatcher_proofs --------------------------
(***************************************************************************)
(* What the steps of Dispatcher preserve, for any number of callers,       *)
(* providers and permits.  The module that begins and cancels the calls    *)
(* proves its theorems from these lemmas.                                  *)
(***************************************************************************)
EXTENDS Dispatcher, SequenceTheorems, FiniteSetTheorems, TLAPS

Has(x, p)   == x.at \in {"woken", "chat"} /\ Head(x.order) = p
Waits(x, p) == x.at = "wait" /\ Head(x.order) = p

(* Holders and line of provider p are those that the calls say.            *)
Matched(calls, p, h, q) ==
  /\ h = {c \in Caller : Has(calls[c], p)}
  /\ \A i, j \in 1..Len(q) : q[i] = q[j] => i = j
  /\ \A c \in Caller : (\E i \in 1..Len(q) : q[i] = c) <=> Waits(calls[c], p)

Ordered(x) == x.at \in OnSlot \cup {"try"} => x.order # <<>>

(* The same calls are made, by the same names, before and after.           *)
Follows(after, before) ==
  \A c \in Caller : /\ after[c].by = before[c].by
                    /\ after[c].at = "none" <=> before[c].at = "none"

DispInv ==
  /\ DispTypeOK
  /\ \A c \in Caller : Ordered(call[c])
  /\ \A p \in Provider : Matched(call, p, holders[p], queue[p])
  /\ \A p \in Provider : Cardinality(holders[p]) <= Limit[p]
  /\ NobodyForgotten
  /\ DepthCovers

LEMMA PermitsFollow ==
  ASSUME DispInv
  PROVE  PermitsMatch
BY DEF DispInv, PermitsMatch, Matched, Has, Uses, OnSlot, DispTypeOK, CallState

LEMMA FiniteCallers ==
  ASSUME NEW S \in SUBSET Caller
  PROVE  IsFiniteSet(S) /\ Cardinality(S) \in Nat
BY DispatcherAssumption, FS_Subset, FS_CardinalityType

-----------------------------------------------------------------------------
(* The line *)

LEMMA RestOfLine ==
  ASSUME NEW q \in Seq(Caller), NEW k \in 0..Len(q)
  PROVE  /\ SubSeq(q, k + 1, Len(q)) \in Seq(Caller)
         /\ Len(SubSeq(q, k + 1, Len(q))) = Len(q) - k
         /\ \A i \in 1..(Len(q) - k) : SubSeq(q, k + 1, Len(q))[i] = q[k + i]
<1>1. Len(q) \in Nat BY LenProperties
<1>2. \A i \in (k + 1)..Len(q) : q[i] \in Caller BY <1>1, ElementOfSeq
<1>3. k + 1 \in Int /\ Len(q) \in Int BY <1>1
<1>4. /\ SubSeq(q, k + 1, Len(q)) \in Seq(Caller)
      /\ Len(SubSeq(q, k + 1, Len(q)))
           = IF k + 1 <= Len(q) THEN Len(q) - (k + 1) + 1 ELSE 0
      /\ \A i \in 1..(Len(q) - (k + 1) + 1) :
           SubSeq(q, k + 1, Len(q))[i] = q[(k + 1) + i - 1]
  BY <1>2, <1>3, SubSeqProperties
<1>5. QED BY <1>1, <1>4

(* What Without() leaves: those after c move up by one place.              *)
LEMMA WithoutAt ==
  ASSUME NEW q \in Seq(Caller), NEW k \in 1..Len(q),
         \A i, j \in 1..Len(q) : q[i] = q[j] => i = j
  PROVE  LET w == Without(q, q[k]) IN
         /\ w \in Seq(Caller)
         /\ Len(w) = Len(q) - 1
         /\ \A i \in 1..(Len(q) - 1) : w[i] = IF i < k THEN q[i] ELSE q[i + 1]
<1>0. Len(q) \in Nat /\ DOMAIN q = 1..Len(q) BY LenProperties
<1> DEFINE a == SubSeq(q, 1, k - 1)
           b == SubSeq(q, k + 1, Len(q))
<1>1. Without(q, q[k]) = a \o b
  <2> DEFINE m == CHOOSE j \in DOMAIN q : q[j] = q[k]
  <2>1. m \in DOMAIN q /\ q[m] = q[k] BY <1>0
  <2>2. m = k BY <1>0, <2>1
  <2>3. Without(q, q[k]) = SubSeq(q, 1, m - 1) \o SubSeq(q, m + 1, Len(q))
    BY <1>0 DEF Without
  <2> HIDE DEF m
  <2>4. QED BY <2>2, <2>3
<1>2. a \in Seq(Caller) /\ Len(a) = k - 1 /\ \A i \in 1..(k - 1) : a[i] = q[i]
  <2>1. \A i \in 1..(k - 1) : q[i] \in Caller BY <1>0, ElementOfSeq
  <2>2. 1 \in Int /\ k - 1 \in Int BY <1>0
  <2>3. /\ a \in Seq(Caller)
        /\ Len(a) = IF 1 <= k - 1 THEN (k - 1) - 1 + 1 ELSE 0
        /\ \A i \in 1..((k - 1) - 1 + 1) : a[i] = q[1 + i - 1]
    BY <2>1, <2>2, SubSeqProperties
  <2>4. QED BY <1>0, <2>3
<1>3. /\ b \in Seq(Caller)
      /\ Len(b) = Len(q) - k
      /\ \A i \in 1..(Len(q) - k) : b[i] = q[k + i]
  <2>1. k \in 0..Len(q) BY <1>0
  <2>2. QED BY <2>1, RestOfLine
<1> HIDE DEF a, b
<1> DEFINE w == a \o b
<1>4. w \in Seq(Caller) /\ Len(w) = Len(q) - 1
  <2>1. w \in Seq(Caller) /\ Len(w) = Len(a) + Len(b)
    BY <1>2, <1>3, ConcatProperties
  <2>2. Len(a) + Len(b) = Len(q) - 1 BY <1>0, <1>2, <1>3
  <2>3. QED BY <2>1, <2>2
<1>5. ASSUME NEW i \in 1..(Len(q) - 1)
      PROVE  w[i] = IF i < k THEN q[i] ELSE q[i + 1]
  <2>1. \A j \in 1..Len(a) + Len(b) :
          w[j] = IF j <= Len(a) THEN a[j] ELSE b[j - Len(a)]
    BY <1>2, <1>3, ConcatProperties
  <2>2. CASE i < k BY <1>0, <1>2, <1>3, <1>5, <2>1, <2>2
  <2>3. CASE ~(i < k)
    <3>1. i - (k - 1) \in 1..(Len(q) - k) BY <1>0, <1>5, <2>3
    <3>2. b[i - (k - 1)] = q[k + (i - (k - 1))] BY <1>3, <3>1
    <3>3. w[i] = b[i - (k - 1)] BY <1>0, <1>2, <1>3, <1>5, <2>1, <2>3
    <3>4. k + (i - (k - 1)) = i + 1 BY <1>0, <1>5
    <3>5. QED BY <2>3, <3>2, <3>3, <3>4
  <2>4. QED BY <2>2, <2>3
<1>6. QED BY <1>1, <1>4, <1>5 DEF w

LEMMA WithoutProperties ==
  ASSUME NEW q \in Seq(Caller), NEW c \in Caller,
         \A i, j \in 1..Len(q) : q[i] = q[j] => i = j
  PROVE  LET w == Without(q, c) IN
         /\ w \in Seq(Caller)
         /\ \A i, j \in 1..Len(w) : w[i] = w[j] => i = j
         /\ \A d \in Caller : (\E i \in 1..Len(w) : w[i] = d)
                              <=> d # c /\ \E i \in 1..Len(q) : q[i] = d
<1>0. Len(q) \in Nat /\ DOMAIN q = 1..Len(q) BY LenProperties
<1>1. CASE ~\E i \in DOMAIN q : q[i] = c
  BY <1>0, <1>1 DEF Without
<1>2. CASE \E i \in DOMAIN q : q[i] = c
  <2>1. PICK k \in 1..Len(q) : q[k] = c BY <1>0, <1>2
  <2> DEFINE w == Without(q, c)
  <2>2. /\ w \in Seq(Caller) /\ Len(w) = Len(q) - 1
        /\ \A i \in 1..(Len(q) - 1) : w[i] = IF i < k THEN q[i] ELSE q[i + 1]
    BY <2>1, WithoutAt
  <2> HIDE DEF w
  <2>3. \A i, j \in 1..Len(w) : w[i] = w[j] => i = j
    BY <1>0, <2>1, <2>2
  <2>4. ASSUME NEW d \in Caller, NEW i \in 1..Len(w), w[i] = d
        PROVE  d # c /\ \E j \in 1..Len(q) : q[j] = d
    <3>1. CASE i < k BY <1>0, <2>1, <2>2, <2>4, <3>1
    <3>2. CASE ~(i < k)
      <4>1. i + 1 \in 1..Len(q) /\ i + 1 # k /\ q[i + 1] = d
        BY <1>0, <2>1, <2>2, <2>4, <3>2
      <4>2. QED BY <2>1, <4>1
    <3>3. QED BY <3>1, <3>2
  <2>5. ASSUME NEW d \in Caller, d # c, NEW j \in 1..Len(q), q[j] = d
        PROVE  \E i \in 1..Len(w) : w[i] = d
    <3>1. CASE j < k
      <4>1. j \in 1..Len(w) /\ w[j] = d
        BY <1>0, <2>1, <2>2, <2>5, <3>1
      <4>2. QED BY <4>1
    <3>2. CASE ~(j < k)
      <4>1. j # k BY <2>1, <2>5
      <4>2. j - 1 \in 1..Len(w) /\ ~(j - 1 < k) /\ (j - 1) + 1 = j
        BY <1>0, <2>1, <2>2, <3>2, <4>1
      <4>3. w[j - 1] = d BY <1>0, <2>2, <2>5, <4>2
      <4>4. QED BY <4>2, <4>3
    <3>3. QED BY <3>1, <3>2
  <2>6. QED BY <2>2, <2>3, <2>4, <2>5 DEF w
<1>3. QED BY <1>1, <1>2

-----------------------------------------------------------------------------
(* Permits *)

(* What Grant() keeps: each call's order and caller, who uses a provider,  *)
(* and the match of holders, line and calls; and it forgets nobody.        *)
LEMMA GrantKeeps ==
  ASSUME NEW p \in Provider, NEW calls \in [Caller -> CallState],
         NEW h \in SUBSET Caller, NEW q \in Seq(Caller), NEW most \in Nat,
         holders \in [Provider -> SUBSET Caller],
         queue \in [Provider -> Seq(Caller)],
         most = 1 \/ most = Len(q),
         Matched(calls, p, h, q), Cardinality(h) <= Limit[p],
         \A c \in Caller : Ordered(calls[c]),
         \A r \in Provider \ {p} :
           /\ Matched(calls, r, holders[r], queue[r])
           /\ Cardinality(holders[r]) <= Limit[r],
         Grant(p, h, q, most, calls)
  PROVE  /\ call' \in [Caller -> CallState]
         /\ holders' \in [Provider -> SUBSET Caller]
         /\ queue' \in [Provider -> Seq(Caller)]
         /\ \A c \in Caller : Ordered(call'[c])
         /\ \A r \in Provider :
              /\ Matched(call', r, holders'[r], queue'[r])
              /\ Cardinality(holders'[r]) <= Limit[r]
         /\ \A c \in Caller : /\ call'[c].order = calls[c].order
                              /\ call'[c].at = calls[c].at
                                   \/ /\ calls[c].at = "wait"
                                      /\ call'[c].at = "woken"
                                      /\ Head(calls[c].order) = p
         /\ Follows(call', calls)
         /\ \A r \in Provider \ {p} : holders'[r] = holders[r] /\ queue'[r] = queue[r]
         /\ \/ queue'[p] = <<>>
            \/ Cardinality(holders'[p]) = Limit[p]
            \/ \E c \in Caller : call'[c].at = "woken" /\ Head(call'[c].order) = p
<1>0. Len(q) \in Nat /\ \A i \in 1..Len(q) : q[i] \in Caller
  BY LenProperties, ElementOfSeq
<1>1. PICK k \in 0..Len(q) :
        LET served == {q[i] : i \in 1..k} IN
        /\ k <= most
        /\ k = 0 \/ Cardinality(h \cup served) <= Limit[p]
        /\ (k < Len(q) /\ k < most) => Cardinality(h \cup served) >= Limit[p]
        /\ holders' = [holders EXCEPT ![p] = h \cup served]
        /\ queue' = [queue EXCEPT ![p] = SubSeq(q, k + 1, Len(q))]
        /\ call' = [c \in Caller |->
                      IF c \in served THEN [calls[c] EXCEPT !.at = "woken"]
                      ELSE calls[c]]
  BY DEF Grant
<1> DEFINE served == {q[i] : i \in 1..k}
           rest == SubSeq(q, k + 1, Len(q))
<1>2. k \in Nat /\ k <= Len(q) BY <1>0
<1>3. /\ k <= most
      /\ k = 0 \/ Cardinality(h \cup served) <= Limit[p]
      /\ (k < Len(q) /\ k < most) => Cardinality(h \cup served) >= Limit[p]
      /\ holders' = [holders EXCEPT ![p] = h \cup served]
      /\ queue' = [queue EXCEPT ![p] = rest]
      /\ call' = [c \in Caller |->
                    IF c \in served THEN [calls[c] EXCEPT !.at = "woken"]
                    ELSE calls[c]]
  BY <1>1
<1>4. /\ rest \in Seq(Caller)
      /\ Len(rest) = Len(q) - k
      /\ \A i \in 1..(Len(q) - k) : rest[i] = q[k + i]
  BY RestOfLine
<1>5. /\ served \subseteq Caller
      /\ \A c \in Caller : c \in served <=> \E i \in 1..k : q[i] = c
      /\ k = 0 => served = {}
      /\ k > 0 => q[1] \in served
  BY <1>0, <1>2
<1>6. \A c \in served : Waits(calls[c], p)
  BY <1>0, <1>2, <1>5 DEF Matched
<1> HIDE DEF served, rest
<1>7. \A c \in Caller :
        /\ c \in served => call'[c] = [calls[c] EXCEPT !.at = "woken"]
        /\ c \notin served => call'[c] = calls[c]
  BY <1>3
<1>8. \A c \in Caller : call'[c] \in CallState /\ call'[c].order = calls[c].order
  BY <1>7 DEF CallState, OnSlot
<1>9. \A c \in Caller :
        \/ call'[c].at = calls[c].at /\ c \notin served
        \/ /\ calls[c].at = "wait" /\ call'[c].at = "woken"
           /\ Head(calls[c].order) = p /\ c \in served
  BY <1>6, <1>7 DEF CallState, Waits
<1>10. \A c \in Caller : Ordered(call'[c])
  BY <1>8, <1>9 DEF Ordered, OnSlot
<1>11. Matched(call', p, h \cup served, rest)
  <2>1. h \cup served = {c \in Caller : Has(call'[c], p)}
    BY <1>5, <1>6, <1>8, <1>9 DEF Matched, Has
  <2>2. \A i, j \in 1..Len(rest) : rest[i] = rest[j] => i = j
    BY <1>0, <1>2, <1>4 DEF Matched
  <2>3. ASSUME NEW c \in Caller, NEW i \in 1..Len(rest), rest[i] = c
        PROVE  Waits(call'[c], p)
    <3>1. k + i \in 1..Len(q) /\ q[k + i] = c BY <1>0, <1>2, <1>4, <2>3
    <3>2. c \notin served BY <1>0, <1>2, <1>5, <3>1 DEF Matched
    <3>3. QED BY <1>7, <3>1, <3>2 DEF Matched
  <2>4. ASSUME NEW c \in Caller, Waits(call'[c], p)
        PROVE  \E i \in 1..Len(rest) : rest[i] = c
    <3>1. c \notin served /\ Waits(calls[c], p)
      BY <1>8, <1>9, <2>4 DEF Waits
    <3>2. PICK j \in 1..Len(q) : q[j] = c BY <3>1 DEF Matched
    <3>3. j > k BY <1>0, <1>2, <1>5, <3>1, <3>2
    <3>4. j - k \in 1..Len(rest) /\ rest[j - k] = c
      BY <1>0, <1>2, <1>4, <3>2, <3>3
    <3>5. QED BY <3>4
  <2>5. QED BY <2>1, <2>2, <2>3, <2>4 DEF Matched
<1>12. ASSUME NEW r \in Provider \ {p}
       PROVE  Matched(call', r, holders[r], queue[r])
  <2>1. \A c \in Caller :
          /\ Has(call'[c], r) <=> Has(calls[c], r)
          /\ Waits(call'[c], r) <=> Waits(calls[c], r)
    BY <1>8, <1>9 DEF Has, Waits
  <2>2. Matched(calls, r, holders[r], queue[r]) OBVIOUS
  <2>3. holders[r] = {c \in Caller : Has(call'[c], r)}
    <3>1. holders[r] = {c \in Caller : Has(calls[c], r)} BY <2>2 DEF Matched
    <3>2. QED BY <2>1, <3>1
  <2>4. QED BY <2>1, <2>2, <2>3 DEF Matched
<1>13. holders'[p] = h \cup served /\ queue'[p] = rest BY <1>3
<1>14. Cardinality(h \cup served) <= Limit[p]
  <2>1. CASE k = 0 BY <1>5, <2>1
  <2>2. CASE k # 0 BY <1>3, <2>2
  <2>3. QED BY <2>1, <2>2
<1>15. \/ rest = <<>>
       \/ Cardinality(h \cup served) = Limit[p]
       \/ \E c \in Caller : call'[c].at = "woken" /\ Head(call'[c].order) = p
  <2>1. CASE k > 0
    <3>1. q[1] \in served /\ q[1] \in Caller BY <1>5, <2>1
    <3>2. QED BY <1>6, <1>8, <1>9, <3>1 DEF Waits
  <2>2. CASE k = 0 /\ Len(q) > 0
    <3>1. Cardinality(h \cup served) >= Limit[p] BY <1>0, <1>3, <2>2
    <3>2. IsFiniteSet(h \cup served) /\ Cardinality(h \cup served) \in Nat
      BY <1>5, FiniteCallers
    <3>3. Limit[p] \in Nat BY DispatcherAssumption
    <3>4. QED BY <1>14, <3>1, <3>2, <3>3
  <2>3. CASE Len(q) = 0
    <3>1. k = 0 BY <1>0, <1>2, <2>3
    <3>2. Len(rest) = Len(q) - k BY <1>4
    <3>3. Len(rest) = 0 BY <2>3, <3>1, <3>2
    <3>4. rest \in Seq(Caller) BY <1>4
    <3>5. QED BY <3>3, <3>4, EmptySeq
  <2>4. QED BY <1>0, <1>2, <2>1, <2>2, <2>3
<1>16. \A r \in Provider :
         /\ Matched(call', r, holders'[r], queue'[r])
         /\ Cardinality(holders'[r]) <= Limit[r]
  BY <1>3, <1>11, <1>12, <1>13, <1>14
<1>17. call' \in [Caller -> CallState] BY <1>3, <1>8
<1>18. holders' \in [Provider -> SUBSET Caller] BY <1>3, <1>5
<1>19. queue' \in [Provider -> Seq(Caller)] BY <1>3, <1>4
<1>20. \A r \in Provider \ {p} : holders'[r] = holders[r] /\ queue'[r] = queue[r]
  BY <1>3
<1>21. Follows(call', calls)
  <2>1. \A c \in Caller : call'[c].by = calls[c].by BY <1>7 DEF CallState
  <2>2. QED BY <1>9, <2>1 DEF Follows
<1>22. QED
  BY <1>8, <1>9, <1>10, <1>13, <1>15, <1>16, <1>17, <1>18, <1>19, <1>20, <1>21

-----------------------------------------------------------------------------
(* The steps of a call *)

UsersOf(p) == {c \in Caller : Uses(c, p)}

(* A call that neither leaves a provider nor comes to one.                 *)
LEMMA AwayFromSlots ==
  ASSUME DispInv, NEW c \in Caller, NEW x \in CallState,
         call[c].at \notin OnSlot, x.at \notin OnSlot, Ordered(x),
         call' = [call EXCEPT ![c] = x],
         UNCHANGED <<holders, queue, depth>>,
         pinned' \in [Name -> Provider \cup {None}]
  PROVE  DispInv'
<1>1. DispTypeOK' BY DEF DispInv, DispTypeOK
<1>2. \A d \in Caller : Ordered(call'[d]) BY DEF DispInv, DispTypeOK
<1>3. \A d \in Caller, p \in Provider :
        /\ Has(call'[d], p) <=> Has(call[d], p)
        /\ Waits(call'[d], p) <=> Waits(call[d], p)
        /\ Uses(d, p)' <=> Uses(d, p)
        /\ d \in Woken(p)' <=> d \in Woken(p)
  BY DEF DispInv, DispTypeOK, Has, Waits, Uses, Woken, OnSlot
<1>4. ASSUME NEW p \in Provider
      PROVE  Matched(call', p, holders'[p], queue'[p])
  <2>1. Matched(call, p, holders[p], queue[p]) BY DEF DispInv
  <2>2. holders[p] = {d \in Caller : Has(call[d], p)} BY <2>1 DEF Matched
  <2>3. holders'[p] = {d \in Caller : Has(call'[d], p)} BY <1>3, <2>2
  <2>4. QED BY <1>3, <2>1, <2>3 DEF Matched
<1>5. NobodyForgotten' /\ DepthCovers'
  <2>1. \A p \in Provider : Woken(p)' = Woken(p)
    BY <1>3 DEF Woken
  <2>2. \A p \in Provider : UsersOf(p)' = UsersOf(p)
    BY <1>3 DEF UsersOf
  <2>3. QED BY <2>1, <2>2 DEF DispInv, NobodyForgotten, DepthCovers, UsersOf
<1>6. QED BY <1>1, <1>2, <1>4, <1>5 DEF DispInv

LEMMA AcquireKeeps ==
  ASSUME DispInv, NEW c \in Caller, Acquire(c)
  PROVE  DispInv' /\ Follows(call', call)
<1> DEFINE p == Head(call[c].order)
<1>1. /\ call[c] \in CallState /\ call[c].at = "try" /\ call[c].order # <<>>
      /\ p \in Provider
  <2>1. call[c] \in CallState /\ call[c].at = "try" /\ call[c].order # <<>>
    BY DEF DispInv, DispTypeOK, Acquire, Ordered
  <2>2. QED BY <2>1, HeadTailProperties DEF CallState
<1>2. /\ depth' = [depth EXCEPT ![p] = @ + 1]
      /\ pinned' = pinned
      /\ \/ /\ Locked(p)
            /\ queue' = [queue EXCEPT ![p] = Append(@, c)]
            /\ call' = [call EXCEPT ![c].at = "wait"]
            /\ UNCHANGED holders
         \/ /\ ~Locked(p)
            /\ holders' = [holders EXCEPT ![p] = @ \cup {c}]
            /\ call' = [call EXCEPT ![c].at = "chat"]
            /\ UNCHANGED queue
  BY DEF Acquire, Set
<1>3. \A r \in Provider :
        /\ ~Has(call[c], r) /\ ~Waits(call[c], r) /\ ~Uses(c, r)
        /\ c \notin holders[r]
        /\ \A i \in 1..Len(queue[r]) : queue[r][i] # c
  BY <1>1 DEF DispInv, Matched, Has, Waits, Uses, OnSlot
<1> HIDE DEF p
<1>4. call'[c].order = call[c].order /\ call'[c].at \in {"wait", "chat"}
      /\ call'[c] \in CallState /\ \A d \in Caller : d # c => call'[d] = call[d]
  <2>1. call \in [Caller -> CallState] BY DEF DispInv, DispTypeOK
  <2>2. \/ call' = [call EXCEPT ![c] = [call[c] EXCEPT !.at = "wait"]]
        \/ call' = [call EXCEPT ![c] = [call[c] EXCEPT !.at = "chat"]]
    BY <1>1, <1>2, <2>1
  <2>3. call'[c] = [call[c] EXCEPT !.at = "wait"]
        \/ call'[c] = [call[c] EXCEPT !.at = "chat"]
    BY <2>1, <2>2
  <2>4. QED BY <1>1, <2>1, <2>2, <2>3 DEF CallState, OnSlot
<1>5. DispTypeOK'
  <2>1. call' \in [Caller -> CallState]
    BY <1>2, <1>4 DEF DispInv, DispTypeOK
  <2>2. holders' \in [Provider -> SUBSET Caller] /\ depth' \in [Provider -> Nat]
    <3>1. holders \in [Provider -> SUBSET Caller] /\ depth \in [Provider -> Nat]
      BY DEF DispInv, DispTypeOK
    <3>2. holders' = holders \/ holders' = [holders EXCEPT ![p] = @ \cup {c}]
      BY <1>2
    <3>3. holders' \in [Provider -> SUBSET Caller] BY <1>1, <3>1, <3>2
    <3>4. depth' \in [Provider -> Nat] BY <1>1, <1>2, <3>1
    <3>5. QED BY <3>3, <3>4
  <2>3. queue' \in [Provider -> Seq(Caller)]
    <3>1. Append(queue[p], c) \in Seq(Caller)
      BY <1>1 DEF DispInv, DispTypeOK
    <3>2. QED BY <1>1, <1>2, <3>1 DEF DispInv, DispTypeOK
  <2>4. QED BY <1>2, <2>1, <2>2, <2>3 DEF DispInv, DispTypeOK
<1>6. \A d \in Caller : Ordered(call'[d]) BY <1>1, <1>4 DEF DispInv, Ordered
<1>7. ASSUME NEW r \in Provider
      PROVE  Matched(call', r, holders'[r], queue'[r])
  <2>1. Matched(call, r, holders[r], queue[r]) BY DEF DispInv
  <2>2. holders[r] = {d \in Caller : Has(call[d], r)} BY <2>1 DEF Matched
  <2>3. \A d \in Caller : d # c =>
          /\ Has(call'[d], r) <=> Has(call[d], r)
          /\ Waits(call'[d], r) <=> Waits(call[d], r)
    BY <1>4
  <2>4. CASE r # p
    <3>1. holders'[r] = holders[r] /\ queue'[r] = queue[r]
      BY <1>2, <2>4 DEF DispInv, DispTypeOK
    <3>2. ~Has(call'[c], r) /\ ~Waits(call'[c], r)
      BY <1>4, <2>4 DEF Has, Waits, p
    <3>3. holders[r] = {d \in Caller : Has(call'[d], r)}
      BY <1>3, <2>2, <2>3, <3>2
    <3>4. QED BY <1>3, <2>1, <2>3, <3>1, <3>2, <3>3 DEF Matched
  <2>5. CASE r = p /\ call'[c].at = "wait"
    <3>1. holders'[r] = holders[r] /\ queue'[r] = Append(queue[r], c)
      BY <1>1, <1>2, <2>5 DEF DispInv, DispTypeOK, CallState
    <3>2. ~Has(call'[c], r) /\ Waits(call'[c], r)
      BY <1>4, <2>5 DEF Has, Waits, p
    <3>3. holders[r] = {d \in Caller : Has(call'[d], r)}
      BY <1>3, <2>2, <2>3, <3>2
    <3>4. queue[r] \in Seq(Caller) /\ Len(queue[r]) \in Nat
      BY LenProperties DEF DispInv, DispTypeOK
    <3>5. /\ Len(Append(queue[r], c)) = Len(queue[r]) + 1
          /\ \A i \in 1..Len(queue[r]) : Append(queue[r], c)[i] = queue[r][i]
          /\ Append(queue[r], c)[Len(queue[r]) + 1] = c
      BY <3>4
    <3>6. \A i, j \in 1..Len(queue'[r]) : queue'[r][i] = queue'[r][j] => i = j
      BY <1>3, <2>1, <3>1, <3>4, <3>5 DEF Matched
    <3>7. ASSUME NEW d \in Caller
          PROVE  (\E i \in 1..Len(queue'[r]) : queue'[r][i] = d)
                   <=> Waits(call'[d], r)
      <4>1. CASE d = c
        <5>1. Len(queue[r]) + 1 \in 1..Len(queue'[r]) BY <3>1, <3>4, <3>5
        <5>2. QED BY <3>1, <3>2, <3>5, <4>1, <5>1
      <4>2. CASE d # c
        <5>1. (\E i \in 1..Len(queue'[r]) : queue'[r][i] = d)
                <=> \E i \in 1..Len(queue[r]) : queue[r][i] = d
          BY <3>1, <3>4, <3>5, <4>2
        <5>2. QED BY <2>1, <2>3, <4>2, <5>1 DEF Matched
      <4>3. QED BY <4>1, <4>2
    <3>8. QED BY <3>1, <3>3, <3>6, <3>7 DEF Matched
  <2>6. CASE r = p /\ call'[c].at = "chat"
    <3>1. holders'[r] = holders[r] \cup {c} /\ queue'[r] = queue[r]
      BY <1>1, <1>2, <2>6 DEF DispInv, DispTypeOK, CallState
    <3>2. Has(call'[c], r) /\ ~Waits(call'[c], r)
      BY <1>4, <2>6 DEF Has, Waits, p
    <3>3. holders[r] \cup {c} = {d \in Caller : Has(call'[d], r)}
      BY <2>2, <2>3, <3>2
    <3>4. QED BY <1>3, <2>1, <2>3, <3>1, <3>2, <3>3 DEF Matched
  <2>7. QED BY <1>4, <2>4, <2>5, <2>6
<1>8. ASSUME NEW r \in Provider PROVE Cardinality(holders'[r]) <= Limit[r]
  <2>1. CASE holders'[r] = holders[r] BY <2>1 DEF DispInv
  <2>2. CASE r = p /\ ~Locked(p) /\ holders'[r] = holders[r] \cup {c}
    <3>1. ~(Cardinality(holders[p]) >= Limit[p]) BY <2>2 DEF Locked
    <3>2. holders[p] \in SUBSET Caller BY <1>1 DEF DispInv, DispTypeOK
    <3>3. IsFiniteSet(holders[p]) /\ Cardinality(holders[p]) \in Nat
      BY <3>2, FiniteCallers
    <3>4. Cardinality(holders[p] \cup {c}) = Cardinality(holders[p]) + 1
      BY <1>1, <1>3, <3>3, FS_AddElement
    <3>5. IsFiniteSet(holders[p] \cup {c})
          /\ Cardinality(holders[p] \cup {c}) \in Nat
      BY <3>2, FiniteCallers
    <3>6. Limit[p] \in Nat BY <1>1, DispatcherAssumption
    <3>7. QED BY <2>2, <3>1, <3>3, <3>4, <3>5, <3>6
  <2>3. QED BY <1>1, <1>2, <2>1, <2>2 DEF DispInv, DispTypeOK
<1>9. NobodyForgotten'
  <2>1. SUFFICES ASSUME NEW r \in Provider, queue'[r] # <<>>, Woken(r)' = {}
                 PROVE  Cardinality(holders'[r]) = Limit[r]
    BY DEF NobodyForgotten
  <2>2. Woken(r)' = Woken(r)
    BY <1>1, <1>4 DEF Woken, Uses, OnSlot
  <2>3. CASE queue[r] # <<>> /\ holders'[r] = holders[r]
    BY <2>1, <2>2, <2>3 DEF DispInv, NobodyForgotten
  <2>4. CASE queue[r] = <<>>
    <3>1. r = p /\ Locked(p) /\ UNCHANGED holders
      BY <1>1, <1>2, <2>1, <2>4 DEF DispInv, DispTypeOK
    <3>2. Cardinality(holders[p]) >= Limit[p]
      BY <2>1, <2>2, <2>4, <3>1 DEF Locked
    <3>3. Cardinality(holders[p]) <= Limit[p] BY <1>1 DEF DispInv
    <3>4. Cardinality(holders[p]) \in Nat /\ Limit[p] \in Nat
      BY <1>1, FiniteCallers, DispatcherAssumption DEF DispInv, DispTypeOK
    <3>5. QED BY <3>1, <3>2, <3>3, <3>4
  <2>5. CASE queue[r] # <<>> /\ holders'[r] # holders[r]
    <3>1. r = p /\ ~Locked(p)
      BY <1>1, <1>2, <2>5 DEF DispInv, DispTypeOK
    <3>2. QED BY <2>5, <3>1 DEF Locked
  <2>6. QED BY <2>3, <2>4, <2>5
<1>10. DepthCovers'
  <2>1. SUFFICES ASSUME NEW r \in Provider
                 PROVE  depth'[r] >= Cardinality(UsersOf(r)')
    BY DEF DepthCovers, UsersOf
  <2>2. UsersOf(r) \in SUBSET Caller BY DEF UsersOf
  <2>3. IsFiniteSet(UsersOf(r)) /\ Cardinality(UsersOf(r)) \in Nat
    BY <2>2, FiniteCallers
  <2>4. depth[r] \in Nat /\ depth[r] >= Cardinality(UsersOf(r))
    BY DEF DispInv, DispTypeOK, DepthCovers, UsersOf
  <2>5. CASE r # p
    <3>1. UsersOf(r)' = UsersOf(r)
      BY <1>1, <1>4, <2>5 DEF UsersOf, Uses, OnSlot, p
    <3>2. depth'[r] = depth[r] BY <1>2, <2>5 DEF DispInv, DispTypeOK
    <3>3. QED BY <2>4, <3>1, <3>2
  <2>6. CASE r = p
    <3>1. UsersOf(r)' = UsersOf(r) \cup {c}
      BY <1>1, <1>4, <2>6 DEF UsersOf, Uses, OnSlot, p
    <3>2. Cardinality(UsersOf(r) \cup {c}) = Cardinality(UsersOf(r)) + 1
      BY <1>3, <2>3, FS_AddElement DEF UsersOf
    <3>3. depth'[r] = depth[r] + 1 BY <1>1, <1>2, <2>6 DEF DispInv, DispTypeOK
    <3>4. Cardinality(UsersOf(r) \cup {c}) \in Nat
      BY <2>2, FiniteCallers
    <3>5. QED BY <2>3, <2>4, <3>1, <3>2, <3>3, <3>4
  <2>7. QED BY <2>5, <2>6
<1>11. Follows(call', call)
  <2>1. call'[c].by = call[c].by
    BY <1>1, <1>2 DEF DispInv, DispTypeOK, CallState
  <2>2. QED BY <1>1, <1>4, <2>1 DEF Follows
<1>12. QED
  BY <1>5, <1>6, <1>7, <1>8, <1>9, <1>10, <1>11 DEF DispInv

(* Permits of p handed to its line, with the calls as they are to be.      *)
On(x, p) == x.at \in OnSlot /\ Head(x.order) = p

LEMMA GrantedKeeps ==
  ASSUME DispInv,
         NEW p \in Provider, NEW calls \in [Caller -> CallState],
         NEW h \in SUBSET Caller, NEW q \in Seq(Caller), NEW most \in Nat,
         most = 1 \/ most = Len(q),
         Matched(calls, p, h, q), Cardinality(h) <= Limit[p],
         \A c \in Caller : Ordered(calls[c]),
         \A r \in Provider \ {p} :
           /\ Matched(calls, r, holders[r], queue[r])
           /\ \A c \in Caller :
                calls[c].at = "woken" /\ Head(calls[c].order) = r
                  <=> c \in Woken(r),
         Grant(p, h, q, most, calls),
         depth' \in [Provider -> Nat],
         \A r \in Provider :
           depth'[r] >= Cardinality({c \in Caller : On(calls[c], r)}),
         pinned' \in [Name -> Provider \cup {None}]
  PROVE  DispInv' /\ Follows(call', calls)
<1>1. /\ holders \in [Provider -> SUBSET Caller]
      /\ queue \in [Provider -> Seq(Caller)]
      /\ \A r \in Provider : Cardinality(holders[r]) <= Limit[r]
  BY DEF DispInv, DispTypeOK
<1>2. /\ call' \in [Caller -> CallState]
      /\ holders' \in [Provider -> SUBSET Caller]
      /\ queue' \in [Provider -> Seq(Caller)]
      /\ \A c \in Caller : Ordered(call'[c])
      /\ \A r \in Provider :
           /\ Matched(call', r, holders'[r], queue'[r])
           /\ Cardinality(holders'[r]) <= Limit[r]
      /\ \A c \in Caller : /\ call'[c].order = calls[c].order
                           /\ call'[c].at = calls[c].at
                                \/ /\ calls[c].at = "wait"
                                   /\ call'[c].at = "woken"
                                   /\ Head(calls[c].order) = p
      /\ Follows(call', calls)
      /\ \A r \in Provider \ {p} : holders'[r] = holders[r] /\ queue'[r] = queue[r]
      /\ \/ queue'[p] = <<>>
         \/ Cardinality(holders'[p]) = Limit[p]
         \/ \E c \in Caller : call'[c].at = "woken" /\ Head(call'[c].order) = p
  BY <1>1, GrantKeeps
<1>3. DispTypeOK' BY <1>2 DEF DispTypeOK
<1>4. ASSUME NEW r \in Provider, queue'[r] # <<>>, Woken(r)' = {}
      PROVE  Cardinality(holders'[r]) = Limit[r]
  <2>1. CASE r = p
    <3>1. ~\E c \in Caller : call'[c].at = "woken" /\ Head(call'[c].order) = p
      BY <1>4, <2>1 DEF Woken, Uses, OnSlot
    <3>2. QED BY <1>2, <1>4, <2>1, <3>1
  <2>2. CASE r # p
    <3>1. \A c \in Caller : c \in Woken(r) => c \in Woken(r)'
      BY <1>2, <2>2 DEF Woken, Uses, OnSlot
    <3>2. Woken(r) = {} BY <1>4, <3>1 DEF Woken
    <3>3. QED BY <1>2, <1>4, <2>2, <3>2 DEF DispInv, NobodyForgotten
  <2>3. QED BY <2>1, <2>2
<1>5. ASSUME NEW r \in Provider
      PROVE  depth'[r] >= Cardinality({c \in Caller : Uses(c, r)'})
  <2>1. \A c \in Caller : Uses(c, r)' <=> On(calls[c], r)
    BY <1>2 DEF Uses, On, OnSlot
  <2>2. {c \in Caller : Uses(c, r)'} = {c \in Caller : On(calls[c], r)} BY <2>1
  <2>3. QED BY <2>2
<1>6. NobodyForgotten' BY <1>4 DEF NobodyForgotten
<1>7. DepthCovers' BY <1>5 DEF DepthCovers
<1>8. QED BY <1>2, <1>3, <1>6, <1>7 DEF DispInv

(* A call that was handed a permit resumes. *)
LEMMA ResumeKeeps ==
  ASSUME DispInv, NEW c \in Caller, Resume(c)
  PROVE  DispInv' /\ Follows(call', call)
<1> DEFINE p == Head(call[c].order)
           x == [call[c] EXCEPT !.at = "chat"]
           calls == [call EXCEPT ![c] = x]
<1>1. /\ call \in [Caller -> CallState] /\ call[c].at = "woken"
      /\ call[c].order # <<>> /\ p \in Provider
  <2>1. /\ call \in [Caller -> CallState] /\ call[c].at = "woken"
        /\ call[c].order # <<>> /\ call[c].order \in Seq(Provider)
    BY DEF DispInv, DispTypeOK, CallState, Resume, Ordered, OnSlot
  <2>2. QED BY <2>1, HeadTailProperties
<1>2. /\ Grant(p, holders[p], queue[p], Len(queue[p]), calls)
      /\ depth' = depth /\ pinned' = pinned
  BY <1>1 DEF Resume, Set
<1>3. /\ x \in CallState /\ x.at = "chat" /\ x.order = call[c].order
  BY <1>1 DEF CallState, OnSlot
<1> HIDE DEF x
<1>4. /\ calls \in [Caller -> CallState] /\ calls[c] = x
      /\ \A d \in Caller : d # c => calls[d] = call[d]
  BY <1>1, <1>3
<1> HIDE DEF calls
<1>5. \A d \in Caller, r \in Provider :
        /\ Has(calls[d], r) <=> Has(call[d], r)
        /\ Waits(calls[d], r) <=> Waits(call[d], r)
        /\ On(calls[d], r) <=> Uses(d, r)
  BY <1>1, <1>3, <1>4 DEF Has, Waits, On, Uses, OnSlot
<1>6. ASSUME NEW r \in Provider
      PROVE  /\ Matched(calls, r, holders[r], queue[r])
             /\ depth'[r] >= Cardinality({d \in Caller : On(calls[d], r)})
  <2>1. Matched(call, r, holders[r], queue[r]) BY DEF DispInv
  <2>2. holders[r] = {d \in Caller : Has(call[d], r)} BY <2>1 DEF Matched
  <2>3. holders[r] = {d \in Caller : Has(calls[d], r)} BY <1>5, <2>2
  <2>4. {d \in Caller : On(calls[d], r)} = {d \in Caller : Uses(d, r)} BY <1>5
  <2>5. QED BY <1>2, <1>5, <2>1, <2>3, <2>4 DEF Matched, DispInv, DepthCovers
<1>7. ASSUME NEW r \in Provider \ {p}, NEW d \in Caller
      PROVE  calls[d].at = "woken" /\ Head(calls[d].order) = r
               <=> d \in Woken(r)
  BY <1>1, <1>3, <1>4 DEF Woken, Uses, OnSlot
<1>8. \A d \in Caller : Ordered(calls[d])
  BY <1>1, <1>3, <1>4 DEF DispInv, Ordered
<1>9. /\ holders[p] \in SUBSET Caller /\ queue[p] \in Seq(Caller)
      /\ Len(queue[p]) \in Nat /\ Cardinality(holders[p]) <= Limit[p]
      /\ depth' \in [Provider -> Nat]
      /\ pinned' \in [Name -> Provider \cup {None}]
  BY <1>1, <1>2, LenProperties DEF DispInv, DispTypeOK
<1> HIDE DEF p
<1>10. \A r \in Provider \ {p} :
         /\ Matched(calls, r, holders[r], queue[r])
         /\ \A d \in Caller :
              calls[d].at = "woken" /\ Head(calls[d].order) = r
                <=> d \in Woken(r)
  BY <1>6, <1>7
<1>11. QED
  <2> DEFINE n == Len(queue[p])
  <2>1. Grant(p, holders[p], queue[p], n, calls) BY <1>2
  <2>2. n \in Nat /\ (n = 1 \/ n = Len(queue[p])) BY <1>9
  <2>3. Matched(calls, p, holders[p], queue[p]) BY <1>1, <1>6
  <2> HIDE DEF n
  <2>4. DispInv' /\ Follows(call', calls)
    BY <1>1, <1>4, <1>6, <1>8, <1>9, <1>10, <2>1, <2>2, <2>3, GrantedKeeps
  <2>5. calls[c].by = call[c].by BY <1>1, <1>4 DEF x, CallState
  <2>6. Follows(calls, call) BY <1>1, <1>3, <1>4, <2>5 DEF Follows
  <2>7. QED BY <2>4, <2>6 DEF Follows

(* A call leaves the provider of its slot, or its line, for x. *)
LEMMA LeaveKeeps ==
  ASSUME DispInv, NEW c \in Caller, call[c].at \in OnSlot,
         NEW x \in CallState, x.at \notin OnSlot, Ordered(x),
         NEW q \in Seq(Caller), NEW most \in Nat, most = 1 \/ most = Len(q),
         \A i, j \in 1..Len(q) : q[i] = q[j] => i = j,
         \A d \in Caller :
           (\E i \in 1..Len(q) : q[i] = d)
             <=> /\ d # c
                 /\ \E i \in 1..Len(queue[Head(call[c].order)]) :
                      queue[Head(call[c].order)][i] = d,
         Grant(Head(call[c].order), holders[Head(call[c].order)] \ {c}, q, most,
               [call EXCEPT ![c] = x]),
         \/ depth' = depth
         \/ depth' = [depth EXCEPT ![Head(call[c].order)] = @ - 1],
         pinned' \in [Name -> Provider \cup {None}]
  PROVE  DispInv' /\ Follows(call', [call EXCEPT ![c] = x])
<1> DEFINE p == Head(call[c].order)
           calls == [call EXCEPT ![c] = x]
           h == holders[p] \ {c}
<1>1. /\ call \in [Caller -> CallState] /\ call[c].order # <<>>
      /\ p \in Provider
  <2>1. /\ call \in [Caller -> CallState] /\ call[c].order # <<>>
        /\ call[c].order \in Seq(Provider)
    BY DEF DispInv, DispTypeOK, CallState, Ordered
  <2>2. QED BY <2>1, HeadTailProperties
<1>2. Grant(p, h, q, most, calls) OBVIOUS
<1>3. depth' = depth \/ depth' = [depth EXCEPT ![p] = @ - 1] OBVIOUS
<1>4. \A d \in Caller :
        (\E i \in 1..Len(q) : q[i] = d)
          <=> d # c /\ \E i \in 1..Len(queue[p]) : queue[p][i] = d
  OBVIOUS
<1>5. /\ calls \in [Caller -> CallState] /\ calls[c] = x
      /\ \A d \in Caller : d # c => calls[d] = call[d]
  BY <1>1
<1>6. Uses(c, p) /\ \A r \in Provider \ {p} : ~Uses(c, r)
  BY DEF Uses
<1> HIDE DEF p, calls
<1>7. \A r \in Provider : ~Has(x, r) /\ ~Waits(x, r) /\ ~On(x, r)
  BY DEF Has, Waits, On, OnSlot
<1>8. \A r \in Provider \ {p} : ~Has(call[c], r) /\ ~Waits(call[c], r)
  BY DEF p, Has, Waits
<1>9. Matched(calls, p, h, q)
  <2>1. Matched(call, p, holders[p], queue[p]) BY <1>1 DEF DispInv
  <2>2. holders[p] = {d \in Caller : Has(call[d], p)} BY <2>1 DEF Matched
  <2>3. \A d \in Caller : Has(calls[d], p) <=> d # c /\ Has(call[d], p)
    BY <1>1, <1>5, <1>7
  <2>4. h = {d \in Caller : Has(calls[d], p)} BY <2>2, <2>3
  <2>5. \A d \in Caller : Waits(calls[d], p) <=> d # c /\ Waits(call[d], p)
    BY <1>1, <1>5, <1>7
  <2>6. \A d \in Caller : (\E i \in 1..Len(q) : q[i] = d) <=> Waits(calls[d], p)
    BY <1>4, <2>1, <2>5 DEF Matched
  <2>7. QED BY <2>4, <2>6 DEF Matched
<1>10. ASSUME NEW r \in Provider \ {p}
       PROVE  /\ Matched(calls, r, holders[r], queue[r])
              /\ \A d \in Caller :
                   calls[d].at = "woken" /\ Head(calls[d].order) = r
                     <=> d \in Woken(r)
  <2>1. Matched(call, r, holders[r], queue[r]) BY DEF DispInv
  <2>2. holders[r] = {d \in Caller : Has(call[d], r)} BY <2>1 DEF Matched
  <2>3. \A d \in Caller :
          /\ Has(calls[d], r) <=> Has(call[d], r)
          /\ Waits(calls[d], r) <=> Waits(call[d], r)
    BY <1>5, <1>7, <1>8
  <2>4. holders[r] = {d \in Caller : Has(calls[d], r)} BY <2>2, <2>3
  <2>5. ASSUME NEW d \in Caller
        PROVE  calls[d].at = "woken" /\ Head(calls[d].order) = r
                 <=> d \in Woken(r)
    <3>1. CASE d = c
      <4>1. calls[d].at # "woken" BY <1>5, <3>1 DEF OnSlot
      <4>2. d \notin Woken(r) BY <1>6, <3>1 DEF Woken
      <4>3. QED BY <4>1, <4>2
    <3>2. CASE d # c BY <1>5, <3>2 DEF Woken, Uses, OnSlot
    <3>3. QED BY <3>1, <3>2
  <2>6. QED BY <2>1, <2>3, <2>4, <2>5 DEF Matched
<1>11. \A d \in Caller : Ordered(calls[d])
  BY <1>5 DEF DispInv
<1>12. h \in SUBSET Caller /\ Cardinality(h) <= Limit[p]
  <2>1. holders[p] \in SUBSET Caller /\ Cardinality(holders[p]) <= Limit[p]
    BY <1>1 DEF DispInv, DispTypeOK
  <2>2. /\ IsFiniteSet(holders[p]) /\ Cardinality(holders[p]) \in Nat
        /\ IsFiniteSet(h) /\ Cardinality(h) \in Nat
    BY <2>1, FiniteCallers
  <2>3. Cardinality(h) <= Cardinality(holders[p]) BY <2>2, FS_Subset
  <2>4. Limit[p] \in Nat BY <1>1, DispatcherAssumption
  <2>5. QED BY <2>1, <2>2, <2>3, <2>4
<1>13. ASSUME NEW r \in Provider
       PROVE  /\ depth'[r] \in Nat
              /\ depth'[r] >= Cardinality({d \in Caller : On(calls[d], r)})
  <2> DEFINE users == {d \in Caller : Uses(d, r)}
             after == {d \in Caller : On(calls[d], r)}
  <2>1. /\ depth \in [Provider -> Nat] /\ depth[r] \in Nat
        /\ depth[r] >= Cardinality(users)
    BY DEF DispInv, DispTypeOK, DepthCovers
  <2>2. \A d \in Caller : On(calls[d], r) <=> d # c /\ Uses(d, r)
    BY <1>5, <1>7 DEF On, Uses
  <2>3. after = users \ {c} BY <2>2
  <2>4. /\ IsFiniteSet(users) /\ Cardinality(users) \in Nat
        /\ IsFiniteSet(after) /\ Cardinality(after) \in Nat
    BY FiniteCallers
  <2>5. Cardinality(after) = IF c \in users THEN Cardinality(users) - 1
                             ELSE Cardinality(users)
    BY <2>3, <2>4, FS_RemoveElement
  <2>6. CASE depth'[r] = depth[r] BY <2>1, <2>4, <2>5, <2>6
  <2>7. CASE r = p /\ depth'[r] = depth[r] - 1
    <3>1. c \in users BY <1>6, <2>7
    <3>2. QED BY <2>1, <2>4, <2>5, <2>7, <3>1
  <2>8. QED BY <1>1, <1>3, <2>1, <2>6, <2>7
<1>14. depth' \in [Provider -> Nat]
  BY <1>1, <1>3, <1>13 DEF DispInv, DispTypeOK
<1>15. DispInv' /\ Follows(call', calls)
  BY <1>1, <1>2, <1>5, <1>9, <1>10, <1>11, <1>12, <1>13, <1>14, GrantedKeeps
<1>16. QED BY <1>15 DEF calls

-----------------------------------------------------------------------------
(* The steps that leave a provider *)

LEMMA Slot ==
  ASSUME DispInv, NEW c \in Caller, call[c].at \in OnSlot
  PROVE  /\ call[c] \in CallState
         /\ call[c].order # <<>>
         /\ Head(call[c].order) \in Provider
         /\ Tail(call[c].order) \in Seq(Provider)
<1>1. call[c] \in CallState /\ call[c].order # <<>>
  BY DEF DispInv, DispTypeOK, Ordered
<1>2. QED BY <1>1, HeadTailProperties DEF CallState

(* A call that is served is in no line. *)
LEMMA NotInLine ==
  ASSUME DispInv, NEW c \in Caller, call[c].at \in OnSlot, call[c].at # "wait",
         NEW q, q = queue[Head(call[c].order)]
  PROVE  /\ q \in Seq(Caller)
         /\ \A i, j \in 1..Len(q) : q[i] = q[j] => i = j
         /\ \A d \in Caller : (\E i \in 1..Len(q) : q[i] = d)
              <=> /\ d # c
                  /\ \E i \in 1..Len(queue[Head(call[c].order)]) :
                       queue[Head(call[c].order)][i] = d
<1> DEFINE p == Head(call[c].order)
<1>1. p \in Provider BY Slot
<1>2. Matched(call, p, holders[p], q) BY <1>1 DEF DispInv
<1>3. ~Waits(call[c], p) BY DEF Waits
<1>4. ~\E i \in 1..Len(q) : q[i] = c BY <1>2, <1>3 DEF Matched
<1>5. q \in Seq(Caller) BY <1>1 DEF DispInv, DispTypeOK
<1> HIDE DEF p
<1>6. \A i, j \in 1..Len(q) : q[i] = q[j] => i = j BY <1>2 DEF Matched
<1>7. QED BY <1>4, <1>5, <1>6

LEMMA ReleaseKeeps ==
  ASSUME DispInv, NEW c \in Caller, call[c].at = "chat",
         NEW x \in CallState, x.at \notin OnSlot, Ordered(x),
         Release(Head(call[c].order), c, [call EXCEPT ![c] = x]),
         pinned' \in [Name -> Provider \cup {None}]
  PROVE  DispInv' /\ Follows(call', [call EXCEPT ![c] = x])
<1> DEFINE p == Head(call[c].order)
<1>1. /\ depth' = [depth EXCEPT ![p] = @ - 1]
      /\ Grant(p, holders[p] \ {c}, queue[p], 1, [call EXCEPT ![c] = x])
  BY DEF Release
<1>2. call[c].at \in OnSlot /\ call[c].at # "wait" BY DEF OnSlot
<1>3. /\ queue[p] \in Seq(Caller)
      /\ \A i, j \in 1..Len(queue[p]) : queue[p][i] = queue[p][j] => i = j
      /\ \A d \in Caller : (\E i \in 1..Len(queue[p]) : queue[p][i] = d)
           <=> d # c /\ \E i \in 1..Len(queue[p]) : queue[p][i] = d
  BY <1>2, NotInLine
<1>4. QED BY <1>1, <1>2, <1>3, LeaveKeeps

LEMMA ServedKeeps ==
  ASSUME DispInv, NEW c \in Caller, Served(c), call[c].by \in Name
  PROVE  DispInv' /\ Follows(call', call)
<1> DEFINE x == [call[c] EXCEPT !.at = "ok", !.order = <<>>]
<1>1. call \in [Caller -> CallState] /\ call[c].at = "chat"
  BY DEF DispInv, DispTypeOK, Served
<1>2. call[c] \in CallState /\ Head(call[c].order) \in Provider
  BY <1>1, Slot DEF OnSlot
<1>3. x \in CallState /\ x.at = "ok" /\ x.by = call[c].by
  BY <1>2, <<>> \in Seq(Provider) DEF CallState
<1>4. [call EXCEPT ![c].at = "ok", ![c].order = <<>>] = [call EXCEPT ![c] = x]
  BY <1>1
<1>5. Release(Head(call[c].order), c, [call EXCEPT ![c] = x])
  BY <1>4 DEF Served
<1>6. pinned' \in [Name -> Provider \cup {None}]
  BY <1>2 DEF Served, DispInv, DispTypeOK
<1>7. x.at \notin OnSlot /\ Ordered(x) BY <1>3 DEF OnSlot, Ordered
<1> HIDE DEF x
<1>8. DispInv' /\ Follows(call', [call EXCEPT ![c] = x])
  BY <1>1, <1>3, <1>5, <1>6, <1>7, ReleaseKeeps
<1>9. QED BY <1>1, <1>3, <1>8 DEF Follows

LEMMA FailedKeeps ==
  ASSUME DispInv, NEW c \in Caller, Failed(c)
  PROVE  DispInv' /\ Follows(call', call)
<1> DEFINE rest == Tail(call[c].order)
           where == IF rest = <<>> THEN "error" ELSE "try"
           x == [call[c] EXCEPT !.at = where, !.order = rest]
<1>1. call \in [Caller -> CallState] /\ call[c].at = "chat"
  BY DEF DispInv, DispTypeOK, Failed
<1>2. call[c] \in CallState /\ rest \in Seq(Provider)
  BY <1>1, Slot DEF OnSlot
<1>3. where \in {"error", "try"} /\ (where = "try" => rest # <<>>) OBVIOUS
<1>4. Release(Head(call[c].order), c,
              [call EXCEPT ![c].at = where, ![c].order = rest])
  BY DEF Failed
<1> HIDE DEF where, rest
<1>5. x \in CallState /\ x.at = where /\ x.order = rest /\ x.by = call[c].by
  BY <1>2, <1>3 DEF CallState
<1>6. [call EXCEPT ![c].at = where, ![c].order = rest] = [call EXCEPT ![c] = x]
  BY <1>1
<1>7. Release(Head(call[c].order), c, [call EXCEPT ![c] = x]) BY <1>4, <1>6
<1>8. pinned' \in [Name -> Provider \cup {None}]
  BY DEF Failed, DispInv, DispTypeOK
<1>9. x.at \notin OnSlot /\ Ordered(x) BY <1>3, <1>5 DEF OnSlot, Ordered
<1> HIDE DEF x
<1>10. DispInv' /\ Follows(call', [call EXCEPT ![c] = x])
  BY <1>1, <1>5, <1>7, <1>8, <1>9, ReleaseKeeps
<1>11. QED BY <1>1, <1>3, <1>5, <1>10 DEF Follows

LEMMA NoCallProperties ==
  NoCall \in CallState /\ NoCall.at = "none" /\ NoCall.at \notin OnSlot
    /\ Ordered(NoCall)
BY DEF NoCall, CallState, OnSlot, Ordered

LEMMA CutKeeps ==
  ASSUME DispInv, NEW c \in Caller, Cut(c)
  PROVE  DispInv' /\ Follows(call', [call EXCEPT ![c] = NoCall])
<1>1. pinned' = pinned /\ pinned \in [Name -> Provider \cup {None}]
  BY DEF Cut, CutBefore, CutWaiting, CutChat, DispInv, DispTypeOK
<1>2. CASE CutBefore(c)
  <2>1. call[c].at \notin OnSlot BY <1>2 DEF CutBefore, OnSlot
  <2>2. DispInv' BY <1>1, <1>2, <2>1, NoCallProperties, AwayFromSlots DEF CutBefore
  <2>3. QED BY <1>2, <2>2 DEF CutBefore, Follows
<1>3. CASE CutChat(c)
  <2>1. /\ call[c].at = "chat"
        /\ Release(Head(call[c].order), c, [call EXCEPT ![c] = NoCall])
    BY <1>3 DEF CutChat
  <2>2. QED BY <1>1, <2>1, NoCallProperties, ReleaseKeeps
<1>4. CASE CutWaiting(c)
  <2> DEFINE p == Head(call[c].order)
             line == Without(queue[p], c)
  <2>1. /\ call[c].at \in OnSlot /\ depth' = depth
        /\ Grant(p, holders[p] \ {c}, line, Len(line), [call EXCEPT ![c] = NoCall])
    BY <1>4 DEF CutWaiting, OnSlot
  <2>2. p \in Provider BY <2>1, Slot
  <2>3. /\ queue[p] \in Seq(Caller)
        /\ \A i, j \in 1..Len(queue[p]) : queue[p][i] = queue[p][j] => i = j
    BY <2>2 DEF DispInv, DispTypeOK, Matched
  <2>4. /\ line \in Seq(Caller)
        /\ \A i, j \in 1..Len(line) : line[i] = line[j] => i = j
        /\ \A d \in Caller : (\E i \in 1..Len(line) : line[i] = d)
             <=> d # c /\ \E i \in 1..Len(queue[p]) : queue[p][i] = d
    BY <2>3, WithoutProperties
  <2>5. Len(line) \in Nat BY <2>4, LenProperties
  <2> HIDE DEF line
  <2>6. QED BY <1>1, <2>1, <2>4, <2>5, NoCallProperties, LeaveKeeps
<1>5. QED BY <1>2, <1>3, <1>4 DEF Cut

(* Every step of the dispatcher. *)
LEMMA CallStepKeeps ==
  ASSUME DispInv, NEW c \in Caller, call[c].at # "none" => call[c].by \in Name,
         CallStep(c)
  PROVE  DispInv' /\ Follows(call', call)
<1>1. call \in [Caller -> CallState] /\ call[c] \in CallState
      /\ pinned \in [Name -> Provider \cup {None}]
  BY DEF DispInv, DispTypeOK
<1>2. CASE Route(c)
  <2>1. PICK candidates \in (SUBSET Provider) \ {{}} :
          \E o \in Orders(call[c].by, candidates) :
            call' = [call EXCEPT ![c].at = "try", ![c].order = o]
    BY <1>2 DEF Route
  <2>2. PICK o \in Orders(call[c].by, candidates) :
          call' = [call EXCEPT ![c].at = "try", ![c].order = o]
    BY <2>1
  <2>3. /\ IsFiniteSet(candidates) /\ Cardinality(candidates) \in Nat \ {0}
    <3>1. IsFiniteSet(candidates)
      BY DispatcherAssumption, FS_Subset
    <3>2. Cardinality(candidates) \in Nat BY <3>1, FS_CardinalityType
    <3>3. Cardinality(candidates) # 0 BY <3>1, FS_EmptySet
    <3>4. QED BY <3>1, <3>2, <3>3
  <2>4. o \in [1..Cardinality(candidates) -> candidates] BY DEF Orders
  <2>5. o \in Seq(Provider) /\ o # <<>>
    <3>1. o \in Seq(candidates) BY <2>3, <2>4
    <3>2. Len(o) = Cardinality(candidates) BY <2>3, <2>4
    <3>3. QED BY <2>1, <2>3, <3>1, <3>2
  <2> DEFINE x == [call[c] EXCEPT !.at = "try", !.order = o]
  <2>6. x \in CallState /\ x.at = "try" /\ x.order = o /\ x.by = call[c].by
    BY <1>1, <2>5 DEF CallState
  <2>7. call' = [call EXCEPT ![c] = x] BY <1>1, <2>2
  <2>8. x.at \notin OnSlot /\ Ordered(x) BY <2>5, <2>6 DEF OnSlot, Ordered
  <2>9. call[c].at \notin OnSlot BY <1>2 DEF Route, OnSlot
  <2> HIDE DEF x
  <2>10. DispInv' BY <1>1, <1>2, <2>6, <2>7, <2>8, <2>9, AwayFromSlots DEF Route
  <2>11. call[c].at # "none" BY <1>2 DEF Route
  <2>12. QED BY <1>1, <2>6, <2>7, <2>10, <2>11 DEF Follows
<1>3. CASE RouteFails(c)
  <2> DEFINE x == [call[c] EXCEPT !.at = "error", !.order = <<>>]
  <2>1. x \in CallState /\ x.at = "error" /\ x.by = call[c].by
    BY <1>1, <<>> \in Seq(Provider) DEF CallState
  <2>2. call' = [call EXCEPT ![c] = x] BY <1>1, <1>3 DEF RouteFails
  <2>3. x.at \notin OnSlot /\ Ordered(x) BY <2>1 DEF OnSlot, Ordered
  <2>4. call[c].at \notin OnSlot BY <1>3 DEF RouteFails, OnSlot
  <2> HIDE DEF x
  <2>5. DispInv' BY <1>1, <1>3, <2>1, <2>2, <2>3, <2>4, AwayFromSlots DEF RouteFails
  <2>6. call[c].at # "none" BY <1>3 DEF RouteFails
  <2>7. QED BY <1>1, <2>1, <2>2, <2>5, <2>6 DEF Follows
<1>4. CASE Acquire(c) BY <1>4, AcquireKeeps
<1>5. CASE Resume(c) BY <1>5, ResumeKeeps
<1>6. CASE Served(c)
  <2>1. call[c].at = "chat" BY <1>6 DEF Served
  <2>2. QED BY <1>6, <2>1, ServedKeeps
<1>7. CASE Failed(c) BY <1>7, FailedKeeps
<1>8. QED BY <1>2, <1>3, <1>4, <1>5, <1>6, <1>7 DEF CallStep

LEMMA InitDispInv == ASSUME DispInit PROVE DispInv
<1>1. DispTypeOK BY DEF DispInit, DispTypeOK, NoCall, CallState
<1>2. \A c \in Caller : call[c] = NoCall /\ call[c].at = "none"
  BY NoCallProperties DEF DispInit
<1>3. \A c \in Caller : Ordered(call[c]) BY <1>2, NoCallProperties
<1>4. \A c \in Caller, p \in Provider :
        ~Has(call[c], p) /\ ~Waits(call[c], p) /\ ~Uses(c, p)
  BY <1>2 DEF Has, Waits, Uses, OnSlot
<1>5. \A p \in Provider :
        holders[p] = {} /\ queue[p] = <<>> /\ Len(queue[p]) = 0 /\ depth[p] = 0
  BY DEF DispInit
<1>6. ASSUME NEW p \in Provider PROVE Matched(call, p, holders[p], queue[p])
  BY <1>4, <1>5 DEF Matched
<1>7. ASSUME NEW p \in Provider
      PROVE  Cardinality(holders[p]) <= Limit[p]
             /\ depth[p] >= Cardinality({c \in Caller : Uses(c, p)})
  <2>1. {c \in Caller : Uses(c, p)} = {} BY <1>4
  <2>2. Cardinality({}) = 0 BY FS_EmptySet
  <2>3. Limit[p] \in Nat BY DispatcherAssumption
  <2>4. Cardinality(holders[p]) = 0 /\ depth[p] = 0 BY <1>5, <2>2
  <2>5. Cardinality({c \in Caller : Uses(c, p)}) = 0 BY <2>1, <2>2
  <2>6. QED BY <2>3, <2>4, <2>5
<1>8. QED
  BY <1>1, <1>3, <1>5, <1>6, <1>7 DEF DispInv, NobodyForgotten, DepthCovers

-----------------------------------------------------------------------------
(* The order of the line *)

(* A line is served in its order: nobody is handed a permit while another  *)
(* call, before it in the line, goes on waiting, and the calls that remain *)
(* keep their order, also when a cancelled one is taken from between them. *)
FirstComeFirstServed ==
  \A p \in Provider : \A i, j \in DOMAIN queue[p] : i < j =>
    /\ call'[queue[p][j]].at = "woken" => call'[queue[p][i]].at # "wait"
    /\ \A m, n \in DOMAIN queue'[p] :
         queue'[p][m] = queue[p][i] /\ queue'[p][n] = queue[p][j] => m < n

(* The line q has what line has but c, in the same order.                  *)
InOrder(q, line, c) ==
  \A i, j \in 1..Len(line) : i < j /\ line[i] # c /\ line[j] # c =>
    \E m, n \in 1..Len(q) : m < n /\ q[m] = line[i] /\ q[n] = line[j]

(* q is the line that is left when c, if it stands in it, is taken out.    *)
LineWithout(q, line, c) ==
  /\ \A i, j \in 1..Len(q) : q[i] = q[j] => i = j
  /\ \A d \in Caller : (\E i \in 1..Len(q) : q[i] = d)
       <=> d # c /\ \E i \in 1..Len(line) : line[i] = d
  /\ InOrder(q, line, c)

LEMMA WithoutInOrder ==
  ASSUME NEW q \in Seq(Caller), NEW c \in Caller,
         \A i, j \in 1..Len(q) : q[i] = q[j] => i = j
  PROVE  InOrder(Without(q, c), q, c)
<1>0. Len(q) \in Nat /\ DOMAIN q = 1..Len(q) BY LenProperties
<1>1. CASE ~\E i \in DOMAIN q : q[i] = c
  <2>1. Without(q, c) = q BY <1>1 DEF Without
  <2>2. QED BY <2>1 DEF InOrder
<1>2. CASE \E i \in DOMAIN q : q[i] = c
  <2>1. PICK k \in 1..Len(q) : q[k] = c BY <1>0, <1>2
  <2> DEFINE w == Without(q, c)
  <2>2. /\ Len(w) = Len(q) - 1
        /\ \A i \in 1..(Len(q) - 1) : w[i] = IF i < k THEN q[i] ELSE q[i + 1]
    BY <2>1, WithoutAt
  <2> HIDE DEF w
  <2>3. ASSUME NEW i \in 1..Len(q), i # k
        PROVE  LET m == IF i < k THEN i ELSE i - 1 IN
               m \in 1..Len(w) /\ w[m] = q[i]
    BY <1>0, <2>1, <2>2, <2>3
  <2>4. ASSUME NEW i \in 1..Len(q), NEW j \in 1..Len(q), i < j,
               q[i] # c, q[j] # c
        PROVE  \E m, n \in 1..Len(w) : m < n /\ w[m] = q[i] /\ w[n] = q[j]
    <3> DEFINE m == IF i < k THEN i ELSE i - 1
               n == IF j < k THEN j ELSE j - 1
    <3>1. i # k /\ j # k BY <2>1, <2>4
    <3>2. m < n BY <1>0, <2>1, <2>4, <3>1
    <3>3. m \in 1..Len(w) /\ w[m] = q[i] BY <2>3, <3>1
    <3>4. n \in 1..Len(w) /\ w[n] = q[j] BY <2>3, <3>1
    <3> HIDE DEF m, n
    <3>5. QED BY <3>2, <3>3, <3>4
  <2>5. QED BY <2>4 DEF InOrder, w
<1>3. QED BY <1>1, <1>2

(* Grant() serves a prefix of the line and leaves the rest of it.          *)
LEMMA GrantServesPrefix ==
  ASSUME NEW p \in Provider, NEW calls \in [Caller -> CallState],
         NEW h, NEW q \in Seq(Caller), NEW most,
         queue \in [Provider -> Seq(Caller)],
         \A i, j \in 1..Len(q) : q[i] = q[j] => i = j,
         Grant(p, h, q, most, calls)
  PROVE  \E k \in 0..Len(q) :
           /\ \A i \in 1..Len(q) :
                call'[q[i]].at = IF i <= k THEN "woken" ELSE calls[q[i]].at
           /\ \A c \in Caller : (~\E i \in 1..Len(q) : q[i] = c)
                => call'[c] = calls[c]
           /\ DOMAIN queue'[p] = 1..(Len(q) - k)
           /\ \A m \in 1..(Len(q) - k) : queue'[p][m] = q[k + m]
           /\ \A r \in Provider \ {p} : queue'[r] = queue[r]
<1>0. Len(q) \in Nat /\ \A i \in 1..Len(q) : q[i] \in Caller
  BY LenProperties, ElementOfSeq
<1>1. PICK k \in 0..Len(q) :
        LET served == {q[i] : i \in 1..k} IN
        /\ queue' = [queue EXCEPT ![p] = SubSeq(q, k + 1, Len(q))]
        /\ call' = [c \in Caller |->
                      IF c \in served THEN [calls[c] EXCEPT !.at = "woken"]
                      ELSE calls[c]]
  BY DEF Grant
<1> DEFINE served == {q[i] : i \in 1..k}
           rest == SubSeq(q, k + 1, Len(q))
<1>2. k \in Nat /\ k <= Len(q) BY <1>0
<1>3. /\ rest \in Seq(Caller)
      /\ Len(rest) = Len(q) - k
      /\ \A i \in 1..(Len(q) - k) : rest[i] = q[k + i]
  BY RestOfLine
<1>4. DOMAIN rest = 1..(Len(q) - k) BY <1>3, LenProperties
<1>5. \A c \in Caller : c \in served <=> \E i \in 1..k : q[i] = c OBVIOUS
<1>6. \A i \in 1..Len(q) : q[i] \in served <=> i <= k
  BY <1>0, <1>2, <1>5
<1> HIDE DEF served, rest
<1>7. /\ queue' = [queue EXCEPT ![p] = rest]
      /\ call' = [c \in Caller |->
                    IF c \in served THEN [calls[c] EXCEPT !.at = "woken"]
                    ELSE calls[c]]
  BY <1>1 DEF served, rest
<1>8. \A c \in Caller :
        /\ c \in served => call'[c].at = "woken"
        /\ c \notin served => call'[c] = calls[c]
  <2>1. \A c \in Caller : [calls[c] EXCEPT !.at = "woken"].at = "woken"
    BY DEF CallState
  <2>2. QED BY <1>7, <2>1
<1>9. \A i \in 1..Len(q) :
        call'[q[i]].at = IF i <= k THEN "woken" ELSE calls[q[i]].at
  BY <1>0, <1>6, <1>8
<1>10. \A c \in Caller : (~\E i \in 1..Len(q) : q[i] = c)
         => call'[c] = calls[c]
  BY <1>0, <1>2, <1>5, <1>8
<1>11. queue'[p] = rest /\ \A r \in Provider \ {p} : queue'[r] = queue[r]
  BY <1>7
<1>12. QED BY <1>3, <1>4, <1>9, <1>10, <1>11

(* A call c changes its state to one that is not in line, and permits of   *)
(* its provider go to the line without it.                                 *)
LEMMA GrantInOrder ==
  ASSUME DispInv, NEW c \in Caller, NEW p \in Provider,
         call[c].at \in OnSlot, Head(call[c].order) = p,
         NEW x \in CallState, x.at \notin {"wait", "woken"},
         NEW h, NEW q \in Seq(Caller), NEW most,
         LineWithout(q, queue[p], c),
         Grant(p, h, q, most, [call EXCEPT ![c] = x])
  PROVE  FirstComeFirstServed
<1> DEFINE calls == [call EXCEPT ![c] = x]
<1>0. /\ \A i, j \in 1..Len(q) : q[i] = q[j] => i = j
      /\ \A d \in Caller : (\E i \in 1..Len(q) : q[i] = d)
           <=> d # c /\ \E i \in 1..Len(queue[p]) : queue[p][i] = d
      /\ InOrder(q, queue[p], c)
  BY DEF LineWithout
<1>1. /\ call \in [Caller -> CallState] /\ queue \in [Provider -> Seq(Caller)]
      /\ \A r \in Provider : Matched(call, r, holders[r], queue[r])
  BY DEF DispInv, DispTypeOK
<1>2. /\ calls \in [Caller -> CallState] /\ calls[c] = x
      /\ \A d \in Caller : d # c => calls[d] = call[d]
  BY <1>1
<1>3. Grant(p, h, q, most, calls) OBVIOUS
<1> HIDE DEF calls
<1>4. PICK k \in 0..Len(q) :
        /\ \A i \in 1..Len(q) :
             call'[q[i]].at = IF i <= k THEN "woken" ELSE calls[q[i]].at
        /\ \A d \in Caller : (~\E i \in 1..Len(q) : q[i] = d)
             => call'[d] = calls[d]
        /\ DOMAIN queue'[p] = 1..(Len(q) - k)
        /\ \A m \in 1..(Len(q) - k) : queue'[p][m] = q[k + m]
        /\ \A r \in Provider \ {p} : queue'[r] = queue[r]
  BY <1>0, <1>1, <1>2, <1>3, GrantServesPrefix
<1>5. Len(q) \in Nat BY LenProperties
<1>6. call'[c] = x BY <1>0, <1>2, <1>4
<1>7. ASSUME NEW r \in Provider, NEW i \in DOMAIN queue[r],
             NEW j \in DOMAIN queue[r], i < j
      PROVE  /\ call'[queue[r][j]].at = "woken"
                  => call'[queue[r][i]].at # "wait"
             /\ \A m, n \in DOMAIN queue'[r] :
                  queue'[r][m] = queue[r][i] /\ queue'[r][n] = queue[r][j]
                    => m < n
  <2>1. /\ i \in 1..Len(queue[r]) /\ j \in 1..Len(queue[r])
        /\ Len(queue[r]) \in Nat /\ DOMAIN queue[r] = 1..Len(queue[r])
        /\ queue[r][i] \in Caller /\ queue[r][j] \in Caller
    BY <1>1, LenProperties, ElementOfSeq
  <2>2. /\ Waits(call[queue[r][i]], r) /\ Waits(call[queue[r][j]], r)
        /\ queue[r][i] # queue[r][j]
        /\ \A m, n \in 1..Len(queue[r]) : queue[r][m] = queue[r][n] => m = n
    BY <1>1, <1>7, <2>1 DEF Matched
  <2>3. CASE r # p
    <3>1. ~Waits(call[queue[r][j]], p) BY <2>2, <2>3 DEF Waits
    <3>2. \A m \in 1..Len(queue[p]) : queue[p][m] # queue[r][j]
      BY <1>1, <2>1, <3>1 DEF Matched
    <3>3. ~\E m \in 1..Len(q) : q[m] = queue[r][j] BY <1>0, <2>1, <3>2
    <3>4. queue[r][j] # c BY <2>2, <2>3 DEF Waits
    <3>5. call'[queue[r][j]] = call[queue[r][j]]
      BY <1>2, <1>4, <2>1, <3>3, <3>4
    <3>6. call'[queue[r][j]].at # "woken" BY <2>2, <3>5 DEF Waits
    <3>7. queue'[r] = queue[r] BY <1>4, <2>3
    <3>8. QED BY <1>7, <2>1, <2>2, <3>6, <3>7
  <2>4. CASE r = p /\ c \in {queue[p][i], queue[p][j]}
    <3>1. ~\E m \in 1..Len(q) : q[m] = c BY <1>0
    <3>2. \A m \in DOMAIN queue'[p] : queue'[p][m] # c
      <4>1. SUFFICES ASSUME NEW m \in DOMAIN queue'[p], queue'[p][m] = c
                     PROVE  FALSE
        OBVIOUS
      <4>2. m \in 1..(Len(q) - k) BY <1>4, <4>1
      <4>3. queue'[p][m] = q[k + m] BY <1>4, <4>2
      <4>4. k + m \in 1..Len(q) BY <1>5, <4>2
      <4>5. q[k + m] = c BY <4>1, <4>3
      <4>6. QED BY <3>1, <4>4, <4>5
    <3>3. call'[c].at \notin {"wait", "woken"} BY <1>6
    <3>4. QED BY <2>4, <3>2, <3>3
  <2>5. CASE r = p /\ c \notin {queue[p][i], queue[p][j]}
    <3>1. PICK m, n \in 1..Len(q) :
            m < n /\ q[m] = queue[p][i] /\ q[n] = queue[p][j]
      BY <1>0, <1>7, <2>1, <2>5 DEF InOrder
    <3>2. calls[queue[p][j]].at = "wait"
      BY <1>2, <2>1, <2>2, <2>5 DEF Waits
    <3>3. call'[queue[p][j]].at = "woken" => n <= k
      BY <1>4, <3>1, <3>2
    <3>4. n <= k => call'[queue[p][i]].at = "woken"
      <4>1. n <= k => m <= k BY <1>5, <3>1
      <4>2. QED BY <1>4, <3>1, <4>1
    <3>5. ASSUME NEW a \in DOMAIN queue'[p], NEW b \in DOMAIN queue'[p],
                 queue'[p][a] = queue[p][i], queue'[p][b] = queue[p][j]
          PROVE  a < b
      <4>1. /\ a \in 1..(Len(q) - k) /\ b \in 1..(Len(q) - k)
            /\ q[k + a] = q[m] /\ q[k + b] = q[n]
        BY <1>4, <3>1, <3>5
      <4>2. k + a \in 1..Len(q) /\ k + b \in 1..Len(q) BY <1>5, <4>1
      <4>3. k + a = m /\ k + b = n BY <1>0, <4>1, <4>2
      <4>4. QED BY <1>5, <3>1, <4>1, <4>3
    <3>6. QED BY <2>5, <3>3, <3>4, <3>5
  <2>6. QED BY <2>3, <2>4, <2>5
<1>8. QED BY <1>7 DEF FirstComeFirstServed

(* A call that comes to a line, or to none, and a permit given to nobody.  *)
LEMMA QuietInOrder ==
  ASSUME DispInv, NEW c \in Caller, call[c].at # "wait",
         \A d \in Caller : d # c => call'[d] = call[d],
         \A p \in Provider : queue'[p] \in {queue[p], Append(queue[p], c)}
  PROVE  FirstComeFirstServed
<1>1. ASSUME NEW p \in Provider, NEW i \in DOMAIN queue[p],
             NEW j \in DOMAIN queue[p], i < j
      PROVE  /\ call'[queue[p][j]].at # "woken"
             /\ \A m, n \in DOMAIN queue'[p] :
                  queue'[p][m] = queue[p][i] /\ queue'[p][n] = queue[p][j]
                    => m < n
  <2>1. /\ queue[p] \in Seq(Caller)
        /\ Matched(call, p, holders[p], queue[p])
    BY DEF DispInv, DispTypeOK
  <2>2. /\ i \in 1..Len(queue[p]) /\ j \in 1..Len(queue[p])
        /\ Len(queue[p]) \in Nat /\ DOMAIN queue[p] = 1..Len(queue[p])
        /\ \A m \in 1..Len(queue[p]) : queue[p][m] \in Caller
    BY <2>1, LenProperties, ElementOfSeq
  <2>3. \A m \in 1..Len(queue[p]) :
          queue[p][m] # c /\ call[queue[p][m]].at = "wait"
    BY <2>1, <2>2 DEF Matched, Waits
  <2>4. call'[queue[p][j]].at # "woken" BY <2>2, <2>3
  <2>5. \A m \in DOMAIN queue'[p] :
          \/ m \in 1..Len(queue[p]) /\ queue'[p][m] = queue[p][m]
          \/ queue'[p][m] = c
    <3>1. CASE queue'[p] = queue[p] BY <2>2, <3>1
    <3>2. CASE queue'[p] = Append(queue[p], c)
      <4>1. /\ Append(queue[p], c) \in Seq(Caller)
            /\ Len(Append(queue[p], c)) = Len(queue[p]) + 1
            /\ \A m \in 1..Len(queue[p]) : Append(queue[p], c)[m] = queue[p][m]
            /\ Append(queue[p], c)[Len(queue[p]) + 1] = c
        BY <2>1, <2>2
      <4>2. DOMAIN queue'[p] = 1..(Len(queue[p]) + 1)
        BY <3>2, <4>1, LenProperties
      <4>3. QED BY <2>2, <3>2, <4>1, <4>2
    <3>3. QED BY <3>1, <3>2
  <2>6. QED BY <1>1, <2>1, <2>2, <2>3, <2>4, <2>5 DEF Matched
<1>2. QED BY <1>1 DEF FirstComeFirstServed

(* Permits of a provider a call is served by, or leaves, go to its line.   *)
LEMMA ServedInOrder ==
  ASSUME DispInv, NEW c \in Caller, call[c].at \in {"woken", "chat"},
         NEW p, p = Head(call[c].order),
         NEW x \in CallState, x.at \notin {"wait", "woken"},
         NEW h, NEW most, Grant(p, h, queue[p], most, [call EXCEPT ![c] = x])
  PROVE  FirstComeFirstServed
<1>1. call[c].at \in OnSlot /\ call[c].at # "wait" BY DEF OnSlot
<1>2. p \in Provider BY <1>1, Slot
<1>3. /\ queue[p] \in Seq(Caller)
      /\ \A i, j \in 1..Len(queue[p]) : queue[p][i] = queue[p][j] => i = j
      /\ \A d \in Caller : (\E i \in 1..Len(queue[p]) : queue[p][i] = d)
           <=> d # c /\ \E i \in 1..Len(queue[p]) : queue[p][i] = d
  BY <1>1, NotInLine
<1>4. InOrder(queue[p], queue[p], c) BY DEF InOrder
<1>5. LineWithout(queue[p], queue[p], c) BY <1>3, <1>4 DEF LineWithout
<1>6. QED BY <1>1, <1>2, <1>3, <1>5, GrantInOrder

LEMMA CutInOrder ==
  ASSUME DispInv, NEW c \in Caller, Cut(c)
  PROVE  FirstComeFirstServed
<1>1. /\ call \in [Caller -> CallState] /\ queue \in [Provider -> Seq(Caller)]
      /\ NoCall \in CallState /\ NoCall.at \notin {"wait", "woken"}
  BY NoCallProperties DEF DispInv, DispTypeOK
<1>2. CASE CutBefore(c)
  <2>1. /\ call[c].at # "wait" /\ queue' = queue
        /\ \A d \in Caller : d # c => call'[d] = call[d]
    BY <1>1, <1>2 DEF CutBefore
  <2>2. QED BY <2>1, QuietInOrder
<1>3. CASE CutChat(c)
  <2> DEFINE p == Head(call[c].order)
  <2>1. /\ call[c].at = "chat"
        /\ Grant(p, holders[p] \ {c}, queue[p], 1, [call EXCEPT ![c] = NoCall])
    BY <1>3 DEF CutChat, Release
  <2> HIDE DEF p
  <2>2. QED BY <1>1, <2>1, ServedInOrder DEF p
<1>4. CASE CutWaiting(c)
  <2> DEFINE p == Head(call[c].order)
             line == Without(queue[p], c)
  <2>1. /\ call[c].at \in OnSlot
        /\ Grant(p, holders[p] \ {c}, line, Len(line),
                 [call EXCEPT ![c] = NoCall])
    BY <1>4 DEF CutWaiting, OnSlot
  <2>2. p \in Provider BY <2>1, Slot
  <2>3. /\ queue[p] \in Seq(Caller)
        /\ \A i, j \in 1..Len(queue[p]) : queue[p][i] = queue[p][j] => i = j
    BY <2>2 DEF DispInv, DispTypeOK, Matched
  <2>4. line \in Seq(Caller) /\ LineWithout(line, queue[p], c)
    BY <2>3, WithoutProperties, WithoutInOrder DEF LineWithout
  <2> DEFINE h == holders[p] \ {c}
             most == Len(line)
  <2>5. Grant(p, h, line, most, [call EXCEPT ![c] = NoCall]) BY <2>1
  <2>6. Head(call[c].order) = p OBVIOUS
  <2> HIDE DEF line, p, h, most
  <2>7. QED BY <1>1, <2>1, <2>2, <2>4, <2>5, <2>6, GrantInOrder
<1>5. QED BY <1>2, <1>3, <1>4 DEF Cut

LEMMA CallStepInOrder ==
  ASSUME DispInv, NEW c \in Caller, CallStep(c)
  PROVE  FirstComeFirstServed
<1>1. /\ call \in [Caller -> CallState] /\ queue \in [Provider -> Seq(Caller)]
      /\ call[c] \in CallState
  BY DEF DispInv, DispTypeOK
<1>2. CASE Route(c) \/ RouteFails(c)
  <2>1. /\ call[c].at # "wait" /\ queue' = queue
        /\ \A d \in Caller : d # c => call'[d] = call[d]
    BY <1>1, <1>2 DEF Route, RouteFails
  <2>2. QED BY <2>1, QuietInOrder
<1>3. CASE Acquire(c)
  <2>1. /\ call[c].at # "wait"
        /\ \A d \in Caller : d # c => call'[d] = call[d]
        /\ \A p \in Provider : queue'[p] \in {queue[p], Append(queue[p], c)}
    BY <1>1, <1>3 DEF Acquire, Set
  <2>2. QED BY <2>1, QuietInOrder
<1>4. CASE Resume(c)
  <2> DEFINE p == Head(call[c].order)
             x == [call[c] EXCEPT !.at = "chat"]
             most == Len(queue[p])
             h == holders[p]
  <2>1. call[c].at = "woken" BY <1>4 DEF Resume
  <2>2. x \in CallState /\ x.at = "chat" BY <1>1 DEF CallState, OnSlot
  <2>3. [call EXCEPT ![c].at = "chat"] = [call EXCEPT ![c] = x] BY <1>1
  <2>4. Grant(p, h, queue[p], most, [call EXCEPT ![c] = x])
    BY <1>4, <2>3 DEF Resume, Set
  <2> HIDE DEF p, x, most, h
  <2>5. QED BY <2>1, <2>2, <2>4, ServedInOrder DEF p
<1>5. CASE Served(c)
  <2> DEFINE p == Head(call[c].order)
             x == [call[c] EXCEPT !.at = "ok", !.order = <<>>]
             h == holders[p] \ {c}
  <2>1. call[c].at = "chat" BY <1>5 DEF Served
  <2>2. x \in CallState /\ x.at = "ok"
    BY <1>1, <<>> \in Seq(Provider) DEF CallState
  <2>3. [call EXCEPT ![c].at = "ok", ![c].order = <<>>] = [call EXCEPT ![c] = x]
    BY <1>1
  <2>4. Grant(p, h, queue[p], 1, [call EXCEPT ![c] = x])
    BY <1>5, <2>3 DEF Served, Release
  <2> HIDE DEF p, x, h
  <2>5. QED BY <2>1, <2>2, <2>4, ServedInOrder DEF p
<1>6. CASE Failed(c)
  <2> DEFINE p == Head(call[c].order)
             rest == Tail(call[c].order)
             where == IF rest = <<>> THEN "error" ELSE "try"
             x == [call[c] EXCEPT !.at = where, !.order = rest]
             h == holders[p] \ {c}
  <2>1. call[c].at = "chat" BY <1>6 DEF Failed
  <2>2. rest \in Seq(Provider) BY <2>1, Slot DEF OnSlot
  <2>3. where \in {"error", "try"} OBVIOUS
  <2>4. Grant(p, h, queue[p], 1, [call EXCEPT ![c].at = where, ![c].order = rest])
    BY <1>6 DEF Failed, Release
  <2> HIDE DEF where, rest, p, h
  <2>5. x \in CallState /\ x.at = where
    BY <1>1, <2>2, <2>3 DEF CallState
  <2>6. [call EXCEPT ![c].at = where, ![c].order = rest] = [call EXCEPT ![c] = x]
    BY <1>1
  <2>7. Grant(p, h, queue[p], 1, [call EXCEPT ![c] = x]) BY <2>4, <2>6
  <2> HIDE DEF x
  <2>8. QED BY <2>1, <2>3, <2>5, <2>7, ServedInOrder DEF p
<1>7. QED BY <1>2, <1>3, <1>4, <1>5, <1>6 DEF CallStep

=============================================================================
