---------------------- MODULE AbilityArbiterStepProofs ----------------------
(***************************************************************************)
(* Proofs about the walk over _actives and about preemption, for every     *)
(* table of abilities: the vector lists exactly the running abilities, no  *)
(* body runs twice in a tick although entries move under the index, nobody *)
(* is started in the tick that preempted it, and nobody stops but by its   *)
(* own end or something stronger.                                          *)
(***************************************************************************)
EXTENDS AbilityArbiterProofs

-----------------------------------------------------------------------------
(* _actives lists the running abilities.                                    *)

ActivesInv == LedgerInv /\ ActivesExact

\* The entry the walk stands on is running: stage 1 erases nothing stale.
LEMMA NothingStale ==
  ASSUME TypeOK, ActivesExact, TickNext
  PROVE  /\ cursor \in 1..Len(actives) /\ actives[cursor] \in active
         /\ phase' = "body" /\ cur' = actives[cursor] /\ ticked' = ticked \cup {actives[cursor]}
         /\ UNCHANGED << ledger, cursor, wants, tried, preempted >>
<1>1. cursor \in 1..Len(actives)
  BY DEF TickNext, TypeOK
<1>2. actives[cursor] \in active
  BY <1>1, LenProperties DEF ActivesExact, TypeOK
<1>3. QED BY <1>1, <1>2 DEF TickNext

\* _actives always lists exactly the running abilities, each once.
THEOREM ActivesInvariant == Spec => []ActivesInv
\* Whatever is removed from the running abilities and swap-popped from the
\* vector is gone from both.
<1>1. ASSUME TypeOK, ActivesExact, NEW a,
             active' = active \ {a}, actives' = SwapPop(actives, a)
      PROVE  ActivesExact'
  <2> USE <1>1
  <2>1. actives \in Seq(Ability) /\ Distinct(actives)
    BY DEF ActivesExact, Distinct, TypeOK
  <2>2. /\ {SwapPop(actives, a)[k] : k \in DOMAIN SwapPop(actives, a)}
             = {actives[k] : k \in DOMAIN actives} \ {a}
        /\ Distinct(SwapPop(actives, a))
    BY <2>1, SwapPopErases
  <2>3. active = {actives[k] : k \in DOMAIN actives}
    BY DEF ActivesExact
  <2>4. QED BY <2>2, <2>3 DEF ActivesExact, Distinct
\* An ability that was not running is listed once when it is appended.
<1>2. ASSUME TypeOK, ActivesExact, NEW a \in Ability, a \notin active,
             active' = active \cup {a}, actives' = Append(actives, a)
      PROVE  ActivesExact'
  <2> USE <1>2
  <2> DEFINE n == Len(actives)
  <2>1. n \in Nat /\ DOMAIN actives = 1..n /\ actives \in Seq(Ability)
    BY LenProperties DEF TypeOK
  <2>2. /\ DOMAIN actives' = 1..(n + 1)
        /\ \A k \in 1..n : actives'[k] = actives[k]
        /\ actives'[n + 1] = a
    BY <2>1, AppendProperties, LenProperties
  <2>3. \A k \in 1..n : actives[k] \in active
    BY <2>1 DEF ActivesExact
  <2>4. active' = {actives'[k] : k \in DOMAIN actives'}
    <3>1. ASSUME NEW x \in active' PROVE \E k \in 1..(n + 1) : actives'[k] = x
      <4>1. CASE x = a
        BY <2>1, <2>2, <4>1
      <4>2. CASE x # a
        <5>1. PICK k \in 1..n : actives[k] = x
          BY <2>1, <3>1, <4>2 DEF ActivesExact
        <5>2. k \in 1..(n + 1)
          BY <2>1
        <5>3. QED BY <2>2, <5>1, <5>2
      <4>3. QED BY <4>1, <4>2
    <3>2. ASSUME NEW k \in 1..(n + 1) PROVE actives'[k] \in active'
      <4>1. k \in 1..n \/ k = n + 1
        BY <2>1
      <4>2. QED BY <2>2, <2>3, <4>1
    <3>3. QED BY <2>2, <3>1, <3>2
  <2>5. ASSUME NEW j \in 1..(n + 1), NEW k \in 1..(n + 1), actives'[j] = actives'[k]
        PROVE  j = k
    <3>1. (j \in 1..n \/ j = n + 1) /\ (k \in 1..n \/ k = n + 1)
      BY <2>1
    <3>2. \A i \in 1..n : actives'[i] # a
      BY <2>2, <2>3
    <3>3. QED BY <2>1, <2>2, <2>5, <3>1, <3>2 DEF ActivesExact
  <2>6. QED BY <2>2, <2>4, <2>5 DEF ActivesExact
<1>3. ActivesInv /\ [Next]_vars => ActivesExact'
  <2> SUFFICES ASSUME ActivesInv, [Next]_vars PROVE ActivesExact'
    OBVIOUS
  <2>0. TypeOK /\ CurIsAbility /\ ActivesExact /\ ControlInv
    BY DEF ActivesInv, LedgerInv, TypeInv
  <2>a. ASSUME UNCHANGED << active, actives >> PROVE ActivesExact'
    BY <2>0, <2>a DEF ActivesExact
  <2>1. ASSUME NEW w \in SUBSET Ability, BeginTick(w) PROVE ActivesExact'
    BY <2>1, <2>a DEF BeginTick, ledger
  <2>2. CASE TickNext
    BY <2>0, <2>2, <2>a, NothingStale DEF ledger
  <2>3. ASSUME NEW r \in Resource, AcquireFree(r) PROVE ActivesExact'
    BY <2>3, <2>a DEF AcquireFree
  <2>4. ASSUME NEW r \in Resource, AcquireByPreempting(r) PROVE ActivesExact'
    BY <2>0, <2>4, <1>1 DEF AcquireByPreempting
  <2>5. ASSUME NEW r \in Resource, ReleaseScope(r) PROVE ActivesExact'
    BY <2>5, <2>a DEF ReleaseScope
  <2>6. ASSUME NEW ended \in BOOLEAN, FinishBody(ended) PROVE ActivesExact'
    <3>1. CASE ended
      BY <2>0, <2>6, <3>1, <1>1 DEF FinishBody, Unregister
    <3>2. CASE ~ended
      BY <2>6, <2>a, <3>2 DEF FinishBody
    <3>3. QED BY <3>1, <3>2
  <2>7. CASE EndStage1
    BY <2>7, <2>a DEF EndStage1, ledger
  <2>8. ASSUME NEW a \in Ability, TryCandidate(a) PROVE ActivesExact'
    BY <2>8, <2>a DEF TryCandidate, ledger
  <2>9. CASE CancelConflict
    <3>1. PICK r \in Conflicts : CancelAbility(owner[r])
      BY <2>9 DEF CancelConflict
    <3>2. QED BY <2>0, <3>1, <1>1 DEF CancelAbility, Unregister
  <2>10. CASE StartCandidate
    <3>1. cur \in Ability /\ cur \notin active
      BY <2>0, <2>10 DEF StartCandidate, CurIsAbility, ControlInv
    <3>2. ~ \E k \in DOMAIN actives : actives[k] = cur
      BY <2>0, <3>1 DEF ActivesExact
    <3>3. active' = active \cup {cur} /\ actives' = Append(actives, cur)
      BY <2>10, <3>2 DEF StartCandidate, Register
    <3>4. QED BY <2>0, <3>1, <3>3, <1>2
  <2>11. CASE EndTick
    BY <2>11, <2>a DEF EndTick, ledger
  <2>12. CASE UNCHANGED vars
    BY <2>12, <2>a DEF vars
  <2>13. QED BY <2>1, <2>2, <2>3, <2>4, <2>5, <2>6, <2>7, <2>8, <2>9, <2>10, <2>11, <2>12
          DEF Next, ScopeStep, TickStep
<1>4. Init => ActivesExact
  BY DEF Init, ActivesExact
<1>5. ActivesInv <=> LedgerInv /\ ActivesExact
  BY DEF ActivesInv
<1>6. QED BY <1>3, <1>4, <1>5, LedgerInvariant, PTL DEF Spec

\* The arbiter's tables, the vector and the scopes' beliefs always agree.
THEOREM TablesAlwaysAgree == Spec => []TablesAgree
<1>1. ActivesInv => TablesAgree
  BY DEF TablesAgree, ActivesInv, LedgerInv
<1>2. QED BY <1>1, ActivesInvariant, PTL

-----------------------------------------------------------------------------
(* No body runs twice in a tick.                                            *)

\* What the index leaves for later has not run yet.  While a body runs its own
\* ability still stands at the index, unless a preemption in the body has moved
\* it, and then nothing is left.
WalkInv ==
  /\ phase = "idle" => ticked = {}
  /\ phase = "ticking" => \A k \in DOMAIN actives : cursor <= k => actives[k] \notin ticked
  /\ phase = "body" =>
       /\ \A k \in DOMAIN actives : cursor < k => actives[k] \notin ticked
       /\ cursor \in DOMAIN actives => actives[cursor] = cur

TickInv == ActivesInv /\ WalkInv

\* No ability's body ever runs twice in one tick.
THEOREM NobodyTickedTwice == Spec => TickedOnce
\* When an entry is swap-popped, what stands behind the index was behind it
\* before, and the index keeps its entry unless that is the one removed.
<1>1. ASSUME NEW s \in Seq(Ability), Distinct(s), NEW a, NEW c \in Nat \ {0},
             \E k \in DOMAIN s : s[k] = a
      PROVE  LET t == SwapPop(s, a)
             IN /\ \A k \in DOMAIN t : c < k => \E j \in DOMAIN s : c < j /\ t[k] = s[j]
                /\ c \in DOMAIN t /\ s[c] # a => c \in DOMAIN s /\ t[c] = s[c]
                /\ c \in DOMAIN t /\ s[c] = a => \E j \in DOMAIN s : c < j /\ t[c] = s[j]
  <2> USE <1>1
  <2> DEFINE n == Len(s)  t == SwapPop(s, a)
  <2>1. n \in Nat /\ DOMAIN s = 1..n
    BY LenProperties
  <2>2. PICK p \in 1..n : s[p] = a
    BY <2>1
  <2>3. /\ Len(t) = n - 1
        /\ \A k \in 1..(n - 1) : t[k] = IF k = p THEN s[n] ELSE s[k]
    BY <2>2, SwapPopErases
  <2>4. DOMAIN t = 1..(n - 1)
    BY <2>3, SwapPopErases, LenProperties
  <2>5. n \in 1..n /\ \A k \in 1..(n - 1) : k \in 1..n /\ k < n
    BY <2>1, <2>2
  <2> HIDE DEF n, t
  <2>6. ASSUME NEW k \in DOMAIN t, c < k PROVE \E j \in DOMAIN s : c < j /\ t[k] = s[j]
    <3>1. CASE k = p
      <4>1. n \in DOMAIN s /\ c < n /\ t[k] = s[n]
        BY <2>1, <2>3, <2>4, <2>5, <2>6, <3>1
      <4>2. QED BY <4>1
    <3>2. CASE k # p
      <4>1. k \in DOMAIN s /\ t[k] = s[k]
        BY <2>1, <2>3, <2>4, <2>5, <3>2
      <4>2. QED BY <2>6, <4>1
    <3>3. QED BY <3>1, <3>2
  <2>7. ASSUME c \in DOMAIN t, s[c] # a PROVE c \in DOMAIN s /\ t[c] = s[c]
    BY <2>1, <2>2, <2>3, <2>4, <2>5, <2>7
  <2>8. ASSUME c \in DOMAIN t, s[c] = a PROVE \E j \in DOMAIN s : c < j /\ t[c] = s[j]
    <3>1. c = p
      BY <2>1, <2>2, <2>4, <2>5, <2>8 DEF Distinct
    <3>2. n \in DOMAIN s /\ c < n /\ t[c] = s[n]
      BY <2>1, <2>3, <2>4, <2>5, <2>8, <3>1
    <3>3. QED BY <3>2
  <2>9. QED BY <2>6, <2>7, <2>8 DEF t
\* The walk keeps its promise through removals at, before and behind it.
<1>2. TickInv /\ [Next]_vars => WalkInv'
  <2> SUFFICES ASSUME TickInv, [Next]_vars PROVE WalkInv'
    OBVIOUS
  <2>0. /\ TypeOK /\ CurIsAbility /\ ActivesExact /\ ControlInv /\ LedgerSound /\ WalkInv
        /\ actives \in Seq(Ability) /\ Distinct(actives) /\ cursor \in Nat \ {0}
    BY DEF ActivesExact, Distinct, TickInv, ActivesInv, LedgerInv, TypeInv, TypeOK
  <2>len. Len(actives) \in Nat /\ DOMAIN actives = 1..Len(actives)
    BY <2>0, LenProperties
  <2>1. ASSUME NEW w \in SUBSET Ability, BeginTick(w) PROVE WalkInv'
    BY <2>0, <2>1 DEF BeginTick, WalkInv
  <2>2. CASE TickNext
    <3>1. /\ cursor \in DOMAIN actives /\ phase = "ticking"
          /\ phase' = "body" /\ cur' = actives[cursor]
          /\ ticked' = ticked \cup {actives[cursor]}
          /\ actives' = actives /\ cursor' = cursor
      BY <2>0, <2>len, <2>2, NothingStale DEF TickNext, ledger
    <3>2. ASSUME NEW k \in DOMAIN actives, cursor < k PROVE actives[k] \notin ticked'
      <4>1. cursor <= k /\ cursor # k
        BY <2>0, <2>len, <3>2
      <4>2. actives[k] # actives[cursor] /\ actives[k] \notin ticked
        BY <2>0, <3>1, <4>1 DEF Distinct, WalkInv
      <4>3. QED BY <3>1, <4>2
    <3>3. QED BY <3>1, <3>2 DEF WalkInv
  <2>3. ASSUME NEW r \in Resource, AcquireFree(r) PROVE WalkInv'
    BY <2>0, <2>3 DEF AcquireFree, WalkInv
  <2>4. ASSUME NEW r \in Resource, AcquireByPreempting(r) PROVE WalkInv'
    <3> DEFINE o == owner[r]
    <3>1. /\ phase = "body" /\ phase' = "body" /\ cursor' = cursor /\ cur' = cur
          /\ ticked' = ticked /\ actives' = SwapPop(actives, o)
      BY <2>4 DEF AcquireByPreempting
    <3>2. o \in active /\ o # cur
      BY <2>0, <2>4 DEF AcquireByPreempting, Busy, ControlInv
    <3>3. \E k \in DOMAIN actives : actives[k] = o
      BY <2>0, <3>2 DEF ActivesExact
    <3> DEFINE t == SwapPop(actives, o)
    <3>4. /\ \A k \in DOMAIN t : cursor < k =>
               \E j \in DOMAIN actives : cursor < j /\ t[k] = actives[j]
          /\ cursor \in DOMAIN t /\ actives[cursor] # o =>
               cursor \in DOMAIN actives /\ t[cursor] = actives[cursor]
      BY <2>0, <3>3, <1>1
    <3>5. cursor \in DOMAIN t => cursor \in DOMAIN actives
      <4>1. t \in Seq(Ability) /\ Len(t) = Len(actives) - 1
        BY <2>0, <2>len, <3>3, SwapPopErases
      <4>2. QED BY <2>len, <4>1, LenProperties
    <3> HIDE DEF t, o
    <3>6. cursor \in DOMAIN t => t[cursor] = cur
      BY <2>0, <3>1, <3>2, <3>4, <3>5 DEF WalkInv
    <3>7. ASSUME NEW k \in DOMAIN t, cursor < k PROVE t[k] \notin ticked
      BY <2>0, <3>1, <3>4, <3>7 DEF WalkInv
    <3>8. QED BY <3>1, <3>6, <3>7 DEF WalkInv, t
  <2>5. ASSUME NEW r \in Resource, ReleaseScope(r) PROVE WalkInv'
    BY <2>0, <2>5 DEF ReleaseScope, WalkInv
  <2>6. ASSUME NEW ended \in BOOLEAN, FinishBody(ended) PROVE WalkInv'
    <3>1. CASE ended
      <4>1. /\ phase = "body" /\ phase' = "ticking" /\ cursor' = cursor /\ ticked' = ticked
            /\ actives' = SwapPop(actives, cur)
        BY <2>6, <3>1 DEF FinishBody, Unregister
      <4>2. \E k \in DOMAIN actives : actives[k] = cur
        BY <2>0, <4>1 DEF ActivesExact, ControlInv
      <4> DEFINE t == SwapPop(actives, cur)
      <4>3. /\ \A k \in DOMAIN t : cursor < k =>
                 \E j \in DOMAIN actives : cursor < j /\ t[k] = actives[j]
            /\ cursor \in DOMAIN t /\ actives[cursor] = cur =>
                 \E j \in DOMAIN actives : cursor < j /\ t[cursor] = actives[j]
        BY <2>0, <4>2, <1>1
      <4>4. DOMAIN t \subseteq DOMAIN actives /\ DOMAIN t \subseteq Nat
        <5>1. t \in Seq(Ability) /\ Len(t) = Len(actives) - 1
          BY <2>0, <2>len, <4>2, SwapPopErases
        <5>2. QED BY <2>len, <5>1, LenProperties
      <4> HIDE DEF t
      <4>5. ASSUME NEW k \in DOMAIN t, cursor <= k
            PROVE  \E j \in DOMAIN actives : cursor < j /\ t[k] = actives[j]
        <5>1. CASE k = cursor
          BY <2>0, <4>1, <4>3, <4>4, <5>1 DEF WalkInv
        <5>2. CASE k # cursor
          <6>1. cursor < k
            BY <2>0, <4>4, <4>5, <5>2
          <6>2. QED BY <4>3, <6>1
        <5>3. QED BY <5>1, <5>2
      <4>6. \A k \in DOMAIN t : cursor <= k => t[k] \notin ticked
        BY <2>0, <4>1, <4>5 DEF WalkInv
      <4>7. QED BY <4>1, <4>6 DEF WalkInv, t
    <3>2. CASE ~ended
      <4>1. /\ phase = "body" /\ phase' = "ticking" /\ cursor' = cursor + 1
            /\ ticked' = ticked /\ actives' = actives
        BY <2>6, <3>2 DEF FinishBody
      <4>2. ASSUME NEW k \in DOMAIN actives, cursor + 1 <= k PROVE actives[k] \notin ticked
        <5>1. cursor < k
          BY <2>0, <2>len, <4>2
        <5>2. QED BY <2>0, <4>1, <5>1 DEF WalkInv
      <4>3. QED BY <4>1, <4>2 DEF WalkInv
    <3>3. QED BY <3>1, <3>2
  <2>7. CASE EndStage1
    BY <2>7 DEF EndStage1, WalkInv
  <2>8. ASSUME NEW a \in Ability, TryCandidate(a) PROVE WalkInv'
    BY <2>8 DEF TryCandidate, WalkInv
  <2>9. CASE CancelConflict
    BY <2>9 DEF CancelConflict, WalkInv
  <2>10. CASE StartCandidate
    BY <2>10 DEF StartCandidate, WalkInv
  <2>11. CASE EndTick
    BY <2>11 DEF EndTick, WalkInv
  <2>12. CASE UNCHANGED vars
    BY <2>0, <2>12 DEF vars, WalkInv
  <2>13. QED BY <2>1, <2>2, <2>3, <2>4, <2>5, <2>6, <2>7, <2>8, <2>9, <2>10, <2>11, <2>12
          DEF Next, ScopeStep, TickStep
<1>3. Init => WalkInv
  BY DEF Init, WalkInv
<1>4. TickInv /\ [Next]_vars =>
        [\A a \in Ability : (phase' = "body" /\ phase # "body" /\ cur' = a)
                                => a \notin ticked]_vars
  <2> SUFFICES ASSUME TickInv, Next, phase' = "body", phase # "body"
               PROVE  cur' \notin ticked
    BY DEF vars
  <2>1. TypeOK /\ ActivesExact /\ WalkInv
    BY DEF TickInv, ActivesInv, LedgerInv, TypeInv
  <2>2. TickNext
    BY DEF Next, ScopeStep, TickStep, BeginTick, AcquireFree, AcquireByPreempting,
           ReleaseScope, FinishBody, EndStage1, TryCandidate, CancelConflict,
           StartCandidate, EndTick
  <2>3. /\ cursor \in DOMAIN actives /\ cur' = actives[cursor] /\ phase = "ticking"
        /\ cursor \in Nat
    BY <2>1, <2>2, NothingStale, LenProperties DEF TypeOK, TickNext
  <2>4. QED BY <2>1, <2>3 DEF WalkInv
<1>5. TickInv <=> ActivesInv /\ WalkInv
  BY DEF TickInv
<1>6. QED BY <1>2, <1>3, <1>4, <1>5, ActivesInvariant, PTL DEF Spec, TickedOnce

-----------------------------------------------------------------------------
(* Preemption.                                                              *)

\* While a candidate starts it still outranks what it conflicts with, and it
\* and everything that runs is marked as tried; so is whatever was preempted
\* in this tick.
PreemptInv ==
  /\ phase \notin {"scan", "start"} => preempted = {}
  /\ preempted \subseteq tried
  /\ phase = "start" => /\ active \subseteq tried /\ cur \in tried
                        /\ cur \notin preempted
                        /\ Outranks(cur)

PreemptionInv == LedgerInv /\ PreemptInv

\* The marks and the comparison hold through every step.
THEOREM PreemptInvariant == Spec => []PreemptionInv
<1>1. PreemptionInv /\ [Next]_vars => PreemptInv'
  <2> SUFFICES ASSUME PreemptionInv, [Next]_vars PROVE PreemptInv'
    OBVIOUS
  <2>0. TypeOK /\ CurIsAbility /\ ControlInv /\ LedgerSound /\ PreemptInv
    BY DEF PreemptionInv, LedgerInv, TypeInv
  \* Outside stage 2 the marks are all there is to it.
  <2>a. ASSUME phase' \notin {"start"}, phase' = "scan" \/ preempted' = {},
               preempted' \subseteq tried'
        PROVE  PreemptInv'
    BY <2>a DEF PreemptInv
  <2>1. ASSUME NEW w \in SUBSET Ability, BeginTick(w) PROVE PreemptInv'
    BY <2>0, <2>1, <2>a DEF BeginTick, PreemptInv
  <2>2. CASE TickNext
    BY <2>0, <2>2, <2>a DEF TickNext, PreemptInv
  <2>3. ASSUME NEW r \in Resource, AcquireFree(r) PROVE PreemptInv'
    BY <2>0, <2>3, <2>a DEF AcquireFree, PreemptInv
  <2>4. ASSUME NEW r \in Resource, AcquireByPreempting(r) PROVE PreemptInv'
    BY <2>0, <2>4, <2>a DEF AcquireByPreempting, PreemptInv
  <2>5. ASSUME NEW r \in Resource, ReleaseScope(r) PROVE PreemptInv'
    BY <2>0, <2>5, <2>a DEF ReleaseScope, PreemptInv
  <2>6. ASSUME NEW ended \in BOOLEAN, FinishBody(ended) PROVE PreemptInv'
    BY <2>0, <2>6, <2>a DEF FinishBody, PreemptInv
  <2>7. CASE EndStage1
    BY <2>0, <2>7, <2>a DEF EndStage1, PreemptInv
  <2>8. ASSUME NEW a \in Ability, TryCandidate(a) PROVE PreemptInv'
    <3>1. /\ phase = "scan" /\ a \notin tried /\ a \notin active
          /\ tried' = TriedAfter(a) /\ preempted' = preempted
          /\ active' = active /\ owner' = owner
      BY <2>8 DEF TryCandidate, Candidates, ledger
    <3>2. preempted \subseteq tried' /\ active' \subseteq tried' /\ a \in tried'
      BY <2>0, <3>1 DEF TypeOK, PreemptInv, TriedAfter, Candidates
    <3>3. a \notin preempted'
      BY <2>0, <3>1 DEF PreemptInv
    <3>4. CASE Outranks(a)
      <4>1. phase' = "start" /\ cur' = a
        BY <2>8, <3>4 DEF TryCandidate
      <4>2. Outranks(cur)'
        BY <3>1, <3>4, <4>1 DEF Outranks, Busy
      <4>3. QED BY <3>1, <3>2, <3>3, <4>1, <4>2 DEF PreemptInv
    <3>5. CASE ~Outranks(a)
      <4>1. phase' = "scan"
        BY <2>8, <3>1, <3>5 DEF TryCandidate
      <4>2. QED BY <2>a, <3>1, <3>2, <4>1
    <3>6. QED BY <3>4, <3>5
  <2>9. CASE CancelConflict
    <3>1. PICK r \in Conflicts : /\ CancelAbility(owner[r])
                                 /\ preempted' = preempted \cup {owner[r]}
      BY <2>9 DEF CancelConflict
    <3>2. /\ phase = "start" /\ phase' = "start" /\ cur' = cur /\ tried' = tried
      BY <2>9 DEF CancelConflict
    <3>3. owner[r] \in active /\ owner[r] \in Ability /\ cur \in Ability /\ cur \notin active
      BY <2>0, <3>1, <3>2, TableAssumption DEF Conflicts, Busy, TypeOK, CurIsAbility, ControlInv
    <3>4. Outranks(cur)'
      <4>1. Outranks(cur)
        BY <2>0, <3>2 DEF PreemptInv
      <4> DEFINE c == cur
      <4>2. c' = c
        BY <3>2
      <4>3. \A r1 \in Claimed[c] : Busy(r1)' => Priority[c][r1] > Priority[owner'[r1]][r1]
        <5>1. \A r1 \in Resource : owner'[r1] = IF owner[r1] = owner[r] THEN None ELSE owner[r1]
          BY <2>0, <3>1, <3>3, RemovalKeepsLedger DEF CancelAbility, Unregister
        <5>2. active' \subseteq active
          BY <3>1 DEF CancelAbility
        <5>3. ASSUME NEW q \in Claimed[c], Busy(q)'
              PROVE  Priority[c][q] > Priority[owner'[q]][q]
          <6>1. q \in Resource
            BY <3>3, TableAssumption
          <6>2. owner'[q] = owner[q] /\ Busy(q)
            BY <5>1, <5>2, <5>3, <6>1 DEF Busy
          <6>3. QED BY <4>1, <6>2 DEF Outranks
        <5>4. QED BY <5>3
      <4>4. QED BY <4>2, <4>3 DEF Outranks
    <3>5. active' \subseteq active
      BY <3>1 DEF CancelAbility
    <3>6. QED BY <2>0, <3>1, <3>2, <3>3, <3>4, <3>5 DEF PreemptInv
  <2>10. CASE StartCandidate
    BY <2>0, <2>10, <2>a DEF StartCandidate, PreemptInv
  <2>11. CASE EndTick
    BY <2>11, <2>a DEF EndTick
  <2>12. CASE UNCHANGED vars
    BY <2>0, <2>12 DEF vars, PreemptInv, Outranks, Busy
  <2>13. QED BY <2>1, <2>2, <2>3, <2>4, <2>5, <2>6, <2>7, <2>8, <2>9, <2>10, <2>11, <2>12
          DEF Next, ScopeStep, TickStep
<1>2. Init => PreemptInv
  BY DEF Init, PreemptInv
<1>3. PreemptionInv <=> LedgerInv /\ PreemptInv
  BY DEF PreemptionInv
<1>4. QED BY <1>1, <1>2, <1>3, LedgerInvariant, PTL DEF Spec

\* Nobody is started in the tick that preempted it.
THEOREM PreemptedNotRestarted == Spec => PreemptedStaysDown
<1>1. PreemptionInv /\ [Next]_vars => [(active' \ active) \cap preempted = {}]_vars
  <2> SUFFICES ASSUME PreemptionInv, Next, NEW a \in active' \ active
               PROVE  a \notin preempted
    BY DEF vars
  <2>1. StartCandidate
    BY DEF Next, ScopeStep, TickStep, BeginTick, TickNext, AcquireFree, AcquireByPreempting,
           ReleaseScope, FinishBody, EndStage1, TryCandidate, CancelConflict, CancelAbility,
           EndTick, ledger, Unregister
  <2>2. a = cur /\ phase = "start"
    BY <2>1 DEF StartCandidate
  <2>3. QED BY <2>2 DEF PreemptionInv, PreemptInv
<1>2. QED BY <1>1, PreemptInvariant, PTL DEF Spec, PreemptedStaysDown

\* An ability stops by its own end, or because what is at work outranks it.
THEOREM StopsAreOutranked == Spec => OnlyOutrankedStop
<1> DEFINE Allowed(o) ==
             \/ phase = "body" /\ o = cur
             \/ \E r \in Resource : owner[r] = o /\
                  \/ r \in Claimed[cur] /\ Priority[cur][r] > Priority[o][r]
                  \/ r \in ScopeBits[cur] /\ ScopePrio[cur][r] > Priority[o][r]
<1>1. PreemptionInv /\ [Next]_vars => [\A o \in active \ active' : Allowed(o)]_vars
  <2> SUFFICES ASSUME PreemptionInv, Next, NEW o \in active \ active' PROVE Allowed(o)
    BY DEF vars
  <2>1. \/ \E r \in Resource : AcquireByPreempting(r)
        \/ \E ended \in BOOLEAN : FinishBody(ended)
        \/ CancelConflict
    BY DEF Next, ScopeStep, TickStep, BeginTick, TickNext, AcquireFree,
           ReleaseScope, EndStage1, TryCandidate, StartCandidate, EndTick, ledger
  <2>2. ASSUME NEW r \in Resource, AcquireByPreempting(r) PROVE Allowed(o)
    BY <2>2 DEF AcquireByPreempting
  <2>3. ASSUME NEW ended \in BOOLEAN, FinishBody(ended) PROVE Allowed(o)
    BY <2>3 DEF FinishBody
  <2>4. CASE CancelConflict
    <3>1. PICK r \in Conflicts : CancelAbility(owner[r])
      BY <2>4 DEF CancelConflict
    <3>2. phase = "start" /\ cur \in Ability
      BY <2>4 DEF CancelConflict, PreemptionInv, LedgerInv, TypeInv, CurIsAbility
    <3>3. o = owner[r] /\ r \in Claimed[cur] /\ Busy(r) /\ r \in Resource
      BY <3>1, <3>2, TableAssumption DEF CancelAbility, Conflicts
    <3>4. Priority[cur][r] > Priority[o][r]
      BY <3>2, <3>3 DEF PreemptionInv, PreemptInv, Outranks
    <3>5. QED BY <3>3, <3>4
  <2>5. QED BY <2>1, <2>2, <2>3, <2>4
<1>2. QED BY <1>1, PreemptInvariant, PTL DEF Spec, OnlyOutrankedStop
=============================================================================
