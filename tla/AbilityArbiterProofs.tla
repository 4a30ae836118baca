------------------------ MODULE AbilityArbiterProofs ------------------------
(***************************************************************************)
(* Proofs about the arbiter, for every table of abilities, resources,      *)
(* priorities and scopes that satisfies the assumptions of AbilityArbiter. *)
(***************************************************************************)
EXTENDS AbilityArbiter, TLAPS, SequenceTheorems

-----------------------------------------------------------------------------
(* The swap-pop of std::vector entries.                                    *)

\* A sequence without repetitions, the shape of _actives.
Distinct(s) == \A j, k \in DOMAIN s : s[j] = s[k] => j = k

\* Erasing by swap-pop (unregisterAbility on the vector): it stays a sequence
\* over the same set.  Of a vector without repetitions it removes a, moves the
\* last entry to its position, and leaves the others in place; what is listed
\* then is what was, without a, and still without repetitions.
LEMMA SwapPopErases ==
  ASSUME NEW S, NEW s \in Seq(S), NEW a
  PROVE  /\ SwapPop(s, a) \in Seq(S)
         /\ Len(SwapPop(s, a)) \in Nat
         /\ Distinct(s) =>
              /\ \A p \in 1..Len(s) : s[p] = a =>
                   /\ Len(SwapPop(s, a)) = Len(s) - 1
                   /\ \A k \in 1..(Len(s) - 1) :
                        SwapPop(s, a)[k] = IF k = p THEN s[Len(s)] ELSE s[k]
              /\ {SwapPop(s, a)[k] : k \in DOMAIN SwapPop(s, a)}
                   = {s[k] : k \in DOMAIN s} \ {a}
              /\ Distinct(SwapPop(s, a))
<1> DEFINE n == Len(s)  t == SwapPop(s, a)
<1>1. t \in Seq(S) /\ Len(t) \in Nat
  <2>1. n \in Nat /\ DOMAIN s = 1..n /\ s \in [1..n -> S]
    BY LenProperties
  <2>2. CASE \E k \in DOMAIN s : s[k] = a
    <3> DEFINE e(k) == IF IsFirstAt(s, a, k) THEN s[Len(s)] ELSE s[k]
    <3>1. n \in Nat \ {0}
      BY <2>1, <2>2
    <3>2. \A k \in 1..(n - 1) : e(k) \in S
      BY <2>1, <3>1
    <3>3. SwapPop(s, a) = [k \in 1..(n - 1) |-> e(k)]
      BY <2>2 DEF SwapPop
    <3>4. SwapPop(s, a) \in [1..(n - 1) -> S]
      BY <3>2, <3>3
    <3>5. SwapPop(s, a) \in Seq(S)
      BY <3>1, <3>4, SeqDef
    <3> QED BY <3>5, LenProperties
  <2>3. CASE ~ \E k \in DOMAIN s : s[k] = a
    BY <2>1, <2>3 DEF SwapPop
  <2> QED BY <2>2, <2>3
<1>2. ASSUME Distinct(s), NEW p \in 1..n, s[p] = a
      PROVE  Len(t) = n - 1 /\ \A k \in 1..(n - 1) : t[k] = IF k = p THEN s[n] ELSE s[k]
  <2>1. n \in Nat /\ DOMAIN s = 1..n
    BY LenProperties
  <2>2. \A k \in 1..n : IsFirstAt(s, a, k) <=> k = p
    BY <1>2, <2>1 DEF IsFirstAt, Distinct
  <2>3. SwapPop(s, a) = [k \in 1..(n - 1) |-> IF IsFirstAt(s, a, k) THEN s[n] ELSE s[k]]
    BY <1>2, <2>1 DEF SwapPop
  <2>4. DOMAIN SwapPop(s, a) = 1..(n - 1)
    BY <2>3
  <2>5. SwapPop(s, a) \in Seq(S)
    BY <1>1
  <2>6. Len(SwapPop(s, a)) = n - 1
    <3>1. Len(SwapPop(s, a)) \in Nat /\ DOMAIN SwapPop(s, a) = 1..Len(SwapPop(s, a))
      BY <2>5, LenProperties
    <3> DEFINE m == Len(SwapPop(s, a))
    <3>2. m \in Nat /\ 1..m = 1..(n - 1)
      BY <2>4, <3>1
    <3> HIDE DEF m, n
    <3>3. n \in Nat /\ n # 0
      BY <2>1, p \in 1..n DEF n
    <3>4. m = 0 \/ m \in 1..(n - 1)
      <4>1. m = 0 \/ m \in 1..m
        BY <3>2
      <4> QED BY <3>2, <4>1
    <3>5. n - 1 = 0 \/ n - 1 \in 1..m
      BY <3>2, <3>3
    <3>6. m = n - 1
      BY <3>2, <3>3, <3>4, <3>5
    <3> QED BY <3>6 DEF m
  <2>7. \A k \in 1..(n - 1) : SwapPop(s, a)[k] = IF k = p THEN s[n] ELSE s[k]
    BY <2>1, <2>2, <2>3
  <2> QED BY <2>6, <2>7
<1>3. ASSUME Distinct(s)
      PROVE  {t[k] : k \in DOMAIN t} = {s[k] : k \in DOMAIN s} \ {a} /\ Distinct(t)
  <2>1. n \in Nat /\ DOMAIN s = 1..n
    BY LenProperties
  <2>2. CASE \E p \in 1..n : s[p] = a
    <3>1. PICK p \in 1..n : s[p] = a
      BY <2>2
    <3>2. /\ Len(t) = n - 1
          /\ \A k \in 1..(n - 1) : t[k] = IF k = p THEN s[n] ELSE s[k]
      BY <1>2, <1>3, <3>1
    <3>3. t \in Seq(S)
      BY <1>1
    <3>4. DOMAIN t = 1..(n - 1)
      BY <3>2, <3>3, LenProperties
    <3>5. ASSUME NEW x PROVE (\E k \in DOMAIN t : t[k] = x) <=> (x # a /\ \E k \in DOMAIN s : s[k] = x)
      <4>1. ASSUME NEW k \in DOMAIN t, t[k] = x PROVE x # a /\ \E j \in DOMAIN s : s[j] = x
        <5>1. CASE k = p
          BY <1>3, <2>1, <3>1, <3>2, <3>4, <4>1, <5>1 DEF Distinct
        <5>2. CASE k # p
          BY <1>3, <2>1, <3>1, <3>2, <3>4, <4>1, <5>2 DEF Distinct
        <5> QED BY <5>1, <5>2
      <4>2. ASSUME x # a, NEW k \in DOMAIN s, s[k] = x PROVE \E j \in DOMAIN t : t[j] = x
        <5>1. CASE k = n
          <6>0. p # n
            BY <3>1, <4>2, <5>1
          <6>a. n \in Nat /\ p \in Nat /\ 1 <= p /\ p <= n
            BY <1>3, <2>1, <3>1
          <6>b. p < n
            BY <6>0, <6>a
          <6>c. p \in 1..(n - 1)
            BY <6>a, <6>b
          <6>1. p # n /\ p \in DOMAIN t
            BY <3>4, <6>0, <6>c
          <6> QED BY <3>2, <3>4, <4>2, <5>1, <6>1
        <5>2. CASE k # n
          <6>1. k \in DOMAIN t /\ k # p
            BY <1>3, <2>1, <3>1, <3>4, <4>2, <5>2
          <6> QED BY <3>2, <3>4, <4>2, <6>1
        <5> QED BY <5>1, <5>2
      <4> QED BY <4>1, <4>2
    <3>6. ASSUME NEW j \in DOMAIN t, NEW k \in DOMAIN t, t[j] = t[k] PROVE j = k
      BY <1>3, <2>1, <3>1, <3>2, <3>4, <3>6 DEF Distinct
    <3>7. Distinct(t)
      BY <3>6 DEF Distinct
    <3>8. {t[k] : k \in DOMAIN t} = {s[k] : k \in DOMAIN s} \ {a}
      BY <3>5
    <3> QED BY <3>7, <3>8
  <2>3. CASE ~ \E p \in 1..n : s[p] = a
    BY <1>3, <2>1, <2>3 DEF SwapPop
  <2> QED BY <2>2, <2>3
<1>4. QED BY <1>1, <1>2, <1>3

-----------------------------------------------------------------------------
(* Type correctness.                                                       *)

\* A body and a start are always some ability's, never nullptr's.
CurIsAbility == phase \in {"body", "start"} => cur \in Ability

TypeInv == TypeOK /\ CurIsAbility

\* Every state of every run is well typed, whatever the table of abilities: every
\* step of a tick keeps the types.
THEOREM TypeInvariant == Spec => [](TypeOK /\ TypeInv)
\* Releasing a's bits keeps the tables' types (unregisterAbility).
<1>1. ASSUME TypeOK, NEW a, Unregister(a)
      PROVE  /\ actives' \in Seq(Ability)
             /\ owner' \in [Resource -> Ability \cup {None}]
             /\ claimedMask' \in [Ability -> SUBSET Resource]
  <2> USE <1>1
  <2>1. actives' \in Seq(Ability)
    BY SwapPopErases DEF TypeOK, Unregister
  <2>2. owner' \in [Resource -> Ability \cup {None}]
    BY DEF TypeOK, Unregister, OwnerWithout
  <2>3. claimedMask' \in [Ability -> SUBSET Resource]
    BY DEF TypeOK, Unregister
  <2> QED BY <2>1, <2>2, <2>3
\* Registering a keeps the tables' types (registerAbility).
<1>2. ASSUME TypeOK, NEW a \in Ability, Register(a)
      PROVE  /\ actives' \in Seq(Ability)
             /\ owner' \in [Resource -> Ability \cup {None}]
             /\ claimedMask' \in [Ability -> SUBSET Resource]
  <2> USE <1>2
  <2>1. actives' \in Seq(Ability)
    BY DEF TypeOK, Register
  <2>2. owner' \in [Resource -> Ability \cup {None}]
    BY DEF TypeOK, Register
  <2>3. claimedMask' \in [Ability -> SUBSET Resource]
    BY TableAssumption DEF TypeOK, Register
  <2> QED BY <2>1, <2>2, <2>3
<1>3. Init => TypeInv
  <2> SUFFICES ASSUME Init PROVE TypeInv
    OBVIOUS
  <2>1. << >> \in Seq(Ability)
    OBVIOUS
  <2> QED BY <2>1 DEF Init, TypeInv, TypeOK, CurIsAbility
<1>4. TypeInv /\ [Next]_vars => TypeInv'
  <2> SUFFICES ASSUME TypeInv, [Next]_vars PROVE TypeInv'
    OBVIOUS
  <2> USE DEF TypeInv, CurIsAbility
  <2>1. ASSUME NEW w \in SUBSET Ability, BeginTick(w) PROVE TypeInv'
    BY <2>1 DEF BeginTick, TypeOK, ledger
  <2>2. CASE TickNext
    <3>1. actives[cursor] \in Ability
      <4>1. cursor \in 1..Len(actives)
        BY <2>2 DEF TickNext, TypeOK
      <4> QED BY <4>1, ElementOfSeq DEF TypeOK
    <3>2. CASE actives[cursor] \in active
      BY <2>2, <3>1, <3>2 DEF TickNext, TypeOK, ledger
    <3>3. CASE actives[cursor] \notin active
      <4>1. Unregister(actives[cursor]) /\ UNCHANGED << active, held, phase, cursor, cur,
              self, wants, tried, ticked, preempted >>
        BY <2>2, <3>3 DEF TickNext
      <4> QED BY <4>1, <1>1 DEF TypeOK
    <3> QED BY <3>2, <3>3
  <2>3. ASSUME NEW r \in Resource, AcquireFree(r) PROVE TypeInv'
    BY <2>3 DEF AcquireFree, TypeOK
  <2>4. ASSUME NEW r \in Resource, AcquireByPreempting(r) PROVE TypeInv'
    <3>1. actives' \in Seq(Ability)
      BY <2>4, SwapPopErases DEF AcquireByPreempting, TypeOK
    <3>2. owner' \in [Resource -> Ability \cup {None}]
      BY <2>4 DEF AcquireByPreempting, TypeOK, OwnerWithout
    <3>3. claimedMask' \in [Ability -> SUBSET Resource]
      BY <2>4 DEF AcquireByPreempting, TypeOK
    <3>4. held' \in [Ability -> SUBSET Resource]
      BY <2>4 DEF AcquireByPreempting, TypeOK
    <3> QED BY <2>4, <3>1, <3>2, <3>3, <3>4 DEF AcquireByPreempting, TypeOK
  <2>5. ASSUME NEW r \in Resource, ReleaseScope(r) PROVE TypeInv'
    BY <2>5 DEF ReleaseScope, TypeOK
  <2>6. ASSUME NEW ended \in BOOLEAN, FinishBody(ended) PROVE TypeInv'
    <3>1. CASE ended
      <4>1. Unregister(cur) /\ cursor' = cursor
        BY <2>6, <3>1 DEF FinishBody
      <4> QED BY <2>6, <3>1, <4>1, <1>1 DEF FinishBody, TypeOK
    <3>2. CASE ~ended
      BY <2>6, <3>2 DEF FinishBody, TypeOK
    <3> QED BY <3>1, <3>2
  <2>7. CASE EndStage1
    BY <2>7 DEF EndStage1, TypeOK, ledger
  <2>8. ASSUME NEW a \in Ability, TryCandidate(a) PROVE TypeInv'
    BY <2>8 DEF TryCandidate, TypeOK, TriedAfter, ledger
  <2>9. CASE CancelConflict
    <3>1. PICK r \in Conflicts : /\ CancelAbility(owner[r])
                                 /\ preempted' = preempted \cup {owner[r]}
      BY <2>9 DEF CancelConflict
    <3>2. owner[r] \in Ability
      BY <3>1, TableAssumption, <2>9 DEF Conflicts, Busy, TypeOK, CancelConflict
    <3> QED BY <2>9, <3>1, <3>2, <1>1 DEF CancelConflict, CancelAbility, TypeOK
  <2>10. CASE StartCandidate
    <3>1. cur \in Ability
      BY <2>10 DEF StartCandidate
    <3> QED BY <2>10, <3>1, <1>2 DEF StartCandidate, TypeOK
  <2>11. CASE EndTick
    BY <2>11 DEF EndTick, TypeOK, ledger
  <2>12. CASE UNCHANGED vars
    BY <2>12 DEF vars, TypeOK
  <2> QED BY <2>1, <2>2, <2>3, <2>4, <2>5, <2>6, <2>7, <2>8, <2>9, <2>10, <2>11, <2>12
          DEF Next, ScopeStep, TickStep
<1>5. TypeInv => TypeOK
  BY DEF TypeInv
<1>6. QED BY <1>3, <1>4, <1>5, PTL DEF Spec

-----------------------------------------------------------------------------
(* Exclusive ownership.                                                    *)

\* What control knows: a body belongs to a running ability, a candidate is
\* not running, and ctx.self is set only while a body runs.
ControlInv ==
  /\ phase = "body" => cur \in active /\ self \in {None, cur}
  /\ phase = "start" => cur \notin active
  /\ phase # "body" => self = None

\* A scope only ever holds bits its ability's tasks ask for.
ScopesOnly == \A a \in Ability : held[a] \subseteq ScopeBits[a]

\* The inductive strengthening of ResourceExclusive: two running abilities
\* that claimed one bit would both be its owner.
LedgerInv == TypeInv /\ ControlInv /\ ScopesOnly /\ LedgerSound /\ HeldIsOwned

\* Taking a out of the running abilities and out of the tables leaves the
\* ledger sound for the others, and nothing owned by a.
LEMMA RemovalKeepsLedger ==
  ASSUME TypeOK, LedgerSound, NEW a \in Ability,
         active' = active \ {a},
         owner' = OwnerWithout(a),
         claimedMask' = [claimedMask EXCEPT ![a] = {}]
  PROVE  /\ LedgerSound'
         /\ \A r \in Resource : owner'[r] = IF owner[r] = a THEN None ELSE owner[r]
<1>1. \A r \in Resource : owner'[r] = IF owner[r] = a THEN None ELSE owner[r]
  BY DEF LedgerSound, OwnerWithout, None, Ability
<1>2. ASSUME NEW r \in Resource, owner'[r] # None
      PROVE  owner'[r] \in active' /\ r \in claimedMask'[owner'[r]]
  BY <1>1, <1>2 DEF LedgerSound, TypeOK
<1>3. ASSUME NEW b \in active', NEW r \in Claimed[b]
      PROVE  owner'[r] = b
  <2>1. b \in active /\ b # a /\ r \in Resource
    BY <1>3, TableAssumption DEF TypeOK
  <2> QED BY <1>1, <2>1 DEF LedgerSound
<1> QED BY <1>1, <1>2, <1>3 DEF LedgerSound

\* Owners run, are registered, and hold what they claim, in every run and for every
\* table; and a scope that believes it holds a bit owns it.
THEOREM LedgerInvariant == Spec => [](LedgerSound /\ HeldIsOwned /\ LedgerInv)
\* Initially nothing is owned.
<1>1. TypeInv /\ Init => LedgerInv
  BY DEF Init, LedgerInv, ControlInv, ScopesOnly, LedgerSound, HeldIsOwned
<1>2. LedgerInv /\ TypeInv' /\ [Next]_vars => LedgerInv'
  <2> SUFFICES ASSUME LedgerInv, TypeInv', [Next]_vars PROVE LedgerInv'
    OBVIOUS
  <2>0. TypeInv' /\ TypeInv /\ TypeOK /\ TypeOK'
    BY DEF LedgerInv, TypeInv
  <2> DEFINE Goal == ControlInv' /\ ScopesOnly' /\ LedgerSound' /\ HeldIsOwned'
  <2> SUFFICES Goal
    BY <2>0 DEF LedgerInv
  <2>a. ControlInv /\ ScopesOnly /\ LedgerSound /\ HeldIsOwned /\ CurIsAbility
    BY DEF LedgerInv, TypeInv
  \* Steps that leave the ledger alone need only the control conjuncts.
  <2>b. ASSUME UNCHANGED ledger, ControlInv' PROVE Goal
    BY <2>a, <2>b DEF ledger, ScopesOnly, LedgerSound, HeldIsOwned
  <2>1. ASSUME NEW w \in SUBSET Ability, BeginTick(w) PROVE Goal
    BY <2>1, <2>a, <2>b DEF BeginTick, ControlInv
  <2>2. CASE TickNext
    <3>1. actives[cursor] \in Ability
      <4>1. cursor \in 1..Len(actives)
        BY <2>0, <2>2 DEF TickNext, TypeOK
      <4> QED BY <2>0, <4>1, ElementOfSeq DEF TypeOK
    <3>2. CASE actives[cursor] \in active
      BY <2>2, <2>a, <2>b, <3>2 DEF TickNext, ControlInv, ledger
    <3>3. CASE actives[cursor] \notin active
      <4> DEFINE a == actives[cursor]
      <4>1. /\ Unregister(a)
            /\ UNCHANGED << active, held, phase, cur, self >>
        BY <2>2, <3>3 DEF TickNext
      <4>2. active' = active \ {a}
        BY <3>3, <4>1
      <4>3. LedgerSound'
        BY <2>0, <2>a, <3>1, <4>1, <4>2, RemovalKeepsLedger DEF Unregister
      <4>4. owner' = owner
        <5>1. \A r \in Resource : owner[r] # a
          BY <2>a, <3>1, <3>3 DEF LedgerSound, None, Ability
        <5>2. \A r \in Resource : owner'[r] = owner[r]
          BY <4>1, <5>1 DEF Unregister, OwnerWithout
        <5> QED BY <2>0, <5>2 DEF TypeOK
      <4> QED BY <2>a, <4>1, <4>3, <4>4 DEF ControlInv, ScopesOnly, HeldIsOwned
    <3> QED BY <3>2, <3>3
  <2>3. ASSUME NEW r \in Resource, AcquireFree(r) PROVE Goal
    <3>1. self = cur /\ cur \in Ability /\ cur \in active /\ r \notin Claimed[cur]
          /\ cur # None
      BY <2>0, <2>3, <2>a, ScopeAssumption DEF AcquireFree, ControlInv, TypeOK, None, Ability
    <3>2. owner[r] = None \/ owner[r] = cur
      BY <2>3, <2>a, <3>1 DEF AcquireFree, Busy, LedgerSound
    <3>3. LedgerSound'
      <4>1. /\ active' = active /\ owner' = [owner EXCEPT ![r] = cur]
            /\ claimedMask' = [claimedMask EXCEPT ![cur] = @ \cup {r}]
        BY <2>3, <3>1 DEF AcquireFree
      <4>2. \A q \in Resource : owner'[q] = IF q = r THEN cur ELSE owner[q]
        BY <2>0, <4>1 DEF TypeOK
      <4>3. \A a \in Ability : claimedMask[a] \subseteq claimedMask'[a]
        BY <2>0, <4>1 DEF TypeOK
      <4>4. r \in claimedMask'[cur]
        BY <2>0, <3>1, <4>1 DEF TypeOK
      <4>5. ASSUME NEW q \in Resource, owner'[q] # None
            PROVE  owner'[q] \in active' /\ q \in claimedMask'[owner'[q]]
        <5>1. CASE q = r
          BY <3>1, <4>1, <4>2, <4>4, <5>1
        <5>2. CASE q # r
          BY <2>0, <2>a, <4>1, <4>2, <4>3, <4>5, <5>2 DEF LedgerSound, TypeOK
        <5> QED BY <5>1, <5>2
      <4>6. ASSUME NEW b \in active', NEW q \in Claimed[b] PROVE owner'[q] = b
        <5>1. b \in active /\ b \in Ability /\ b # None
          BY <2>0, <4>1, <4>6 DEF TypeOK, None, Ability
        <5>2. q \in Resource /\ owner[q] = b
          BY <2>a, <4>6, <5>1, TableAssumption DEF LedgerSound
        <5>3. q # r
          BY <3>1, <3>2, <4>6, <5>1, <5>2
        <5> QED BY <4>2, <5>2, <5>3
      <4> QED BY <4>5, <4>6 DEF LedgerSound
    <3>4. HeldIsOwned'
      BY <2>0, <2>3, <2>a, <3>1, <3>2 DEF AcquireFree, HeldIsOwned, TypeOK, None, Ability
    <3>5. ScopesOnly' /\ ControlInv'
      BY <2>0, <2>3, <2>a DEF AcquireFree, ScopesOnly, ControlInv, TypeOK
    <3> QED BY <3>3, <3>4, <3>5
  <2>4. ASSUME NEW r \in Resource, AcquireByPreempting(r) PROVE Goal
    <3> DEFINE o == owner[r]
    <3>1. self = cur /\ cur \in Ability /\ cur \in active /\ r \notin Claimed[cur]
          /\ cur # None /\ o \in active /\ o \in Ability /\ o # cur /\ r \in ScopeBits[cur]
      BY <2>0, <2>4, <2>a, ScopeAssumption
      DEF AcquireByPreempting, ControlInv, TypeOK, None, Ability, Busy
    <3>2. /\ active' = active \ {o} /\ self' = None
          /\ owner' = [OwnerWithout(o) EXCEPT ![r] = cur]
          /\ claimedMask' = [claimedMask EXCEPT ![o] = {}, ![cur] = @ \cup {r}]
          /\ held' = [held EXCEPT ![o] = {}, ![cur] = @ \cup {r}]
          /\ UNCHANGED << phase, cur >> /\ phase = "body"
      BY <2>4, <3>1 DEF AcquireByPreempting
    <3>3. \A q \in Resource : owner'[q] = IF q = r THEN cur
                                         ELSE IF owner[q] = o THEN None ELSE owner[q]
      BY <2>a, <3>1, <3>2 DEF OwnerWithout, LedgerSound, None
    <3>4. \A a \in Ability : /\ claimedMask'[a] = IF a = o THEN {} ELSE IF a = cur
                                   THEN claimedMask[cur] \cup {r} ELSE claimedMask[a]
                             /\ held'[a] = IF a = o THEN {} ELSE IF a = cur
                                   THEN held[cur] \cup {r} ELSE held[a]
      BY <2>0, <3>1, <3>2 DEF TypeOK
    <3>5. LedgerSound'
      <4>1. ASSUME NEW q \in Resource, owner'[q] # None
            PROVE  owner'[q] \in active' /\ q \in claimedMask'[owner'[q]]
        <5>1. CASE q = r
          <6>1. owner'[q] = cur
            BY <3>3, <5>1
          <6>2. cur \in active'
            BY <3>1, <3>2
          <6>3. claimedMask'[cur] = claimedMask[cur] \cup {r}
            BY <3>1, <3>4
          <6> QED BY <5>1, <6>1, <6>2, <6>3
        <5>2. CASE q # r
          <6>1. owner'[q] = owner[q] /\ owner[q] # o /\ owner[q] # None
            BY <3>3, <4>1, <5>2
          <6>2. owner[q] \in active /\ q \in claimedMask[owner[q]] /\ owner[q] \in Ability
            BY <2>0, <2>a, <6>1 DEF LedgerSound, TypeOK
          <6>3. owner[q] \in active'
            BY <3>2, <6>1, <6>2
          <6>4. q \in claimedMask'[owner[q]]
            BY <3>4, <6>1, <6>2
          <6> QED BY <6>1, <6>3, <6>4
        <5> QED BY <5>1, <5>2
      <4>2. ASSUME NEW b \in active', NEW q \in Claimed[b]
            PROVE  owner'[q] = b
        <5>1. b \in active /\ b # o /\ b \in Ability
          BY <2>0, <3>2, <4>2 DEF TypeOK
        <5>2. q \in Resource
          BY <4>2, <5>1, TableAssumption
        <5>3. owner[q] = b
          BY <2>a, <4>2, <5>1 DEF LedgerSound
        <5>4. q # r
          BY <3>1, <4>2, <5>1, <5>3
        <5> QED BY <3>3, <5>1, <5>2, <5>3, <5>4
      <4> QED BY <4>1, <4>2 DEF LedgerSound
    <3>6. HeldIsOwned'
      <4>1. ASSUME NEW a \in Ability, NEW q \in held'[a] PROVE owner'[q] = a
        <5>1. q \in Resource /\ a # o
          BY <2>0, <3>4, <4>1 DEF TypeOK
        <5>2. CASE a = cur /\ q = r
          BY <3>3, <5>2
        <5>3. CASE ~(a = cur /\ q = r)
          <6>1. q \in held[a]
            BY <3>4, <4>1, <5>1, <5>3
          <6>2. owner[q] = a
            BY <2>a, <6>1 DEF HeldIsOwned
          <6> QED BY <3>3, <5>1, <6>2
        <5> QED BY <5>2, <5>3
      <4> QED BY <4>1 DEF HeldIsOwned
    <3>7. ScopesOnly'
      BY <2>a, <3>1, <3>4 DEF ScopesOnly
    <3>8. ControlInv'
      BY <3>1, <3>2 DEF ControlInv
    <3> QED BY <3>5, <3>6, <3>7, <3>8
  <2>5. ASSUME NEW r \in Resource, ReleaseScope(r) PROVE Goal
    <3>1. /\ cur \in Ability /\ r \notin Claimed[cur] /\ r \in held[cur] /\ owner[r] = cur
      BY <2>0, <2>5, <2>a, ScopeAssumption
      DEF ReleaseScope, CurIsAbility, ScopesOnly, HeldIsOwned
    <3>2. \A q \in Resource : owner'[q] = owner[q] \/ (q = r /\ owner'[q] = None)
      BY <2>0, <2>5 DEF ReleaseScope, TypeOK
    <3>3. LedgerSound'
      BY <2>0, <2>5, <2>a, <3>1, <3>2, TableAssumption DEF ReleaseScope, LedgerSound, TypeOK
    <3>4. HeldIsOwned'
      BY <2>0, <2>5, <2>a, <3>1, <3>2 DEF ReleaseScope, HeldIsOwned, TypeOK
    <3>5. ScopesOnly' /\ ControlInv'
      BY <2>0, <2>5, <2>a DEF ReleaseScope, ScopesOnly, ControlInv, TypeOK
    <3> QED BY <3>3, <3>4, <3>5
  <2>6. ASSUME NEW ended \in BOOLEAN, FinishBody(ended) PROVE Goal
    <3>1. CASE ended
      <4>1. /\ active' = active \ {cur} /\ Unregister(cur) /\ held' = held
            /\ held[cur] = {} /\ phase' = "ticking" /\ self' = None /\ cur \in Ability
        BY <2>0, <2>6, <2>a, <3>1 DEF FinishBody, CurIsAbility
      <4>2. /\ LedgerSound'
            /\ \A r \in Resource : owner'[r] = IF owner[r] = cur THEN None ELSE owner[r]
        BY <2>0, <2>a, <4>1, RemovalKeepsLedger DEF Unregister
      <4>3. HeldIsOwned'
        BY <2>0, <2>a, <4>1, <4>2 DEF HeldIsOwned, TypeOK
      <4>4. ScopesOnly' /\ ControlInv'
        BY <2>a, <4>1 DEF ScopesOnly, ControlInv
      <4> QED BY <4>2, <4>3, <4>4
    <3>2. CASE ~ended
      BY <2>6, <2>a, <2>b, <3>2 DEF FinishBody, ControlInv, ledger
    <3> QED BY <3>1, <3>2
  <2>7. CASE EndStage1
    BY <2>7, <2>a, <2>b DEF EndStage1, ControlInv
  <2>8. ASSUME NEW a \in Ability, TryCandidate(a) PROVE Goal
    <3>1. /\ UNCHANGED ledger /\ UNCHANGED active /\ self' = self
          /\ a \notin active /\ phase = "scan"
          /\ (phase' = "start" /\ cur' = a) \/ (phase' = "scan" /\ cur' = cur)
      <4>1. UNCHANGED << ledger, self >> /\ a \in Candidates /\ phase = "scan"
        BY <2>8 DEF TryCandidate
      <4>2. (phase' = "start" /\ cur' = a) \/ (phase' = "scan" /\ cur' = cur)
        BY <2>8 DEF TryCandidate
      <4> QED BY <4>1, <4>2 DEF ledger, Candidates
    <3>2. ControlInv'
      BY <2>a, <3>1 DEF ControlInv
    <3> QED BY <2>b, <3>1, <3>2
  <2>9. CASE CancelConflict
    <3>1. PICK r \in Conflicts : CancelAbility(owner[r])
      BY <2>9 DEF CancelConflict
    <3> DEFINE o == owner[r]
    <3>2. o \in Ability /\ phase = "start" /\ UNCHANGED << phase, cur >>
      BY <2>0, <2>9, <2>a, TableAssumption
      DEF Conflicts, Busy, TypeOK, CancelConflict, CurIsAbility
    <3>3. /\ active' = active \ {o} /\ Unregister(o) /\ self' = None
          /\ held' = [held EXCEPT ![o] = {}]
      BY <3>1 DEF CancelAbility
    <3>4. /\ LedgerSound'
          /\ \A q \in Resource : owner'[q] = IF owner[q] = o THEN None ELSE owner[q]
      BY <2>0, <2>a, <3>2, <3>3, RemovalKeepsLedger DEF Unregister
    <3>5. HeldIsOwned'
      BY <2>0, <2>a, <3>2, <3>3, <3>4 DEF HeldIsOwned, TypeOK
    <3>6. ScopesOnly' /\ ControlInv'
      BY <2>0, <2>a, <3>2, <3>3 DEF ScopesOnly, ControlInv, TypeOK
    <3> QED BY <3>4, <3>5, <3>6
  <2>10. CASE StartCandidate
    <3>1. /\ cur \in Ability /\ cur \notin active /\ cur # None
          /\ active' = active \cup {cur} /\ phase' = "scan" /\ self' = None
          /\ owner' = [r \in Resource |-> IF r \in Claimed[cur] THEN cur ELSE owner[r]]
          /\ claimedMask' = [claimedMask EXCEPT ![cur] = Claimed[cur]]
          /\ held' = [held EXCEPT ![cur] = {}]
      BY <2>10, <2>a DEF StartCandidate, Register, CurIsAbility, ControlInv, None, Ability
    <3>2. \A r \in Resource : owner[r] # cur /\ (r \in Claimed[cur] => owner[r] = None)
      BY <2>10, <2>a, <3>1 DEF StartCandidate, Conflicts, Busy, LedgerSound
    <3>3. LedgerSound'
      <4>1. ASSUME NEW r \in Resource, owner'[r] # None
            PROVE  owner'[r] \in active' /\ r \in claimedMask'[owner'[r]]
        BY <2>0, <2>a, <3>1, <3>2, <4>1 DEF LedgerSound, TypeOK
      <4>2. ASSUME NEW b \in active', NEW r \in Claimed[b] PROVE owner'[r] = b
        <5>1. r \in Resource /\ (b = cur \/ b \in active)
          BY <2>0, <3>1, <4>2, TableAssumption DEF TypeOK
        <5>2. CASE b = cur
          BY <3>1, <4>2, <5>1, <5>2
        <5>3. CASE b \in active
          <6>1. owner[r] = b /\ b # None
            BY <2>0, <2>a, <4>2, <5>3 DEF LedgerSound, TypeOK, None, Ability
          <6> QED BY <3>1, <3>2, <5>1, <6>1
        <5> QED BY <5>1, <5>2, <5>3
      <4> QED BY <4>1, <4>2 DEF LedgerSound
    <3>4. HeldIsOwned'
      <4>1. ASSUME NEW a \in Ability, NEW r \in held'[a] PROVE owner'[r] = a
        <5>1. a # cur /\ r \in held[a] /\ r \in Resource
          BY <2>0, <3>1, <4>1 DEF TypeOK
        <5>2. owner[r] = a /\ a # None
          BY <2>a, <5>1 DEF HeldIsOwned, None, Ability
        <5> QED BY <3>1, <3>2, <5>1, <5>2
      <4> QED BY <4>1 DEF HeldIsOwned
    <3>5. ScopesOnly' /\ ControlInv'
      BY <2>0, <2>a, <3>1 DEF ScopesOnly, ControlInv, TypeOK
    <3> QED BY <3>3, <3>4, <3>5
  <2>11. CASE EndTick
    BY <2>11, <2>a, <2>b DEF EndTick, ControlInv
  <2>12. CASE UNCHANGED vars
    BY <2>12, <2>a, <2>b DEF vars, ledger, ControlInv
  <2> QED BY <2>1, <2>2, <2>3, <2>4, <2>5, <2>6, <2>7, <2>8, <2>9, <2>10, <2>11, <2>12
          DEF Next, ScopeStep, TickStep
<1>3. LedgerInv => LedgerSound /\ HeldIsOwned
  BY DEF LedgerInv
<1>4. QED BY <1>1, <1>2, <1>3, TypeInvariant, PTL DEF Spec

\* No two running abilities ever claim one resource.
THEOREM Exclusive == Spec => []ResourceExclusive
<1>1. LedgerInv => ResourceExclusive
  <2> SUFFICES ASSUME LedgerInv, NEW a \in active, NEW b \in active, a # b,
                      NEW r \in Claimed[a], r \in Claimed[b]
               PROVE  FALSE
    BY TableAssumption DEF ResourceExclusive, LedgerInv, TypeInv, TypeOK
  <2>1. owner[r] = a /\ owner[r] = b
    BY DEF LedgerInv, LedgerSound
  <2> QED BY <2>1
<1> QED BY <1>1, LedgerInvariant, PTL
=============================================================================
