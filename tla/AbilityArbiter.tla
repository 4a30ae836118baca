--------------------------- MODULE AbilityArbiter ---------------------------
(***************************************************************************)
(* The ability arbiter of a hero (src/server/gameplay/ability): it owns    *)
(* the table of which ability holds which resource, ticks the running      *)
(* abilities, and starts candidates, preempting strictly weaker owners.    *)
(*                                                                         *)
(* One call of Arbiter::Tick is a run of steps from phase "idle" back to   *)
(* "idle".  The server is single threaded, so nothing interleaves with it; *)
(* the steps are kept apart because an ability's body runs in the middle   *)
(* of stage 1 and calls back into the arbiter through ctx.resources.       *)
(*                                                                         *)
(* Abilities are numbered in the order AbilitySet::Add received them, and  *)
(* a resource is the index of its bit.                                     *)
(***************************************************************************)
EXTENDS Integers, Sequences

CONSTANTS
  NumAbilities,   \* abilities registered with the set
  NumResources,   \* resource bits in use (kMaxResources = 32 in the code)
  Claimed,        \* ability -> the resources ClaimedResources() names
  Priority,       \* ability -> resource -> ResourcePriority(bit)
  ScopeBits,      \* ability -> the resources its ScopedResource tasks take
  ScopePrio       \* ability -> resource -> the priority those tasks ask with

Ability  == 1..NumAbilities
Resource == 1..NumResources
None     == 0               \* nullptr

ASSUME SizeAssumption == NumAbilities \in Nat /\ NumResources \in Nat

ASSUME TableAssumption ==
  /\ Claimed   \in [Ability -> SUBSET Resource]
  /\ Priority  \in [Ability -> [Resource -> Nat]]
  /\ ScopeBits \in [Ability -> SUBSET Resource]
  /\ ScopePrio \in [Ability -> [Resource -> Nat]]

(* An ability's scoped tasks take other bits than the ones it claims for   *)
(* its whole life: a scope's release clears the owner of the bit, whatever *)
(* it was taken for.  DashAbility, the one user of scopes, claims Movement *)
(* and scopes Ability.                                                     *)
ASSUME ScopeAssumption == \A a \in Ability : ScopeBits[a] \cap Claimed[a] = {}

VARIABLES
  active,       \* abilities whose IsActive() is true
  actives,      \* _actives, in the vector's order
  owner,        \* _resourceOwner
  claimedMask,  \* _claimedMask; {} also stands for a missing entry
  held,         \* ability -> bits its scopes believe acquired (_acquired)
  phase,        \* where in Arbiter::Tick control is
  cursor,       \* the index i of stage 1
  cur,          \* the local `ab` of stage 1, the candidate of stage 2
  self,         \* ctx.self
  wants,        \* abilities with WantsStart /\ CanStart under this tick's ctx
  tried,        \* the vector `tried` of stage 2
  ticked,       \* ghost: abilities whose body ran in this tick
  preempted     \* ghost: abilities stage 2 cancelled in this tick

vars == << active, actives, owner, claimedMask, held, phase, cursor, cur, self,
           wants, tried, ticked, preempted >>

ledger == << active, actives, owner, claimedMask, held >>

-----------------------------------------------------------------------------
(* The ledger: registration, release, and the vector of running abilities. *)

IsFirstAt(s, a, k) == s[k] = a /\ \A j \in 1..(k - 1) : s[j] # a

\* Bug: the last element is dropped, and the hole it should fill stays.
SwapPop_NoFill(s, a) ==
  IF \E k \in DOMAIN s : s[k] = a
  THEN SubSeq(s, 1, Len(s) - 1)
  ELSE s

\* Erase the first occurrence of a: the last element moves into its place.
SwapPop(s, a) ==
  IF \E k \in DOMAIN s : s[k] = a
  THEN [k \in 1..(Len(s) - 1) |-> IF IsFirstAt(s, a, k) THEN s[Len(s)] ELSE s[k]]
  ELSE s

\* Bug: the mask alone decides, not who owns the bit now.
OwnerWithout_AnyOwner(a) ==
  [r \in Resource |-> IF r \in claimedMask[a] THEN None ELSE owner[r]]

\* The owner table once a's registered bits are given back: only those a
\* still owns, since another ability may have taken a released scope's bit.
OwnerWithout(a) ==
  [r \in Resource |-> IF r \in claimedMask[a] /\ owner[r] = a THEN None ELSE owner[r]]

\* unregisterAbility(a); a is, or is about to be, inactive.
Unregister(a) ==
  /\ actives' = SwapPop(actives, a)
  /\ claimedMask' = [claimedMask EXCEPT ![a] = {}]
  /\ owner' = OwnerWithout(a)

\* registerAbility(a, ClaimedResources()): the mask is overwritten.
Register(a) ==
  /\ actives' = IF \E k \in DOMAIN actives : actives[k] = a THEN actives
                                                          ELSE Append(actives, a)
  /\ claimedMask' = [claimedMask EXCEPT ![a] = Claimed[a]]
  /\ owner' = [r \in Resource |-> IF r \in Claimed[a] THEN a ELSE owner[r]]

\* Bug: the cancelled task is dropped without leaving its scopes.
CancelAbility_KeepScopes(a) ==
  /\ active' = active \ {a}
  /\ held' = held
  /\ self' = None
  /\ Unregister(a)

\* cancelAbility(a): the ability's Cancel leaves its scopes, then it is
\* unregistered.  ctx.self is null afterwards, whoever was running.
CancelAbility(a) ==
  /\ active' = active \ {a}
  /\ held' = [held EXCEPT ![a] = {}]
  /\ self' = None
  /\ Unregister(a)

\* A resource is contested when another running ability owns it.
Busy(r) == owner[r] # None /\ owner[r] \in active

-----------------------------------------------------------------------------
(* Stage 1: tick the running abilities.                                    *)

Init ==
  /\ active = {} /\ actives = << >>
  /\ owner = [r \in Resource |-> None]
  /\ claimedMask = [a \in Ability |-> {}]
  /\ held = [a \in Ability |-> {}]
  /\ phase = "idle" /\ cursor = 1 /\ cur = None /\ self = None
  /\ wants = {} /\ tried = {} /\ ticked = {} /\ preempted = {}

\* The tick's input frame and weapon snapshot do not change during the tick,
\* so which abilities want to start, and may, is settled when it begins.
BeginTick(w) ==
  /\ phase = "idle"
  /\ phase' = "ticking" /\ cursor' = 1 /\ wants' = w
  /\ UNCHANGED << ledger, cur, self, tried, ticked, preempted >>

\* The next entry of _actives gets its Tick; a stale one would be erased.
TickNext ==
  /\ phase = "ticking" /\ cursor <= Len(actives)
  /\ LET a == actives[cursor]
     IN IF a \in active
        THEN /\ phase' = "body" /\ cur' = a /\ self' = a /\ ticked' = ticked \cup {a}
             /\ UNCHANGED << ledger, cursor, wants, tried, preempted >>
        ELSE /\ Unregister(a)
             /\ UNCHANGED << active, held, phase, cursor, cur, self, wants, tried,
                             ticked, preempted >>

\* A scope of the running body takes bit r: acquireRuntime(ctx.self, r, prio)
\* on a bit nobody else holds.
AcquireFree(r) ==
  /\ phase = "body" /\ r \in ScopeBits[cur] \ held[cur]
  /\ self # None
  /\ ~Busy(r) \/ owner[r] = self
  /\ owner' = [owner EXCEPT ![r] = self]
  /\ claimedMask' = [claimedMask EXCEPT ![self] = @ \cup {r}]
  /\ held' = [held EXCEPT ![cur] = @ \cup {r}]
  /\ UNCHANGED << active, actives, phase, cursor, cur, self, wants, tried, ticked,
                  preempted >>

\* ... and on a bit a weaker ability owns: that ability is cancelled first.
\* The comparison uses the owner's ResourcePriority, not the priority with
\* which a scope of the owner may have taken the bit.
AcquireByPreempting(r) ==
  /\ phase = "body" /\ r \in ScopeBits[cur] \ held[cur]
  /\ self # None
  /\ Busy(r) /\ owner[r] # self
  /\ ScopePrio[cur][r] > Priority[owner[r]][r]
  /\ LET o == owner[r]
     IN /\ active' = active \ {o}
        /\ self' = None
        /\ actives' = SwapPop(actives, o)
        /\ owner' = [OwnerWithout(o) EXCEPT ![r] = self]
        /\ claimedMask' = [claimedMask EXCEPT ![o] = {}, ![self] = @ \cup {r}]
        /\ held' = [held EXCEPT ![o] = {}, ![cur] = @ \cup {r}]
  /\ UNCHANGED << phase, cursor, cur, wants, tried, ticked, preempted >>

\* Bug: the scope forgets the bit, the arbiter is not told.
ReleaseScope_OwnerStays(r) ==
  /\ phase = "body" /\ r \in held[cur]
  /\ held' = [held EXCEPT ![cur] = @ \ {r}]
  /\ UNCHANGED << active, actives, owner, claimedMask, phase, cursor, cur, self, wants,
                  tried, ticked, preempted >>

\* A scope of the running body ends.  After a preemption in the same body
\* ctx.self is null, and releaseRuntime(nullptr, bit) returns at once.
ReleaseScope(r) ==
  /\ phase = "body" /\ r \in held[cur]
  /\ held' = [held EXCEPT ![cur] = @ \ {r}]
  /\ owner' = [owner EXCEPT ![r] = IF self # None /\ @ = self THEN None ELSE @]
  /\ UNCHANGED << active, actives, claimedMask, phase, cursor, cur, self, wants,
                  tried, ticked, preempted >>

\* Bug: the index moves on although unregister filled this position.
FinishBody_Advance(ended) ==
  /\ phase = "body" /\ (ended => held[cur] = {})
  /\ phase' = "ticking" /\ self' = None /\ cur' = None /\ cursor' = cursor + 1
  /\ IF ended THEN active' = active \ {cur} /\ Unregister(cur)
              ELSE UNCHANGED << active, actives, owner, claimedMask >>
  /\ UNCHANGED << held, wants, tried, ticked, preempted >>

\* Bug: the index stays although the body goes on.
FinishBody_StayPut(ended) ==
  /\ phase = "body" /\ (ended => held[cur] = {})
  /\ phase' = "ticking" /\ self' = None /\ cur' = None /\ cursor' = cursor
  /\ IF ended THEN active' = active \ {cur} /\ Unregister(cur)
              ELSE UNCHANGED << active, actives, owner, claimedMask >>
  /\ UNCHANGED << held, wants, tried, ticked, preempted >>

\* The body returns: still running, or ended by itself.  A task ends with its
\* scopes left.  An ended ability is unregistered at once, which moves another
\* entry to this index, so the index stays.
FinishBody(ended) ==
  /\ phase = "body" /\ (ended => held[cur] = {})
  /\ phase' = "ticking" /\ self' = None /\ cur' = None
  /\ IF ended THEN active' = active \ {cur} /\ Unregister(cur) /\ UNCHANGED cursor
              ELSE /\ cursor' = cursor + 1
                   /\ UNCHANGED << active, actives, owner, claimedMask >>
  /\ UNCHANGED << held, wants, tried, ticked, preempted >>

\* Bug: the index is left one below the first entry.
EndStage1_ZeroBased ==
  /\ phase = "ticking" /\ cursor > Len(actives)
  /\ phase' = "scan" /\ cursor' = 0
  /\ UNCHANGED << ledger, cur, self, wants, tried, ticked, preempted >>

EndStage1 ==
  /\ phase = "ticking" /\ cursor > Len(actives)
  /\ phase' = "scan" /\ cursor' = 1
  /\ UNCHANGED << ledger, cur, self, wants, tried, ticked, preempted >>

-----------------------------------------------------------------------------
(* Stage 2: start candidates, best score first.                            *)

\* candidateScore: the highest priority over the claimed bits.
Score(a) ==
  IF Claimed[a] = {} THEN -1
  ELSE LET ps == {Priority[a][r] : r \in Claimed[a]}
       IN CHOOSE p \in ps : \A q \in ps : q <= p

\* What the scan of the abilities leaves untried.
Candidates == {a \in wants : a \notin tried /\ a \notin active}

\* Bug: what the scan skipped is not remembered as tried.
TriedAfter_OnlyBest(a) == tried \cup {a}

\* Bug: the best candidate itself is not marked.
TriedAfter_NotBest(a) == Ability \ Candidates

\* Bug: one start ends the scan.
TriedAfter_All(a) == Ability

\* The scan marks everything it skips, running abilities included, and then
\* the candidate it chose.
TriedAfter(a) == (Ability \ Candidates) \cup {a}

\* Ties go to the ability registered first.
IsBest(a) ==
  \A b \in Candidates : Score(a) > Score(b) \/ (Score(a) = Score(b) /\ a <= b)

\* Bug: winning one contested bit is taken for winning them all.
Outranks_Some(a) ==
  LET contested == {r \in Claimed[a] : Busy(r)}
  IN contested = {} \/ \E r \in contested : Priority[a][r] > Priority[owner[r]][r]

\* tryStart compares bit by bit, and a tie keeps the owner.
Outranks(a) ==
  \A r \in Claimed[a] : Busy(r) => Priority[a][r] > Priority[owner[r]][r]

TryCandidate(a) ==
  /\ phase = "scan" /\ a \in Candidates /\ IsBest(a)
  /\ tried' = TriedAfter(a)
  /\ IF Outranks(a) THEN phase' = "start" /\ cur' = a
                    ELSE UNCHANGED << phase, cur >>
  /\ UNCHANGED << ledger, cursor, self, wants, ticked, preempted >>

\* Bug: an owner met before on a lower bit is the only one collected.
Conflicts_First == {r \in Claimed[cur] : Busy(r) /\ \A q \in Claimed[cur] : r <= q}

\* The claimed bits of the candidate that running abilities own.
Conflicts == {r \in Claimed[cur] : Busy(r)}

\* tryStart cancels the collected owners in the order of their lowest bit.
CancelConflict ==
  /\ phase = "start"
  /\ \E r \in Conflicts :
       /\ \A q \in Conflicts : r <= q
       /\ CancelAbility(owner[r])
       /\ preempted' = preempted \cup {owner[r]}
  /\ UNCHANGED << phase, cursor, cur, wants, tried, ticked >>

\* startAbility: every Start in the code leaves the ability active.
StartCandidate ==
  /\ phase = "start" /\ Conflicts = {}
  /\ active' = active \cup {cur}
  /\ Register(cur)
  /\ held' = [held EXCEPT ![cur] = {}]
  /\ phase' = "scan" /\ cur' = None /\ self' = None
  /\ UNCHANGED << cursor, wants, tried, ticked, preempted >>

EndTick ==
  /\ phase = "scan" /\ Candidates = {}
  /\ phase' = "idle" /\ wants' = {} /\ tried' = {} /\ ticked' = {} /\ preempted' = {}
  /\ UNCHANGED << ledger, cursor, cur, self >>

-----------------------------------------------------------------------------
\* The steps that carry a started tick to its end.
TickStep ==
  \/ TickNext
  \/ \E ended \in BOOLEAN : FinishBody(ended)
  \/ EndStage1
  \/ \E a \in Ability : TryCandidate(a)
  \/ CancelConflict
  \/ StartCandidate
  \/ EndTick

ScopeStep ==
  \E r \in Resource : AcquireFree(r) \/ AcquireByPreempting(r) \/ ReleaseScope(r)

Next == (\E w \in SUBSET Ability : BeginTick(w)) \/ ScopeStep \/ TickStep

Spec == Init /\ [][Next]_vars

\* Arbiter::Tick is a plain call: once begun it runs to its end, and an
\* ability's body returns.  Nothing makes the next tick begin.
FairSpec == Spec /\ WF_vars(TickStep)

-----------------------------------------------------------------------------
(* Properties.                                                             *)

\* Every variable keeps its type, including the control state of the tick.
TypeOK ==
  /\ active \subseteq Ability
  /\ actives \in Seq(Ability)
  /\ owner \in [Resource -> Ability \cup {None}]
  /\ claimedMask \in [Ability -> SUBSET Resource]
  /\ held \in [Ability -> SUBSET Resource]
  /\ phase \in {"idle", "ticking", "body", "scan", "start"}
  /\ cursor \in Nat \ {0}
  /\ cur \in Ability \cup {None} /\ self \in Ability \cup {None}
  /\ wants \subseteq Ability /\ tried \subseteq Ability
  /\ ticked \subseteq Ability /\ preempted \subseteq Ability

\* Two running abilities never claim the same resource: what the arbiter is
\* for.  It has to survive runtime scopes that take bits in the middle of
\* stage 1, releases of bits that changed hands, and preemption of several
\* owners at once (tryStart, acquireRuntime, unregisterAbility).
ResourceExclusive ==
  \A a, b \in active : a # b => Claimed[a] \cap Claimed[b] = {}

\* The ledger never outlives its abilities: an owner is running, has the bit
\* in its registered mask, and holds every bit it claims; nothing else holds
\* a running ability's claims.
LedgerSound ==
  /\ \A r \in Resource : owner[r] # None =>
       owner[r] \in active /\ r \in claimedMask[owner[r]]
  /\ \A a \in active : \A r \in Claimed[a] : owner[r] = a

\* _actives lists exactly the running abilities, each once, through every
\* swap-pop: an entry lost would never be ticked, a stale one would be ticked
\* or unregistered twice.
ActivesExact ==
  /\ active = {actives[k] : k \in DOMAIN actives}
  /\ \A j, k \in DOMAIN actives : actives[j] = actives[k] => j = k

\* A scope that believes it holds a bit is the bit's owner in the table: the
\* belief lives in the task (ScopedResourceTask::_acquired), the truth in the
\* arbiter, and a preemption has to bring both down.
HeldIsOwned == \A a \in Ability : \A r \in held[a] : owner[r] = a

\* The four places that say who runs with what (_resources, _claimedMask,
\* _actives and the scopes' beliefs) agree after every step, although each
\* removal changes them one after another.
TablesAgree == LedgerSound /\ ActivesExact /\ HeldIsOwned

\* No body runs twice in one tick, although entries move while stage 1 walks
\* the vector: a second run would count an ability's timers down twice.
TickedOnce == [][\A a \in Ability : (phase' = "body" /\ phase # "body" /\ cur' = a)
                                       => a \notin ticked]_vars

\* An ability that a candidate preempted is not started again in the tick
\* that cancelled it, even if its input still asks for it (the `tried` marks).
PreemptedStaysDown == [][(active' \ active) \cap preempted = {}]_vars

\* An ability stops only because its own body ended, or because the ability
\* at work outranks it on a bit it owned.  The comparison is made before the
\* first cancellation, the cancellations later, one by one.
OnlyOutrankedStop ==
  [][\A o \in active \ active' :
       \/ phase = "body" /\ o = cur
       \/ \E r \in Resource : owner[r] = o /\
            \/ r \in Claimed[cur] /\ Priority[cur][r] > Priority[o][r]
            \/ r \in ScopeBits[cur] /\ ScopePrio[cur][r] > Priority[o][r]]_vars

\* A tick that has begun ends: neither the erasing walk of stage 1 nor the
\* scan-and-retry loop of stage 2 runs forever.
TickTerminates == (phase # "idle") ~> (phase = "idle")

\* Stage 1 as its comment states it ("tick all active abilities"): once it is
\* over, every running ability had its body run in this tick.
AllActivesTicked == (phase = "scan" /\ tried = {}) => active \subseteq ticked

\* A scope that has been left no longer owns its bit: whatever a running
\* ability owns beyond its claims is still held by one of its scopes.
LeftScopesFree ==
  \A r \in Resource : owner[r] # None =>
    r \in Claimed[owner[r]] \cup held[owner[r]]
=============================================================================
