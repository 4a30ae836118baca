------------------------ MODULE HeroGameplayProofs ------------------------
(***************************************************************************)
(* Proofs about a hero's tick, for any magazine, any durations and ticks   *)
(* of any length: the hero runs the arbiter, so what AbilityArbiterProofs  *)
(* says of every table of abilities holds for its own; the weapon and its  *)
(* abilities keep in step; and the weapon slot is what WeaponSlot says.    *)
(***************************************************************************)
EXTENDS HeroGameplay, TLAPS

AP == INSTANCE AbilityArbiterStepProofs
        WITH NumAbilities <- 4, NumResources <- 3, Claimed <- HeroClaimed,
             Priority <- HeroPriority, ScopeBits <- HeroScopes,
             ScopePrio <- HeroScopePrio

-----------------------------------------------------------------------------
\* A step of the hero is a step of the arbiter or leaves it alone, with the
\* table of HeroEntity's constructor, which the arbiter's assumptions allow.
THEOREM HeroRunsArbiter ==
  /\ AP!SizeAssumption /\ AP!TableAssumption /\ AP!ScopeAssumption
  /\ Spec => AP!Spec
<1>1. AP!SizeAssumption /\ AP!TableAssumption /\ AP!ScopeAssumption
  <2>1. AP!SizeAssumption
    BY DEF AP!SizeAssumption
  <2>2. AP!ScopeAssumption
    BY DEF AP!ScopeAssumption, AP!Ability, HeroScopes, HeroClaimed, Movement, WeaponOp, AbilitySlot
  <2>3. AP!TableAssumption
    BY DEF AP!TableAssumption, AP!Ability, AP!Resource, HeroScopes, HeroClaimed, HeroScopePrio,
       HeroPriority, HeroAbility, DashPriority, MeleePriority, ReloadPriority, FirePriority,
       Movement, WeaponOp, AbilitySlot
  <2>4. QED BY <2>1, <2>2, <2>3
<1>2. Init => AP!Init
  BY DEF Init, A!Init, AP!Init, A!Resource, AP!Resource, A!Ability, AP!Ability, A!None, AP!None
<1>3. ASSUME BeginTick PROVE AP!Next
  <2>1. PICK w : A!BeginTick(w) /\ w \subseteq HeroAbility
    BY <1>3 DEF BeginTick, Wanted
  <2>2. w \in SUBSET AP!Ability /\ AP!BeginTick(w)
    BY <2>1 DEF A!BeginTick, AP!BeginTick, AP!Ability, HeroAbility, A!ledger, AP!ledger
  <2>3. QED BY <2>2 DEF AP!Next
<1>4. ASSUME TickNext PROVE AP!Next
  <2>1. AP!TickNext
    BY <1>4 DEF TickNext, A!TickNext, AP!TickNext, A!Unregister, AP!Unregister, A!SwapPop, AP!SwapPop,
       A!IsFirstAt, AP!IsFirstAt, A!OwnerWithout, AP!OwnerWithout, A!Resource, AP!Resource,
       A!None, AP!None, A!ledger, AP!ledger
  <2>2. QED BY <2>1 DEF AP!Next, AP!TickStep
<1>5. ASSUME DashAcquires \/ DashLeavesScope PROVE AP!Next
  <2>1. AbilitySlot \in AP!Resource
    BY DEF AbilitySlot, AP!Resource
  <2>2. AP!AcquireFree(AbilitySlot) \/ AP!ReleaseScope(AbilitySlot)
    BY <1>5 DEF DashAcquires, DashLeavesScope, A!AcquireFree, AP!AcquireFree, A!ReleaseScope,
       AP!ReleaseScope, A!Busy, AP!Busy, A!None, AP!None
  <2>3. QED BY <2>1, <2>2 DEF AP!Next, AP!ScopeStep
<1>6. ASSUME NEW ended \in BOOLEAN, A!FinishBody(ended) PROVE AP!Next
  <2>1. AP!FinishBody(ended)
    BY <1>6 DEF A!FinishBody, AP!FinishBody, A!Unregister, AP!Unregister, A!SwapPop, AP!SwapPop,
       A!IsFirstAt, AP!IsFirstAt, A!OwnerWithout, AP!OwnerWithout, A!Resource, AP!Resource,
       A!None, AP!None
  <2>2. QED BY <2>1 DEF AP!Next, AP!TickStep
<1>7. ASSUME DashEnds \/ FireBody \/ MeleeBody \/ ReloadBody PROVE AP!Next
  <2>1. \E ended \in BOOLEAN : A!FinishBody(ended)
    <3>1. FireStops \in BOOLEAN
      BY DEF FireStops
    <3>2. CASE DashEnds
      BY <3>2 DEF DashEnds
    <3>3. CASE FireBody
      BY <3>1, <3>3 DEF FireBody
    <3>4. CASE MeleeBody
      BY <3>4 DEF MeleeBody
    <3>5. CASE ReloadBody
      BY <3>5 DEF ReloadBody
    <3>6. QED BY <1>7, <3>2, <3>3, <3>4, <3>5
  <2>2. QED BY <1>6, <2>1
<1>8. ASSUME EndStage1 \/ EndTick PROVE AP!Next
  <2>1. AP!EndStage1 \/ AP!EndTick
    BY <1>8 DEF EndStage1, EndTick, A!EndStage1, AP!EndStage1, A!EndTick, AP!EndTick, A!Candidates,
       AP!Candidates, A!ledger, AP!ledger
  <2>2. QED BY <2>1 DEF AP!Next, AP!TickStep
<1>9. ASSUME TryCandidate PROVE AP!Next
  <2>1. PICK a \in HeroAbility : A!TryCandidate(a)
    BY <1>9 DEF TryCandidate
  <2>2. \A b : A!Score(b) = AP!Score(b)
    BY DEF A!Score, AP!Score
  <2>3. AP!TryCandidate(a) /\ a \in AP!Ability
    BY <2>1, <2>2 DEF A!TryCandidate, AP!TryCandidate, A!Candidates, AP!Candidates, A!IsBest, AP!IsBest,
       A!TriedAfter, AP!TriedAfter, A!Outranks, AP!Outranks, A!Busy, AP!Busy, A!None, AP!None,
       A!Ability, AP!Ability, HeroAbility, A!ledger, AP!ledger
  <2>4. QED BY <2>3 DEF AP!Next, AP!TickStep
<1>10. ASSUME CancelConflict \/ StartCandidate PROVE AP!Next
  <2>1. AP!CancelConflict \/ AP!StartCandidate
    BY <1>10 DEF CancelConflict, StartCandidate, A!CancelConflict, AP!CancelConflict, A!StartCandidate,
       AP!StartCandidate, A!Conflicts, AP!Conflicts, A!Busy, AP!Busy, A!CancelAbility, AP!CancelAbility,
       A!Unregister, AP!Unregister, A!SwapPop, AP!SwapPop, A!IsFirstAt, AP!IsFirstAt,
       A!OwnerWithout, AP!OwnerWithout, A!Register, AP!Register, A!Resource, AP!Resource, A!None, AP!None
  <2>2. QED BY <2>1 DEF AP!Next, AP!TickStep
<1>11. UNCHANGED vars => UNCHANGED AP!vars
  BY DEF vars, arbiterVars, AP!vars
<1>12. [Next]_vars => [AP!Next]_AP!vars
  BY <1>3, <1>4, <1>5, <1>7, <1>8, <1>9, <1>10, <1>11 DEF Next, TickStep
<1>13. Spec => AP!Spec
  BY <1>2, <1>12, PTL DEF Spec, AP!Spec
<1>14. QED BY <1>1, <1>13

-----------------------------------------------------------------------------
(* What the arbiter's own invariants say of this table of abilities.        *)

(* Types, the ledger, and the candidate: it is not running, what runs is not *)
(* a candidate any more, and only a melee starts while another ability has   *)
(* the weapon.                                                               *)
ArbInv ==
  /\ active \subseteq HeroAbility /\ actives \in Seq(HeroAbility)
  /\ owner \in [1..3 -> 0..4] /\ held \in [HeroAbility -> SUBSET (1..3)]
  /\ phase \in {"idle", "ticking", "body", "scan", "start"} /\ cursor \in Nat \ {0}
  /\ wants \subseteq HeroAbility /\ tried \subseteq HeroAbility /\ ticked \subseteq HeroAbility
  /\ active = {actives[k] : k \in DOMAIN actives}
  /\ \A j, k \in DOMAIN actives : actives[j] = actives[k] => j = k
  /\ \A r \in 1..3 : owner[r] # 0 => owner[r] \in active
  /\ \A a \in active : \A r \in HeroClaimed[a] : owner[r] = a
  /\ \A a \in HeroAbility : held[a] \subseteq HeroScopes[a] /\ \A r \in held[a] : owner[r] = a
  /\ phase = "body" => cur \in active
  /\ phase = "start" => /\ cur \in tried \ active /\ active \subseteq tried
                        /\ cur \in {Fire, Reload} => active \cap WeaponAbility = {}

(* The walk has run what stands before its index, and nothing else.          *)
WalkInv ==
  /\ phase = "idle" => ticked = {}
  /\ phase = "ticking" => \A k \in DOMAIN actives : k < cursor <=> actives[k] \in ticked
  /\ phase = "body" => /\ \A k \in DOMAIN actives : k <= cursor <=> actives[k] \in ticked
                       /\ cursor \in DOMAIN actives /\ actives[cursor] = cur /\ self = cur
  /\ phase = "scan" /\ tried = {} => active \subseteq ticked
  /\ phase \notin {"scan", "start"} => tried = {}

(* Only a dash's body is ever inside a scope.                                *)
ScopesInv ==
  /\ \A r \in 1..3 : owner[r] # 0 => r \in HeroClaimed[owner[r]] \cup held[owner[r]]
  /\ \A a \in HeroAbility : held[a] # {} =>
       a = Dash /\ phase = "body" /\ cur = Dash /\ dashStep = "dashed"

TickInv == ArbInv /\ WalkInv /\ ScopesInv

\* The table of HeroEntity's constructor, entry by entry.
LEMMA HeroTable ==
  /\ Dash = 1 /\ Fire = 2 /\ Melee = 3 /\ Reload = 4 /\ HeroAbility = {Dash, Fire, Melee, Reload}
  /\ Movement = 1 /\ WeaponOp = 2 /\ AbilitySlot = 3 /\ 1..3 = {Movement, WeaponOp, AbilitySlot}
  /\ HeroClaimed[Dash] = {Movement} /\ \A a \in WeaponAbility : HeroClaimed[a] = {WeaponOp}
  /\ HeroScopes[Dash] = {AbilitySlot} /\ \A a \in WeaponAbility : HeroScopes[a] = {}
  /\ HeroPriority[Melee][WeaponOp] = 100
  /\ \A a \in {Fire, Reload} : HeroPriority[a][WeaponOp] = 20
  /\ WeaponAbility = {Fire, Melee, Reload}
BY DEF Dash, Fire, Melee, Reload, HeroAbility, Movement, WeaponOp, AbilitySlot, WeaponAbility,
   HeroClaimed, HeroScopes, HeroPriority, FirePriority, MeleePriority, ReloadPriority

-----------------------------------------------------------------------------
(* The steps of a tick, in the words of the abilities.                      *)

(* The body at work returns, ended or not.                                   *)
BodyReturns(ended) ==
  /\ phase = "body" /\ phase' = "ticking" /\ cur \in active /\ cur \in ticked
  /\ active' = IF ended THEN active \ {cur} ELSE active
  /\ UNCHANGED << wants, tried, ticked >>

(* The scan chooses a: it starts if it outranks what is in its way.          *)
Chosen(a) ==
  /\ a \in wants \ (tried \cup active)
  /\ a \in tried' /\ tried \subseteq tried' /\ \A b \in wants \cap tried' : b \in {a} \cup tried \cup active
  /\ \/ phase' = "scan" /\ cur' = cur /\ a \in {Fire, Reload}
     \/ phase' = "start" /\ cur' = a /\ (a \in {Fire, Reload} => active \cap WeaponAbility = {})

\* What each step of a tick does to the running abilities: it is a melee only
\* that cancels, and what it cancels is a burst or a reload.
LEMMA HeroSteps ==
  ASSUME TickInv
  PROVE  /\ BeginTick => /\ phase = "idle" /\ phase' = "ticking"
                         /\ UNCHANGED << active, cur, tried, ticked >>
         /\ TickNext => /\ phase = "ticking" /\ phase' = "body" /\ cur' \in active \ ticked
                        /\ ticked' = ticked \cup {cur'} /\ UNCHANGED << active, wants, tried >>
         /\ DashAcquires \/ DashLeavesScope =>
              phase = "body" /\ UNCHANGED << phase, cur, active, wants, tried, ticked >>
         /\ DashEnds => BodyReturns(TRUE) /\ cur = Dash /\ dashStep = "left"
         /\ FireBody => BodyReturns(FireStops) /\ cur = Fire
         /\ MeleeBody => BodyReturns(SeqAfter(task[Melee], PostHit).i = 4) /\ cur = Melee
         /\ ReloadBody => BodyReturns(SeqAfter(task[Reload], PostReload).i = 4) /\ cur = Reload
         /\ EndStage1 => /\ phase = "ticking" /\ phase' = "scan" /\ active \subseteq ticked
                         /\ UNCHANGED << active, wants, tried, ticked >>
         /\ TryCandidate => /\ phase = "scan" /\ UNCHANGED << active, wants, ticked >>
                            /\ \E a \in HeroAbility : Chosen(a)
         /\ CancelConflict => /\ phase = "start" /\ cur = Melee
                              /\ \E o \in {Fire, Reload} \cap active : active' = active \ {o}
                              /\ UNCHANGED << phase, cur, wants, tried, ticked >>
         /\ StartCandidate => /\ phase = "start" /\ phase' = "scan" /\ cur \in HeroAbility
                              /\ cur # Dash => active \cap WeaponAbility = {}
                              /\ active' = active \cup {cur} /\ UNCHANGED << wants, tried, ticked >>
         /\ EndTick => /\ phase = "scan" /\ phase' = "idle" /\ wants \subseteq tried \cup active
                       /\ active' = active /\ tried' = {} /\ ticked' = {}
<1> USE DEF TickInv
<1>1. BeginTick => /\ phase = "idle" /\ phase' = "ticking" /\ UNCHANGED << active, cur, tried, ticked >>
  BY DEF BeginTick, A!BeginTick, A!ledger
<1>2. TickNext => /\ phase = "ticking" /\ phase' = "body" /\ cur' \in active \ ticked
                  /\ ticked' = ticked \cup {cur'} /\ UNCHANGED << active, wants, tried >>
  <2> SUFFICES ASSUME TickNext
               PROVE  /\ phase = "ticking" /\ phase' = "body" /\ cur' \in active \ ticked
                      /\ ticked' = ticked \cup {cur'} /\ UNCHANGED << active, wants, tried >>
    OBVIOUS
  <2>1. phase = "ticking" /\ cursor <= Len(actives)
    BY DEF TickNext, A!TickNext
  <2>2. cursor \in DOMAIN actives
    BY <2>1 DEF ArbInv
  <2>3. actives[cursor] \in active
    BY <2>2 DEF ArbInv
  <2>4. actives[cursor] \notin ticked
    <3>1. ~(cursor < cursor)
      BY DEF ArbInv
    <3>2. QED BY <2>1, <2>2, <3>1 DEF WalkInv
  <2>5. phase' = "body" /\ cur' = actives[cursor] /\ ticked' = ticked \cup {actives[cursor]}
        /\ UNCHANGED << active, wants, tried >>
    BY <2>3 DEF TickNext, A!TickNext, A!ledger
  <2>6. QED BY <2>1, <2>3, <2>4, <2>5
<1>3. DashAcquires \/ DashLeavesScope =>
        phase = "body" /\ UNCHANGED << phase, cur, active, wants, tried, ticked >>
  BY DEF DashAcquires, DashLeavesScope, A!AcquireFree, A!ReleaseScope
<1>4. ASSUME NEW e \in BOOLEAN, A!FinishBody(e) PROVE BodyReturns(e)
  <2>1. phase = "body" /\ cur \in active
    BY <1>4 DEF A!FinishBody, ArbInv
  <2>2. cur \in ticked
    <3>1. cursor \in DOMAIN actives /\ actives[cursor] = cur /\ cursor <= cursor
      BY <2>1 DEF WalkInv, ArbInv
    <3>2. QED BY <2>1, <3>1 DEF WalkInv
  <2>3. QED BY <1>4, <2>1, <2>2 DEF A!FinishBody, BodyReturns
<1>5. DashEnds => BodyReturns(TRUE) /\ cur = Dash /\ dashStep = "left"
  <2> SUFFICES ASSUME DashEnds PROVE BodyReturns(TRUE) /\ cur = Dash /\ dashStep = "left"
    OBVIOUS
  <2>1. cur = Dash /\ A!FinishBody(TRUE) /\ (dashStep = "left" \/ (dashStep = "enter" /\ A!Busy(AbilitySlot)))
    BY DEF DashEnds
  <2>2. ASSUME dashStep = "enter", A!Busy(AbilitySlot) PROVE FALSE
    <3>1. owner[AbilitySlot] \in HeroAbility /\ owner[AbilitySlot] # 0 /\ AbilitySlot \in 1..3
      BY <2>2, HeroTable DEF A!Busy, A!None, ArbInv
    <3>2. AbilitySlot \notin HeroClaimed[owner[AbilitySlot]]
      BY <3>1, HeroTable
    <3>3. held[owner[AbilitySlot]] # {}
      BY <3>1, <3>2 DEF ScopesInv
    <3>4. QED BY <2>2, <3>1, <3>3 DEF ScopesInv
  <2>3. QED BY <1>4, <2>1, <2>2
<1>6. FireBody => BodyReturns(FireStops) /\ cur = Fire
  <2>1. FireStops \in BOOLEAN
    BY DEF FireStops
  <2>2. QED BY <1>4, <2>1 DEF FireBody
<1>7. MeleeBody => BodyReturns(SeqAfter(task[Melee], PostHit).i = 4) /\ cur = Melee
  BY <1>4 DEF MeleeBody
<1>8. ReloadBody => BodyReturns(SeqAfter(task[Reload], PostReload).i = 4) /\ cur = Reload
  BY <1>4 DEF ReloadBody
<1>9. EndStage1 => /\ phase = "ticking" /\ phase' = "scan" /\ active \subseteq ticked
                   /\ UNCHANGED << active, wants, tried, ticked >>
  <2> SUFFICES ASSUME EndStage1 PROVE phase = "ticking" /\ active \subseteq ticked
    BY DEF EndStage1, A!EndStage1, A!ledger
  <2>1. phase = "ticking" /\ cursor > Len(actives) /\ actives \in Seq(HeroAbility) /\ cursor \in Nat
    BY DEF EndStage1, A!EndStage1, ArbInv
  <2>2. \A k \in DOMAIN actives : k < cursor
    BY <2>1
  <2>3. QED BY <2>1, <2>2 DEF ArbInv, WalkInv
<1>10. TryCandidate => /\ phase = "scan" /\ UNCHANGED << active, wants, ticked >>
                       /\ \E a \in HeroAbility : Chosen(a)
  <2> SUFFICES ASSUME TryCandidate
               PROVE  /\ phase = "scan" /\ UNCHANGED << active, wants, ticked >>
                      /\ \E a \in HeroAbility : Chosen(a)
    OBVIOUS
  <2>1. PICK a \in HeroAbility : A!TryCandidate(a)
    BY DEF TryCandidate
  <2>2. /\ phase = "scan" /\ UNCHANGED << active, wants, ticked, owner >>
        /\ a \in wants \ (tried \cup active) /\ tried' = (HeroAbility \ A!Candidates) \cup {a}
        /\ IF A!Outranks(a) THEN phase' = "start" /\ cur' = a ELSE phase' = phase /\ cur' = cur
    BY <2>1 DEF A!TryCandidate, A!Candidates, A!TriedAfter, A!ledger, A!Ability, HeroAbility
  <2>3. a \in tried' /\ tried \subseteq tried' /\ \A b \in wants \cap tried' : b \in {a} \cup tried \cup active
    BY <2>2 DEF A!Candidates, ArbInv
  <2>4. CASE A!Outranks(a)
    <3>1. ASSUME a \in {Fire, Reload}, NEW b \in active \cap WeaponAbility PROVE FALSE
      <4>1. owner[WeaponOp] = b /\ b # 0 /\ WeaponOp \in HeroClaimed[a]
        BY <3>1, HeroTable DEF ArbInv
      <4>2. HeroPriority[a][WeaponOp] > HeroPriority[b][WeaponOp]
        BY <2>4, <3>1, <4>1 DEF A!Outranks, A!Busy, A!None
      <4>3. QED BY <3>1, <4>2, HeroTable
    <3>2. QED BY <2>2, <2>3, <2>4, <3>1 DEF Chosen
  <2>5. CASE ~A!Outranks(a)
    <3>1. PICK r \in HeroClaimed[a] : A!Busy(r) /\ ~(HeroPriority[a][r] > HeroPriority[owner[r]][r])
      BY <2>5 DEF A!Outranks
    <3>2. r \in 1..3 /\ owner[r] \in active /\ owner[r] \in HeroAbility /\ owner[r] # 0
      BY <3>1, HeroTable DEF A!Busy, A!None, ArbInv
    <3>3. r \notin held[owner[r]]
      BY <2>2, <3>2 DEF ScopesInv
    <3>4. r \in HeroClaimed[owner[r]]
      BY <3>2, <3>3 DEF ScopesInv
    <3>5. owner[r] # a
      BY <2>2, <3>2
    <3>6. a \in {Fire, Reload}
      <4>1. a # Dash
        BY <3>1, <3>2, <3>4, <3>5, HeroTable
      <4>2. a # Melee
        <5>1. ASSUME a = Melee PROVE owner[r] \in {Fire, Reload} /\ r = WeaponOp
          BY <3>1, <3>2, <3>4, <3>5, <5>1, HeroTable
        <5>2. QED BY <3>1, <5>1, HeroTable
      <4>3. QED BY <4>1, <4>2, HeroTable
    <3>7. QED BY <2>2, <2>3, <2>5, <3>6 DEF Chosen
  <2>6. QED BY <2>2, <2>4, <2>5
<1>11. CancelConflict => /\ phase = "start" /\ cur = Melee
                         /\ \E o \in {Fire, Reload} \cap active : active' = active \ {o}
                         /\ UNCHANGED << phase, cur, wants, tried, ticked >>
  <2> SUFFICES ASSUME CancelConflict
               PROVE  /\ phase = "start" /\ cur = Melee
                      /\ \E o \in {Fire, Reload} \cap active : active' = active \ {o}
                      /\ UNCHANGED << phase, cur, wants, tried, ticked >>
    OBVIOUS
  <2>1. phase = "start" /\ UNCHANGED << phase, cur, wants, tried, ticked >>
    BY DEF CancelConflict, A!CancelConflict
  <2>2. PICK r \in HeroClaimed[cur] : owner[r] # 0 /\ owner[r] \in active /\ active' = active \ {owner[r]}
    BY DEF CancelConflict, A!CancelConflict, A!Conflicts, A!Busy, A!CancelAbility, A!None
  <2>3. cur \in HeroAbility /\ cur \notin active /\ (cur \in {Fire, Reload} => active \cap WeaponAbility = {})
    BY <2>1 DEF ArbInv
  <2>4. r \in 1..3 /\ owner[r] \in HeroAbility /\ owner[r] # cur
    BY <2>2, <2>3, HeroTable DEF ArbInv
  <2>5. r \in HeroClaimed[owner[r]]
    BY <2>1, <2>2, <2>4 DEF ScopesInv
  <2>6. cur \in WeaponAbility /\ owner[r] \in WeaponAbility
    BY <2>2, <2>3, <2>4, <2>5, HeroTable
  <2>7. cur = Melee
    BY <2>2, <2>3, <2>6, HeroTable
  <2>8. owner[r] \in {Fire, Reload}
    BY <2>4, <2>6, <2>7, HeroTable
  <2>9. QED BY <2>1, <2>2, <2>7, <2>8
<1>12. StartCandidate => /\ phase = "start" /\ phase' = "scan" /\ cur \in HeroAbility
                         /\ cur # Dash => active \cap WeaponAbility = {}
                         /\ active' = active \cup {cur} /\ UNCHANGED << wants, tried, ticked >>
  <2> SUFFICES ASSUME StartCandidate
               PROVE  /\ phase = "start" /\ phase' = "scan" /\ cur \in HeroAbility
                      /\ cur # Dash => active \cap WeaponAbility = {}
                      /\ active' = active \cup {cur} /\ UNCHANGED << wants, tried, ticked >>
    OBVIOUS
  <2>1. /\ phase = "start" /\ phase' = "scan" /\ active' = active \cup {cur}
        /\ UNCHANGED << wants, tried, ticked >> /\ A!Conflicts = {}
    BY DEF StartCandidate, A!StartCandidate
  <2>2. cur \in HeroAbility
    BY <2>1 DEF ArbInv
  <2>3. ASSUME cur # Dash, NEW a \in active \cap WeaponAbility PROVE FALSE
    <3>1. WeaponOp \in HeroClaimed[cur] /\ WeaponOp \in HeroClaimed[a] /\ a # 0 /\ WeaponOp \in 1..3
      BY <2>2, <2>3, HeroTable
    <3>2. owner[WeaponOp] = a
      BY <2>3, <3>1 DEF ArbInv
    <3>3. WeaponOp \in A!Conflicts
      BY <2>3, <3>1, <3>2 DEF A!Conflicts, A!Busy, A!None
    <3>4. QED BY <2>1, <3>3
  <2>4. QED BY <2>1, <2>2, <2>3
<1>13. EndTick => /\ phase = "scan" /\ phase' = "idle" /\ wants \subseteq tried \cup active
                  /\ active' = active /\ tried' = {} /\ ticked' = {}
  BY DEF EndTick, A!EndTick, A!Candidates, A!ledger
<1>14. QED BY <1>1, <1>2, <1>3, <1>5, <1>6, <1>7, <1>8, <1>9, <1>10, <1>11, <1>12, <1>13

\* A tick's walk misses nobody and repeats nobody, and a scope that is left
\* holds nothing: in a hero's tables nothing is preempted at run time.
THEOREM TickInvariant == Spec => []TickInv
\* The arbiter's invariants, read for a hero: its theorems hold for every table.
<1>1. Spec => []ArbInv
  <2>1. AP!SizeAssumption /\ AP!TableAssumption /\ AP!ScopeAssumption /\ (Spec => AP!Spec)
    BY HeroRunsArbiter
  <2>2. AP!Spec => [](AP!ActivesInv /\ AP!PreemptionInv)
    BY <2>1, AP!ActivesInvariant, AP!PreemptInvariant, PTL
  <2>3. ASSUME AP!ActivesInv, AP!PreemptionInv PROVE ArbInv
    <3> USE <2>3
    <3>1. AP!Ability = HeroAbility /\ AP!Resource = 1..3 /\ AP!None = 0 /\ HeroAbility = 1..4
      BY DEF AP!Ability, AP!Resource, AP!None, HeroAbility
    <3>2. /\ AP!TypeOK /\ AP!CurIsAbility /\ AP!ControlInv /\ AP!ScopesOnly /\ AP!LedgerSound
          /\ AP!HeldIsOwned /\ AP!ActivesExact /\ AP!PreemptInv
      BY DEF AP!ActivesInv, AP!PreemptionInv, AP!LedgerInv, AP!TypeInv
    <3>3. /\ active \subseteq HeroAbility /\ actives \in Seq(HeroAbility)
          /\ owner \in [1..3 -> 0..4] /\ held \in [HeroAbility -> SUBSET (1..3)]
          /\ phase \in {"idle", "ticking", "body", "scan", "start"} /\ cursor \in Nat \ {0}
          /\ wants \subseteq HeroAbility /\ tried \subseteq HeroAbility /\ ticked \subseteq HeroAbility
      <4>1. HeroAbility \cup {0} = 0..4
        BY <3>1
      <4>2. QED BY <3>1, <3>2, <4>1 DEF AP!TypeOK
    <3>4. /\ active = {actives[k] : k \in DOMAIN actives}
          /\ \A j, k \in DOMAIN actives : actives[j] = actives[k] => j = k
      BY <3>2 DEF AP!ActivesExact
    <3>5. /\ \A r \in 1..3 : owner[r] # 0 => owner[r] \in active
          /\ \A a \in active : \A r \in HeroClaimed[a] : owner[r] = a
      BY <3>1, <3>2 DEF AP!LedgerSound
    <3>6. \A a \in HeroAbility : held[a] \subseteq HeroScopes[a] /\ \A r \in held[a] : owner[r] = a
      BY <3>1, <3>2 DEF AP!ScopesOnly, AP!HeldIsOwned
    <3>7. phase = "body" => cur \in active
      BY <3>2 DEF AP!ControlInv
    <3>8. ASSUME phase = "start"
          PROVE  /\ cur \in tried \ active /\ active \subseteq tried
                 /\ cur \in {Fire, Reload} => active \cap WeaponAbility = {}
      <4>1. cur \in tried \ active /\ active \subseteq tried /\ AP!Outranks(cur)
        BY <3>2, <3>8 DEF AP!ControlInv, AP!PreemptInv
      <4>2. ASSUME cur \in {Fire, Reload}, NEW a \in active \cap WeaponAbility PROVE FALSE
        <5>1. owner[WeaponOp] = a /\ a # 0 /\ WeaponOp \in HeroClaimed[cur]
          BY <3>5, <4>2, HeroTable
        <5>2. HeroPriority[cur][WeaponOp] > HeroPriority[a][WeaponOp]
          BY <3>1, <4>1, <4>2, <5>1 DEF AP!Outranks, AP!Busy
        <5>3. QED BY <4>2, <5>2, HeroTable
      <4>3. QED BY <4>1, <4>2
    <3>9. QED BY <3>3, <3>4, <3>5, <3>6, <3>7, <3>8 DEF ArbInv
  <2>4. QED BY <2>1, <2>2, <2>3, PTL
<1>2. Init => WalkInv /\ ScopesInv
  BY DEF Init, A!Init, A!Resource, A!Ability, A!None, WalkInv, ScopesInv, HeroAbility
<1>3. ASSUME TickInv, ArbInv', [Next]_vars PROVE WalkInv'
  <2> USE <1>3 DEF TickInv
  <2>0. Len(actives) \in Nat /\ DOMAIN actives = 1..Len(actives) /\ cursor \in Nat /\ cursor # 0
    BY DEF ArbInv
  <2>1. CASE BeginTick
    <3>1. phase' = "ticking" /\ cursor' = 1 /\ ticked' = {} /\ tried' = {} /\ actives' = actives
      BY <2>1 DEF BeginTick, A!BeginTick, A!ledger, WalkInv
    <3>2. \A k \in DOMAIN actives : ~(k < 1)
      BY <2>0
    <3>3. QED BY <3>1, <3>2 DEF WalkInv
  <2>2. CASE TickNext
    <3>1. phase = "ticking" /\ phase' = "body" /\ cur' \in active /\ ticked' = ticked \cup {cur'} /\ tried' = tried
      BY <2>2, HeroSteps
    <3>2. cursor \in DOMAIN actives
      BY <2>0, <2>2 DEF TickNext, A!TickNext
    <3>3. actives[cursor] \in active
      BY <3>2 DEF ArbInv
    <3>4. cur' = actives[cursor] /\ self' = cur' /\ cursor' = cursor /\ actives' = actives
      BY <2>2, <3>3 DEF TickNext, A!TickNext, A!ledger
    <3>5. ASSUME NEW k \in DOMAIN actives PROVE k <= cursor <=> actives[k] \in ticked'
      <4>1. k < cursor <=> actives[k] \in ticked
        BY <3>1 DEF WalkInv
      <4>2. actives[k] = cur' <=> k = cursor
        BY <3>2, <3>4 DEF ArbInv
      <4>3. k \in Nat
        BY <2>0
      <4>4. QED BY <2>0, <3>1, <4>1, <4>2, <4>3
    <3>6. QED BY <3>1, <3>2, <3>4, <3>5 DEF WalkInv
  <2>3. CASE DashAcquires \/ DashLeavesScope
    BY <2>3 DEF DashAcquires, DashLeavesScope, A!AcquireFree, A!ReleaseScope, WalkInv
  <2>4. ASSUME NEW e \in BOOLEAN, A!FinishBody(e) PROVE WalkInv'
    <3>1. /\ phase = "body" /\ phase' = "ticking" /\ ticked' = ticked /\ tried' = tried
          /\ cursor \in DOMAIN actives /\ actives[cursor] = cur
      BY <2>4 DEF A!FinishBody, WalkInv
    <3>2. \A k \in DOMAIN actives : k <= cursor <=> actives[k] \in ticked
      BY <3>1 DEF WalkInv
    <3>3. CASE ~e
      <4>1. actives' = actives /\ cursor' = cursor + 1
        BY <2>4, <3>3 DEF A!FinishBody
      <4>2. \A k \in DOMAIN actives : k < cursor + 1 <=> k <= cursor
        BY <2>0
      <4>3. QED BY <3>1, <3>2, <4>1, <4>2 DEF WalkInv
    <3>4. CASE e
      <4>1. actives' = A!SwapPop(actives, cur) /\ cursor' = cursor
        BY <2>4, <3>4 DEF A!FinishBody, A!Unregister
      <4>2. \A k \in DOMAIN actives : A!IsFirstAt(actives, cur, k) <=> k = cursor
        <5>1. \A k \in DOMAIN actives : actives[k] = cur <=> k = cursor
          BY <3>1 DEF ArbInv
        <5>2. \A k \in DOMAIN actives : \A j \in 1..(k - 1) : j \in DOMAIN actives /\ j # k
          BY <2>0
        <5>3. QED BY <3>1, <5>1, <5>2 DEF A!IsFirstAt
      <4>3. /\ DOMAIN actives' = 1..(Len(actives) - 1)
            /\ \A k \in 1..(Len(actives) - 1) : k # cursor => actives'[k] = actives[k]
            /\ cursor \in 1..(Len(actives) - 1) => actives'[cursor] = actives[Len(actives)]
        BY <2>0, <3>1, <4>1, <4>2 DEF A!SwapPop
      <4>4. ASSUME NEW k \in DOMAIN actives' PROVE k < cursor <=> actives'[k] \in ticked
        <5>1. k \in DOMAIN actives /\ k \in 1..(Len(actives) - 1) /\ k \in Nat
          BY <2>0, <4>3
        <5>2. CASE k # cursor
          BY <2>0, <3>2, <4>3, <5>1, <5>2
        <5>3. CASE k = cursor
          <6>1. Len(actives) \in DOMAIN actives /\ ~(Len(actives) <= cursor)
            BY <2>0, <5>1, <5>3
          <6>2. QED BY <2>0, <3>2, <4>3, <5>1, <5>3, <6>1
        <5>4. QED BY <5>2, <5>3
      <4>5. QED BY <3>1, <4>1, <4>4 DEF WalkInv
    <3>5. QED BY <3>3, <3>4
  <2>5. CASE DashEnds \/ FireBody \/ MeleeBody \/ ReloadBody
    <3>1. FireStops \in BOOLEAN
      BY DEF FireStops
    <3>2. QED BY <2>4, <2>5, <3>1 DEF DashEnds, FireBody, MeleeBody, ReloadBody
  <2>6. CASE EndStage1
    BY <2>6, HeroSteps DEF WalkInv
  <2>7. CASE TryCandidate
    BY <2>7, HeroSteps DEF WalkInv, Chosen
  <2>8. CASE CancelConflict
    BY <2>8, HeroSteps DEF WalkInv
  <2>9. CASE StartCandidate
    <3>1. phase = "start" /\ phase' = "scan" /\ tried' = tried
      BY <2>9, HeroSteps
    <3>2. tried # {}
      BY <3>1 DEF ArbInv
    <3>3. QED BY <3>1, <3>2 DEF WalkInv
  <2>10. CASE EndTick
    BY <2>10, HeroSteps DEF WalkInv
  <2>11. CASE UNCHANGED vars
    BY <2>11 DEF vars, arbiterVars, WalkInv
  <2>12. QED BY <2>1, <2>2, <2>3, <2>5, <2>6, <2>7, <2>8, <2>9, <2>10, <2>11 DEF Next, TickStep
<1>4. ASSUME TickInv, ArbInv', [Next]_vars PROVE ScopesInv'
  <2> USE <1>4 DEF TickInv
  <2>1. /\ \A r \in 1..3 : owner[r] # 0 => r \in HeroClaimed[owner[r]] \cup held[owner[r]]
        /\ \A a \in HeroAbility : held[a] # {} =>
             a = Dash /\ phase = "body" /\ cur = Dash /\ dashStep = "dashed"
    BY DEF ScopesInv
  \* A step that only frees bits, with no scope held.
  <2>2. ASSUME \A a \in HeroAbility : held[a] = {} /\ held'[a] = {},
               \A r \in 1..3 : owner'[r] # 0 => \/ owner'[r] = owner[r]
                                                \/ r \in HeroClaimed[owner'[r]]
        PROVE  ScopesInv'
    <3>1. ASSUME NEW r \in 1..3, owner'[r] # 0
          PROVE  r \in HeroClaimed[owner'[r]] \cup held'[owner'[r]]
      <4>1. CASE owner'[r] = owner[r]
        <5>1. owner[r] \in HeroAbility
          BY <3>1, <4>1 DEF ArbInv
        <5>2. QED BY <2>1, <2>2, <3>1, <4>1, <5>1
      <4>2. QED BY <2>2, <3>1, <4>1
    <3>2. QED BY <2>2, <3>1 DEF ScopesInv
  <2>3. CASE BeginTick \/ TickNext \/ EndStage1 \/ TryCandidate \/ EndTick
    <3>1. phase # "body"
      BY <2>3, HeroSteps
    <3>2. \A a \in HeroAbility : held[a] = {}
      BY <2>1, <3>1
    <3>3. UNCHANGED << owner, held >> \/ TickNext
      BY <2>3 DEF BeginTick, A!BeginTick, EndStage1, A!EndStage1, TryCandidate, A!TryCandidate,
         EndTick, A!EndTick, A!ledger
    <3>4. CASE TickNext
      <4>1. \A r \in 1..3 : owner'[r] = owner[r] \/ owner'[r] = 0
        BY <3>4 DEF TickNext, A!TickNext, A!Unregister, A!OwnerWithout, A!Resource, A!None, A!ledger
      <4>2. held' = held
        BY <3>4 DEF TickNext, A!TickNext, A!ledger
      <4>3. QED BY <2>2, <3>2, <4>1, <4>2
    <3>5. QED BY <2>2, <3>2, <3>3, <3>4
  <2>4. CASE DashAcquires
    <3>1. /\ phase = "body" /\ phase' = "body" /\ cur = Dash /\ cur' = Dash /\ dashStep' = "dashed" /\ self = Dash
          /\ owner' = [owner EXCEPT ![AbilitySlot] = self]
          /\ held' = [held EXCEPT ![Dash] = @ \cup {AbilitySlot}]
      BY <2>4 DEF DashAcquires, A!AcquireFree, WalkInv
    <3>2. \A a \in HeroAbility : a # Dash => held'[a] = held[a]
      BY <3>1 DEF ArbInv
    <3>3. AbilitySlot \in held'[Dash]
      BY <3>1, HeroTable DEF ArbInv
    <3>4. ASSUME NEW r \in 1..3, owner'[r] # 0
          PROVE  r \in HeroClaimed[owner'[r]] \cup held'[owner'[r]]
      <4>1. CASE r = AbilitySlot
        BY <3>1, <3>3, <3>4, <4>1 DEF ArbInv
      <4>2. CASE r # AbilitySlot
        <5>1. owner'[r] = owner[r] /\ owner[r] \in HeroAbility
          BY <3>1, <3>4, <4>2 DEF ArbInv
        <5>2. held[owner[r]] \subseteq held'[owner[r]]
          BY <3>1, <5>1 DEF ArbInv
        <5>3. QED BY <2>1, <3>4, <5>1, <5>2
      <4>3. QED BY <4>1, <4>2
    <3>5. QED BY <2>1, <3>1, <3>2, <3>4 DEF ScopesInv
  <2>5. CASE DashLeavesScope
    <3>1. /\ phase = "body" /\ cur = Dash /\ self = Dash /\ AbilitySlot \in held[Dash]
          /\ owner' = [owner EXCEPT ![AbilitySlot] = IF self # 0 /\ @ = self THEN 0 ELSE @]
          /\ held' = [held EXCEPT ![Dash] = @ \ {AbilitySlot}]
      BY <2>5 DEF DashLeavesScope, A!ReleaseScope, A!None, WalkInv
    <3>2. held[Dash] = {AbilitySlot} /\ owner[AbilitySlot] = Dash
      <4>1. Dash \in HeroAbility /\ HeroScopes[Dash] = {AbilitySlot}
        BY HeroTable
      <4>2. held[Dash] \subseteq {AbilitySlot} /\ \A r \in held[Dash] : owner[r] = Dash
        BY <4>1 DEF ArbInv
      <4>3. QED BY <3>1, <4>2
    <3>3. \A a \in HeroAbility : held'[a] = {}
      BY <2>1, <3>1, <3>2 DEF ArbInv
    <3>4. owner'[AbilitySlot] = 0
      BY <3>1, <3>2, HeroTable DEF ArbInv
    <3>5. ASSUME NEW r \in 1..3, owner'[r] # 0 PROVE r \in HeroClaimed[owner'[r]]
      <4>1. r # AbilitySlot /\ owner'[r] = owner[r] /\ owner[r] \in HeroAbility
        BY <3>1, <3>4, <3>5 DEF ArbInv
      <4>2. r \notin held[owner[r]]
        BY <2>1, <3>2, <4>1
      <4>3. QED BY <2>1, <3>5, <4>1, <4>2
    <3>6. QED BY <3>3, <3>5 DEF ScopesInv
  <2>6. ASSUME NEW e \in BOOLEAN, A!FinishBody(e), cur # Dash \/ dashStep = "left" PROVE ScopesInv'
    <3>1. \A a \in HeroAbility : held[a] = {}
      BY <2>1, <2>6
    <3>2. held' = held /\ \A r \in 1..3 : owner'[r] = owner[r] \/ owner'[r] = 0
      BY <2>6 DEF A!FinishBody, A!Unregister, A!OwnerWithout, A!Resource, A!None
    <3>3. QED BY <2>2, <3>1, <3>2
  <2>7. CASE DashEnds \/ FireBody \/ MeleeBody \/ ReloadBody
    <3>1. FireStops \in BOOLEAN
      BY DEF FireStops
    <3>2. DashEnds => dashStep = "left"
      BY HeroSteps
    <3>3. \E e \in BOOLEAN : A!FinishBody(e) /\ (cur # Dash \/ dashStep = "left")
      <4>1. CASE DashEnds
        BY <3>2, <4>1 DEF DashEnds
      <4>2. CASE FireBody
        BY <3>1, <4>2, HeroTable DEF FireBody
      <4>3. CASE MeleeBody
        BY <4>3, HeroTable DEF MeleeBody
      <4>4. CASE ReloadBody
        BY <4>4, HeroTable DEF ReloadBody
      <4>5. QED BY <2>7, <4>1, <4>2, <4>3, <4>4
    <3>4. QED BY <2>6, <3>3
  <2>8. CASE CancelConflict \/ StartCandidate
    <3>1. phase = "start"
      BY <2>8, HeroSteps
    <3>2. \A a \in HeroAbility : held[a] = {}
      BY <2>1, <3>1
    <3>3. \A a \in HeroAbility : held'[a] = {}
      <4>1. \E o : held' = [held EXCEPT ![o] = {}]
        BY <2>8 DEF CancelConflict, StartCandidate, A!CancelConflict, A!StartCandidate, A!CancelAbility
      <4>2. QED BY <3>2, <4>1 DEF ArbInv
    <3>4. ASSUME NEW r \in 1..3 PROVE owner'[r] \in {0, owner[r]} \/ r \in HeroClaimed[owner'[r]]
      BY <2>8 DEF CancelConflict, StartCandidate, A!CancelConflict, A!StartCandidate, A!CancelAbility,
         A!Unregister, A!OwnerWithout, A!Register, A!Resource, A!None
    <3>5. QED BY <2>2, <3>2, <3>3, <3>4
  <2>9. CASE UNCHANGED vars
    BY <2>9 DEF vars, arbiterVars, taskVars, ScopesInv
  <2>10. QED BY <2>3, <2>4, <2>5, <2>7, <2>8, <2>9 DEF Next, TickStep
<1>5. QED BY <1>2, <1>3, <1>4, <1>1, PTL DEF Spec, TickInv

-----------------------------------------------------------------------------
(* The weapon and its abilities.                                            *)

WeaponTypes ==
  /\ magAmmo \in 0..MagSize /\ reloadRemain \in 0..ReloadSec
  /\ fireCooldown \in 0..FireInterval /\ pendingSpawns \in 0..1

HeroTypes ==
  /\ WeaponTypes /\ isReloading \in BOOLEAN
  /\ keys \subseteq Key /\ dt \in Dts \cup {0}
  /\ snap \in [ammo : 0..MagSize, reloading : BOOLEAN]
  /\ task \in [{Melee, Reload} -> [i : 1..4, remain : Nat]]
  /\ dashStep \in {"enter", "dashed", "left"}
  /\ meleeHits \in Nat /\ sinceShot \in 0..FireInterval

Stage1 == phase \in {"ticking", "body"}
Stage2 == phase \in {"scan", "start"}

(* The two timers of a reload.  While the ability's body has still to run in *)
(* this tick, the weapon's Tick is ahead of it by the length of the tick.    *)
Pending == Stage1 /\ (Reload \notin ticked \/ (phase = "body" /\ cur = Reload))
TimersInv ==
  /\ isReloading => Reload \in active /\ task[Reload].i = 1
  /\ Reload \in active /\ task[Reload].i = 1 =>
       IF Pending THEN task[Reload].remain <= dt + IF isReloading THEN reloadRemain ELSE 0
                  ELSE isReloading /\ task[Reload].remain <= reloadRemain

MeleeInv ==
  Melee \in active => task[Melee].i \in 1..3 /\ meleeHits = IF task[Melee].i = 1 THEN 0 ELSE 1

(* A shot is waiting to be collected only if it was fired in this tick.      *)
CooldownInv ==
  /\ fireCooldown + sinceShot >= FireInterval
  /\ pendingSpawns > 0 => fireCooldown > 0 /\ phase # "idle"

(* What the snapshot still says of the weapon when a candidate starts.       *)
SnapInv == phase # "idle" =>
  /\ wants = Wanted(keys, snap)
  /\ ~snap.reloading => magAmmo <= snap.ammo
  /\ Stage1 /\ isReloading => snap.reloading
  /\ phase = "start" => cur \in wants
  /\ Fire \in wants /\ Fire \notin active \cup tried => magAmmo > 0
  /\ phase = "start" /\ cur = Fire => magAmmo > 0

(* A dash lasts from the tick that starts it to its body in the next; it and *)
(* a melee are never tried in vain.                                          *)
AnswerInv ==
  /\ Stage1 /\ Dash \in ticked \cap active => phase = "body" /\ cur = Dash
  /\ Stage2 => /\ Dash \in active => Dash \in wants
               /\ \A a \in {Dash, Melee} : a \in wants \cap tried =>
                    a \in active \/ (phase = "start" /\ cur = a)

HeroInv == TickInv /\ HeroTypes /\ TimersInv /\ MeleeInv /\ CooldownInv /\ SnapInv /\ AnswerInv

\* One Tick of an ability's sequence: it moves at most one step on, and waits
\* no longer than it did.
LEMMA SequenceStep ==
  ASSUME NEW t \in [i : 1..4, remain : Nat], NEW hold \in Nat, dt \in Nat
  PROVE  /\ SeqAfter(t, hold) \in [i : 1..4, remain : Nat]
         /\ t.i = 1 => IF t.remain <= dt THEN SeqAfter(t, hold).i = 2
                       ELSE SeqAfter(t, hold).i = 1 /\ SeqAfter(t, hold).remain = t.remain - dt
         /\ t.i = 2 => SeqAfter(t, hold).i = 3
         /\ t.i = 3 => SeqAfter(t, hold).i \in {3, 4}
         /\ t.i = 4 => SeqAfter(t, hold) = t
<1>1. t.i \in 1..4 /\ t.remain \in Nat
  OBVIOUS
<1>2. t.remain > dt => t.remain - dt \in Nat
  BY <1>1
<1>3. CASE t.i = 1
  <2>1. SeqAfter(t, hold) = IF t.remain <= dt THEN Waiting(2, 0) ELSE Waiting(1, t.remain - dt)
    BY <1>3 DEF SeqAfter
  <2>2. QED BY <1>1, <1>2, <1>3, <2>1 DEF Waiting
<1>4. CASE t.i = 2
  <2>1. SeqAfter(t, hold) = Waiting(3, hold)
    BY <1>4 DEF SeqAfter
  <2>2. QED BY <1>4, <2>1 DEF Waiting
<1>5. CASE t.i = 3
  <2>1. SeqAfter(t, hold) = IF t.remain <= dt THEN Waiting(4, 0) ELSE Waiting(3, t.remain - dt)
    BY <1>5 DEF SeqAfter
  <2>2. QED BY <1>1, <1>2, <1>5, <2>1 DEF Waiting
<1>6. CASE t.i = 4
  <2>1. SeqAfter(t, hold) = t
    BY <1>6 DEF SeqAfter
  <2>2. QED BY <1>6, <2>1
<1>7. QED BY <1>1, <1>3, <1>4, <1>5, <1>6

\* The weapon and its abilities keep in step: the shape of each timer, what the
\* snapshot still says, and what has been tried.
THEOREM HeroInvariant == Spec => []HeroInv
<1>1. /\ MagSize \in Nat /\ MagSize > 0 /\ FireInterval \in Nat /\ ReloadSec \in Nat /\ HitPoint \in Nat
      /\ PostHit \in Nat /\ ReloadPoint \in Nat /\ PostReload \in Nat /\ ReloadPoint <= ReloadSec
      /\ \A d \in Dts \cup {0} : d \in Nat
  BY HeroAssumption
<1>2. Init => HeroTypes /\ TimersInv /\ MeleeInv /\ CooldownInv /\ SnapInv /\ AnswerInv
  <2> SUFFICES ASSUME Init PROVE HeroTypes /\ TimersInv /\ MeleeInv /\ CooldownInv /\ SnapInv /\ AnswerInv
    OBVIOUS
  <2>1. /\ active = {} /\ phase = "idle" /\ magAmmo = MagSize /\ isReloading = FALSE /\ reloadRemain = 0
        /\ fireCooldown = 0 /\ pendingSpawns = 0 /\ keys = {} /\ dt = 0 /\ dashStep = "enter" /\ meleeHits = 0
        /\ snap = [ammo |-> MagSize, reloading |-> FALSE] /\ sinceShot = FireInterval
        /\ task = [a \in {Melee, Reload} |-> Waiting(4, 0)]
    BY DEF Init, A!Init, W!Init
  <2>2. HeroTypes
    <3>1. task \in [{Melee, Reload} -> [i : 1..4, remain : Nat]]
      BY <2>1 DEF Waiting
    <3>2. snap \in [ammo : 0..MagSize, reloading : BOOLEAN]
      BY <1>1, <2>1
    <3>3. WeaponTypes
      BY <1>1, <2>1 DEF WeaponTypes
    <3>4. sinceShot \in 0..FireInterval
      BY <1>1, <2>1
    <3>5. isReloading \in BOOLEAN
      BY <2>1
    <3>6. QED BY <2>1, <3>1, <3>2, <3>3, <3>4, <3>5 DEF HeroTypes
  <2>3. QED BY <1>1, <2>1, <2>2 DEF TimersInv, MeleeInv, CooldownInv, SnapInv, AnswerInv, Stage1, Stage2
\* Which step changes what of the weapon's, the abilities' and the frame's.
<1>3. ASSUME TickNext \/ DashAcquires \/ DashLeavesScope
      PROVE  UNCHANGED << weaponVars, frameVars, task, meleeHits, sinceShot >>
  BY <1>3 DEF TickNext, DashAcquires, DashLeavesScope
<1>4. ASSUME DashEnds \/ EndStage1 \/ TryCandidate
      PROVE  UNCHANGED << weaponVars, frameVars, taskVars, sinceShot >>
  BY <1>4 DEF DashEnds, EndStage1, TryCandidate
<1>5. ASSUME HeroInv PROVE dt \in Nat /\ task[Melee] \in [i : 1..4, remain : Nat] /\ task[Reload] \in [i : 1..4, remain : Nat]
  BY <1>1, <1>5 DEF HeroInv, HeroTypes
<1>6. ASSUME HeroInv, [Next]_vars PROVE HeroTypes'
  <2> USE <1>6
  <2>0. /\ HeroTypes /\ WeaponTypes /\ isReloading \in BOOLEAN /\ sinceShot \in 0..FireInterval
        /\ task \in [{Melee, Reload} -> [i : 1..4, remain : Nat]] /\ meleeHits \in Nat
    BY DEF HeroInv, HeroTypes
  <2>1. CASE BeginTick
    <3>1. PICK k \in SUBSET Key, d \in Dts :
            /\ W!Tick(d) /\ keys' = k /\ dt' = d /\ snap' = [ammo |-> magAmmo', reloading |-> isReloading']
            /\ sinceShot' = IF sinceShot + d < FireInterval THEN sinceShot + d ELSE FireInterval
            /\ UNCHANGED taskVars
      BY <2>1 DEF BeginTick
    <3>2. d \in Nat
      BY <1>1
    <3>3. WeaponTypes'
      BY <1>1, <2>0, <3>1, <3>2 DEF W!Tick, W!Refill, WeaponTypes
    <3>4. isReloading' \in BOOLEAN
      BY <2>0, <3>1 DEF W!Tick, W!Refill
    <3>5. snap' \in [ammo : 0..MagSize, reloading : BOOLEAN]
      BY <3>1, <3>3, <3>4 DEF WeaponTypes
    <3>6. sinceShot' \in 0..FireInterval
      BY <1>1, <2>0, <3>1, <3>2
    <3>7. QED BY <2>0, <3>1, <3>3, <3>4, <3>5, <3>6 DEF HeroTypes, taskVars
  <2>2. CASE TickNext \/ DashAcquires \/ DashLeavesScope
    <3>1. dashStep' \in {"enter", "dashed", "left"}
      BY <2>2 DEF TickNext, DashAcquires, DashLeavesScope
    <3>2. QED BY <1>3, <2>0, <2>2, <3>1 DEF HeroTypes, WeaponTypes, weaponVars, frameVars
  <2>3. CASE DashEnds \/ EndStage1 \/ TryCandidate
    BY <1>4, <2>0, <2>3 DEF HeroTypes, WeaponTypes, weaponVars, frameVars, taskVars
  <2>4. CASE FireBody
    <3>1. WeaponTypes'
      <4>1. fireCooldown <= 0 => pendingSpawns = 0
        BY <1>1, <2>0 DEF HeroInv, CooldownInv, WeaponTypes
      <4>2. QED BY <1>1, <2>0, <2>4, <4>1 DEF FireBody, W!TryFire, W!CanFire, W!wvars, weaponVars, WeaponTypes
    <3>2. isReloading' \in BOOLEAN
      BY <2>0, <2>4 DEF FireBody, W!TryFire, W!wvars, weaponVars
    <3>3. sinceShot' \in 0..FireInterval
      BY <1>1, <2>0, <2>4 DEF FireBody
    <3>4. QED BY <2>0, <2>4, <3>1, <3>2, <3>3 DEF FireBody, HeroTypes, frameVars, taskVars
  <2>5. CASE MeleeBody \/ ReloadBody
    <3>1. PICK a \in {Melee, Reload}, hold \in Nat : task' = [task EXCEPT ![a] = SeqAfter(task[a], hold)]
      BY <1>1, <2>5 DEF MeleeBody, ReloadBody
    <3>2. SeqAfter(task[a], hold) \in [i : 1..4, remain : Nat]
      BY <1>5, <3>1, SequenceStep
    <3>3. task' \in [{Melee, Reload} -> [i : 1..4, remain : Nat]]
      BY <2>0, <3>1, <3>2
    <3>4. WeaponTypes'
      BY <1>1, <2>0, <2>5 DEF MeleeBody, ReloadBody, W!CompleteReload, W!Refill, W!wvars, weaponVars, WeaponTypes
    <3>5. isReloading' \in BOOLEAN
      BY <2>0, <2>5 DEF MeleeBody, ReloadBody, W!CompleteReload, W!Refill, W!wvars, weaponVars
    <3>6. meleeHits' \in Nat /\ UNCHANGED << keys, dt, snap, dashStep, sinceShot >>
      BY <2>0, <2>5 DEF MeleeBody, ReloadBody, frameVars
    <3>7. QED BY <2>0, <3>3, <3>4, <3>5, <3>6 DEF HeroTypes
  <2>6. CASE CancelConflict
    <3>1. WeaponTypes'
      BY <1>1, <2>0, <2>6 DEF CancelConflict, W!CancelReload, weaponVars, WeaponTypes
    <3>2. isReloading' \in BOOLEAN
      BY <2>0, <2>6 DEF CancelConflict, W!CancelReload, weaponVars
    <3>3. QED BY <2>0, <2>6, <3>1, <3>2 DEF CancelConflict, HeroTypes, frameVars, taskVars
  <2>7. CASE StartCandidate
    <3>1. WeaponTypes'
      BY <1>1, <2>0, <2>7 DEF StartCandidate, W!BeginReload, W!wvars, weaponVars, WeaponTypes
    <3>2. isReloading' \in BOOLEAN
      BY <2>0, <2>7 DEF StartCandidate, W!BeginReload, W!wvars, weaponVars
    <3>3. task' \in [{Melee, Reload} -> [i : 1..4, remain : Nat]]
      <4>1. Waiting(1, HitPoint) \in [i : 1..4, remain : Nat] /\ Waiting(1, ReloadPoint) \in [i : 1..4, remain : Nat]
        BY <1>1 DEF Waiting
      <4>2. \/ task' = task \/ task' = [task EXCEPT ![Melee] = Waiting(1, HitPoint)]
            \/ task' = [task EXCEPT ![Reload] = Waiting(1, ReloadPoint)]
        BY <2>7 DEF StartCandidate
      <4>3. QED BY <2>0, <4>1, <4>2
    <3>4. meleeHits' \in Nat /\ UNCHANGED << keys, dt, snap, dashStep, sinceShot >>
      BY <2>0, <2>7 DEF StartCandidate, frameVars
    <3>5. QED BY <2>0, <3>1, <3>2, <3>3, <3>4 DEF HeroTypes
  <2>8. CASE EndTick
    <3>1. /\ keys' = {} /\ dt' = 0 /\ snap' = [ammo |-> MagSize, reloading |-> FALSE]
          /\ pendingSpawns' = 0 /\ UNCHANGED << magAmmo, isReloading, reloadRemain, fireCooldown >>
          /\ UNCHANGED << task, dashStep, meleeHits, sinceShot >>
      BY <2>8 DEF EndTick, W!CollectPendingSpawns, taskVars
    <3>2. WeaponTypes'
      BY <2>0, <3>1 DEF WeaponTypes
    <3>3. snap' \in [ammo : 0..MagSize, reloading : BOOLEAN]
      BY <1>1, <3>1
    <3>4. QED BY <2>0, <3>1, <3>2, <3>3 DEF HeroTypes
  <2>9. CASE UNCHANGED vars
    BY <2>0, <2>9 DEF vars, weaponVars, frameVars, taskVars, HeroTypes, WeaponTypes
  <2>10. QED BY <2>1, <2>2, <2>3, <2>4, <2>5, <2>6, <2>7, <2>8, <2>9 DEF Next, TickStep
<1>7. ASSUME HeroInv, [Next]_vars PROVE TimersInv'
  <2> USE <1>7
  <2>0. TickInv /\ TimersInv /\ HeroTypes
    BY DEF HeroInv
  <2> DEFINE R == Reload \in active /\ task[Reload].i = 1
  <2>1. /\ isReloading => R
        /\ R => IF Pending THEN task[Reload].remain <= dt + IF isReloading THEN reloadRemain ELSE 0
                ELSE isReloading /\ task[Reload].remain <= reloadRemain
    BY <2>0 DEF TimersInv
  <2>2. /\ dt \in Nat /\ reloadRemain \in Nat /\ isReloading \in BOOLEAN /\ task[Reload].i \in 1..4
        /\ task[Reload].remain \in Nat /\ dt' \in Nat
    <3>1. HeroTypes'
      BY <1>6
    <3>2. isReloading \in BOOLEAN
      BY <2>0 DEF HeroTypes
    <3>3. reloadRemain \in Nat /\ dt' \in Nat
      BY <1>1, <2>0, <3>1 DEF HeroTypes, WeaponTypes
    <3>4. QED BY <1>5, <3>2, <3>3
  <2>3. CASE BeginTick
    <3>1. phase = "idle" /\ phase' = "ticking" /\ active' = active /\ ticked' = {}
      BY <2>0, <2>3, HeroSteps DEF TickInv, WalkInv
    <3>2. W!Tick(dt') /\ task' = task
      BY <2>3 DEF BeginTick, taskVars
    <3>3. Pending' /\ ~Pending
      BY <3>1 DEF Pending, Stage1
    <3>4. QED BY <2>1, <2>2, <3>1, <3>2, <3>3 DEF TimersInv, W!Tick, W!Refill
  \* Steps that leave both timers and the reload ability as they are.
  <2>4. ASSUME UNCHANGED << isReloading, reloadRemain, dt >>, task'[Reload] = task[Reload],
               Reload \in active' <=> Reload \in active, Pending' <=> Pending
        PROVE  TimersInv'
    BY <2>1, <2>4 DEF TimersInv
  <2>5. CASE TickNext
    <3>1. /\ phase = "ticking" /\ phase' = "body" /\ cur' \notin ticked
          /\ ticked' = ticked \cup {cur'} /\ active' = active
      BY <2>0, <2>5, HeroSteps
    <3>2. Pending' <=> Pending
      BY <3>1 DEF Pending, Stage1
    <3>3. QED BY <1>3, <2>4, <2>5, <3>1, <3>2 DEF weaponVars, frameVars
  <2>6. CASE DashAcquires \/ DashLeavesScope
    <3>1. UNCHANGED << phase, cur, active, ticked >>
      BY <2>0, <2>6, HeroSteps
    <3>2. QED BY <1>3, <2>4, <2>6, <3>1 DEF weaponVars, frameVars, Pending, Stage1
  \* The body of another ability.
  <2>7. ASSUME NEW e, BodyReturns(e), cur # Reload,
               UNCHANGED << isReloading, reloadRemain, dt >>, task'[Reload] = task[Reload]
        PROVE  TimersInv'
    <3>1. Reload \in active' <=> Reload \in active
      BY <2>7 DEF BodyReturns
    <3>2. Pending' <=> Pending
      BY <2>7 DEF BodyReturns, Pending, Stage1
    <3>3. QED BY <2>4, <2>7, <3>1, <3>2
  <2>8. CASE DashEnds
    <3>1. UNCHANGED << isReloading, reloadRemain, dt, task >>
      BY <1>4, <2>8 DEF weaponVars, frameVars, taskVars
    <3>2. BodyReturns(TRUE) /\ cur = Dash
      BY <2>0, <2>8, HeroSteps
    <3>3. cur # Reload
      BY <3>2, HeroTable
    <3>4. QED BY <2>7, <3>1, <3>2, <3>3
  <2>9. CASE FireBody
    <3>1. UNCHANGED << isReloading, reloadRemain, dt, task >>
      BY <2>9 DEF FireBody, W!TryFire, W!wvars, weaponVars, frameVars, taskVars
    <3>2. QED BY <2>0, <2>7, <2>9, <3>1, HeroSteps, HeroTable
  <2>10. CASE MeleeBody
    <3>1. UNCHANGED << isReloading, reloadRemain, dt >> /\ task'[Reload] = task[Reload]
      BY <2>0, <2>10, HeroTable DEF MeleeBody, weaponVars, frameVars, HeroTypes
    <3>2. QED BY <2>0, <2>7, <2>10, <3>1, HeroSteps, HeroTable
  <2>11. CASE ReloadBody
    <3>1. PICK next : next = SeqAfter(task[Reload], PostReload)
      OBVIOUS
    <3>2. BodyReturns(next.i = 4) /\ cur = Reload
      BY <2>0, <2>11, <3>1, HeroSteps
    <3>3. /\ task'[Reload] = next /\ dt' = dt
          /\ IF task[Reload].i = 1 /\ next.i = 2 THEN W!CompleteReload ELSE UNCHANGED weaponVars
      BY <2>0, <2>11, <3>1 DEF ReloadBody, CallsNow, HeroTypes, frameVars
    <3>4. /\ Pending /\ ~Pending' /\ Reload \in active
          /\ next.i # 4 => active' = active
      BY <3>2 DEF BodyReturns, Pending, Stage1
    <3>5. CASE task[Reload].i = 1
      <4>1. IF task[Reload].remain <= dt THEN next.i = 2
            ELSE next.i = 1 /\ next.remain = task[Reload].remain - dt
        BY <1>1, <1>5, <2>2, <3>1, <3>5, SequenceStep
      <4>2. CASE task[Reload].remain <= dt
        <5>1. next.i = 2 /\ ~isReloading'
          BY <2>2, <3>3, <3>5, <4>1, <4>2 DEF W!CompleteReload, W!Refill, W!wvars
        <5>2. QED BY <3>3, <5>1 DEF TimersInv
      <4>3. CASE ~(task[Reload].remain <= dt)
        <5>1. next.i = 1 /\ next.remain = task[Reload].remain - dt
          BY <4>1, <4>3
        <5>2. UNCHANGED << isReloading, reloadRemain >> /\ active' = active
          BY <3>3, <3>4, <5>1 DEF weaponVars
        <5>3. isReloading /\ task[Reload].remain - dt <= reloadRemain
          BY <2>1, <2>2, <3>4, <3>5, <4>3
        <5>4. QED BY <3>3, <3>4, <5>1, <5>2, <5>3 DEF TimersInv
      <4>4. QED BY <4>2, <4>3
    <3>6. CASE task[Reload].i # 1
      <4>1. ~isReloading' /\ next.i # 1
        <5>1. next.i # 1
          <6>1. task[Reload] \in [i : 1..4, remain : Nat] /\ dt \in Nat /\ PostReload \in Nat
            BY <1>1, <1>5
          <6>2. /\ task[Reload].i = 2 => next.i = 3
                /\ task[Reload].i = 3 => next.i \in {3, 4}
                /\ task[Reload].i = 4 => next = task[Reload]
            BY <3>1, <6>1, SequenceStep
          <6>3. task[Reload].i \in {2, 3, 4}
            BY <2>2, <3>6
          <6>4. QED BY <6>2, <6>3
        <5>2. QED BY <2>1, <3>3, <3>6, <5>1 DEF weaponVars
      <4>2. QED BY <3>3, <4>1 DEF TimersInv
    <3>7. QED BY <3>5, <3>6
  <2>12. CASE EndStage1
    <3>1. phase = "ticking" /\ phase' = "scan" /\ active \subseteq ticked /\ active' = active
      BY <2>0, <2>12, HeroSteps
    <3>2. /\ ~Pending' /\ (Reload \in active => ~Pending)
      BY <3>1 DEF Pending, Stage1
    <3>3. UNCHANGED << isReloading, reloadRemain, dt, task >>
      BY <1>4, <2>12 DEF weaponVars, frameVars, taskVars
    <3>4. QED BY <2>1, <3>1, <3>2, <3>3 DEF TimersInv
  <2>13. CASE TryCandidate
    <3>1. phase = "scan" /\ phase' \in {"scan", "start"} /\ active' = active
      BY <2>0, <2>13, HeroSteps DEF Chosen
    <3>2. QED BY <1>4, <2>4, <2>13, <3>1 DEF weaponVars, frameVars, taskVars, Pending, Stage1
  <2>14. CASE CancelConflict
    <3>1. PICK o \in {Fire, Reload} \cap active : active' = active \ {o}
      BY <2>0, <2>14, HeroSteps
    <3>2. phase = "start" /\ phase' = "start"
      BY <2>0, <2>14, HeroSteps
    <3>3. task' = task /\ dt' = dt /\ IF o = Reload THEN ~isReloading' ELSE UNCHANGED << isReloading, reloadRemain >>
      BY <2>14, <3>1 DEF CancelConflict, W!CancelReload, weaponVars, frameVars, taskVars
    <3>4. CASE o = Reload
      BY <3>1, <3>3, <3>4 DEF TimersInv
    <3>5. CASE o # Reload
      BY <2>4, <3>1, <3>2, <3>3, <3>5 DEF Pending, Stage1
    <3>6. QED BY <3>4, <3>5
  <2>15. CASE StartCandidate
    <3>1. phase = "start" /\ phase' = "scan" /\ active' = active \cup {cur} /\ cur \notin active
      BY <2>0, <2>15, HeroSteps DEF TickInv, ArbInv
    <3>2. CASE cur = Reload
      <4>1. Reload \in Wanted(keys, snap) /\ (~snap.reloading => magAmmo <= snap.ammo)
        BY <3>1, <3>2 DEF HeroInv, SnapInv
      <4>2. ~snap.reloading /\ snap.ammo < MagSize
        BY <4>1, HeroTable DEF Wanted, ReloadWanted
      <4>3. magAmmo < MagSize /\ ~isReloading
        <5>1. magAmmo \in Nat /\ snap.ammo \in Nat
          BY <1>1, <2>0 DEF HeroTypes, WeaponTypes
        <5>2. magAmmo < MagSize
          BY <1>1, <4>1, <4>2, <5>1
        <5>3. QED BY <2>1, <3>1, <3>2, <5>2
      <4>4. isReloading' /\ reloadRemain' = ReloadSec
        BY <2>15, <3>2, <4>3 DEF StartCandidate, W!BeginReload
      <4>5. task'[Reload].i = 1 /\ task'[Reload].remain = ReloadPoint
        <5>1. task' = [task EXCEPT ![Reload] = Waiting(1, ReloadPoint)]
          BY <2>15, <3>2, HeroTable DEF StartCandidate
        <5>2. task'[Reload] = Waiting(1, ReloadPoint)
          BY <2>0, <5>1 DEF HeroTypes
        <5>3. QED BY <5>2 DEF Waiting
      <4>6. ~Pending'
        BY <3>1 DEF Pending, Stage1
      <4>7. QED BY <1>1, <3>1, <3>2, <4>4, <4>5, <4>6 DEF TimersInv
    <3>3. CASE cur # Reload
      <4>1. task'[Reload] = task[Reload] /\ UNCHANGED << isReloading, reloadRemain, dt >>
        BY <2>0, <2>15, <3>3, HeroTable DEF StartCandidate, weaponVars, frameVars, HeroTypes
      <4>2. QED BY <2>4, <3>1, <3>3, <4>1 DEF Pending, Stage1
    <3>4. QED BY <3>2, <3>3
  <2>16. CASE EndTick
    <3>1. phase = "scan" /\ phase' = "idle" /\ active' = active
      BY <2>0, <2>16, HeroSteps
    <3>2. UNCHANGED << isReloading, reloadRemain, task >>
      BY <2>16 DEF EndTick, W!CollectPendingSpawns, taskVars
    <3>3. ~Pending /\ ~Pending'
      BY <3>1 DEF Pending, Stage1
    <3>4. QED BY <2>1, <3>1, <3>2, <3>3 DEF TimersInv
  <2>17. CASE UNCHANGED vars
    BY <2>4, <2>17 DEF vars, arbiterVars, weaponVars, frameVars, taskVars, Pending, Stage1
  <2>18. QED BY <2>3, <2>5, <2>6, <2>8, <2>9, <2>10, <2>11, <2>12, <2>13, <2>14, <2>15, <2>16, <2>17
     DEF Next, TickStep
<1>8. ASSUME HeroInv, [Next]_vars PROVE MeleeInv'
  <2> USE <1>8
  <2>0. TickInv /\ MeleeInv /\ HeroTypes
    BY DEF HeroInv
  <2>1. ASSUME Melee \in active' => Melee \in active, task'[Melee] = task[Melee], meleeHits' = meleeHits
        PROVE  MeleeInv'
    BY <2>0, <2>1 DEF MeleeInv
  <2>2. CASE BeginTick
    <3>1. active' = active /\ task' = task /\ meleeHits' = meleeHits
      BY <2>0, <2>2, HeroSteps DEF BeginTick, taskVars
    <3>2. QED BY <2>1, <3>1
  <2>3. CASE TickNext \/ DashAcquires \/ DashLeavesScope
    <3>1. active' = active
      BY <2>0, <2>3, HeroSteps
    <3>2. QED BY <1>3, <2>1, <2>3, <3>1
  <2>4. CASE DashEnds \/ EndStage1 \/ TryCandidate
    <3>1. active' \subseteq active
      BY <2>0, <2>4, HeroSteps DEF BodyReturns
    <3>2. QED BY <1>4, <2>1, <2>4, <3>1 DEF taskVars
  <2>5. CASE FireBody
    <3>1. active' \subseteq active
      BY <2>0, <2>5, HeroSteps DEF BodyReturns
    <3>2. QED BY <2>1, <2>5, <3>1 DEF FireBody, taskVars
  <2>6. CASE MeleeBody
    <3>1. PICK next : next = SeqAfter(task[Melee], PostHit)
      OBVIOUS
    <3>2. BodyReturns(next.i = 4) /\ cur = Melee
      BY <2>0, <2>6, <3>1, HeroSteps
    <3>3. /\ task'[Melee] = next
          /\ meleeHits' = IF task[Melee].i = 1 /\ next.i = 2 THEN meleeHits + 1 ELSE meleeHits
      BY <2>0, <2>6, <3>1 DEF MeleeBody, CallsNow, HeroTypes
    <3>4. task[Melee].i \in 1..3 /\ meleeHits = IF task[Melee].i = 1 THEN 0 ELSE 1
      BY <2>0, <3>2 DEF BodyReturns, MeleeInv
    <3>5. CASE next.i = 4
      BY <3>2, <3>5 DEF BodyReturns, MeleeInv
    <3>6. CASE next.i # 4
      <4>1. /\ task[Melee].i = 1 => next.i \in {1, 2}
            /\ task[Melee].i = 2 => next.i = 3
            /\ task[Melee].i = 3 => next.i \in {3, 4}
        <5>1. task[Melee] \in [i : 1..4, remain : Nat] /\ dt \in Nat /\ PostHit \in Nat
          BY <1>1, <1>5
        <5>2. QED BY <3>1, <5>1, SequenceStep
      <4>2. next.i \in 1..3 /\ meleeHits' = IF next.i = 1 THEN 0 ELSE 1
        BY <3>3, <3>4, <3>6, <4>1
      <4>3. QED BY <3>3, <4>2 DEF MeleeInv
    <3>7. QED BY <3>5, <3>6
  <2>7. CASE ReloadBody
    <3>1. active' \subseteq active
      BY <2>0, <2>7, HeroSteps DEF BodyReturns
    <3>2. task'[Melee] = task[Melee] /\ meleeHits' = meleeHits
      BY <2>0, <2>7, HeroTable DEF ReloadBody, HeroTypes
    <3>3. QED BY <2>1, <3>1, <3>2
  <2>8. CASE CancelConflict
    <3>1. active' \subseteq active
      BY <2>0, <2>8, HeroSteps
    <3>2. QED BY <2>1, <2>8, <3>1 DEF CancelConflict, taskVars
  <2>9. CASE StartCandidate
    <3>1. active' = active \cup {cur}
      BY <2>0, <2>9, HeroSteps
    <3>2. CASE cur = Melee
      <4>1. task' = [task EXCEPT ![Melee] = Waiting(1, HitPoint)] /\ meleeHits' = 0
        BY <2>9, <3>2, HeroTable DEF StartCandidate
      <4>2. task'[Melee] = Waiting(1, HitPoint)
        BY <2>0, <4>1 DEF HeroTypes
      <4>3. QED BY <4>1, <4>2 DEF MeleeInv, Waiting
    <3>3. CASE cur # Melee
      <4>1. task'[Melee] = task[Melee] /\ meleeHits' = meleeHits
        BY <2>0, <2>9, <3>3, HeroTable DEF StartCandidate, HeroTypes
      <4>2. QED BY <2>1, <3>1, <3>3, <4>1
    <3>4. QED BY <3>2, <3>3
  <2>10. CASE EndTick
    <3>1. active' = active
      BY <2>0, <2>10, HeroSteps
    <3>2. QED BY <2>1, <2>10, <3>1 DEF EndTick, taskVars
  <2>11. CASE UNCHANGED vars
    BY <2>1, <2>11 DEF vars, arbiterVars, taskVars
  <2>12. QED BY <2>2, <2>3, <2>4, <2>5, <2>6, <2>7, <2>8, <2>9, <2>10, <2>11 DEF Next, TickStep
<1>9. ASSUME HeroInv, [Next]_vars PROVE CooldownInv'
  <2> USE <1>9
  <2>0. /\ TickInv /\ CooldownInv /\ fireCooldown \in Nat /\ sinceShot \in 0..FireInterval /\ pendingSpawns \in 0..1
    BY <1>1 DEF HeroInv, HeroTypes, WeaponTypes
  <2>1. ASSUME UNCHANGED << fireCooldown, pendingSpawns, sinceShot >>, phase # "idle" => phase' # "idle"
        PROVE  CooldownInv'
    BY <2>0, <2>1 DEF CooldownInv
  <2>2. CASE BeginTick
    <3>1. phase = "idle" /\ phase' = "ticking"
      BY <2>0, <2>2, HeroSteps
    <3>2. PICK d \in Dts : /\ W!Tick(d)
                           /\ sinceShot' = IF sinceShot + d < FireInterval THEN sinceShot + d ELSE FireInterval
      BY <2>2 DEF BeginTick
    <3>3. /\ fireCooldown' = IF fireCooldown > d THEN fireCooldown - d ELSE 0
          /\ pendingSpawns' = pendingSpawns /\ ~(pendingSpawns > 0) /\ d \in Nat
      BY <1>1, <2>0, <3>1, <3>2 DEF W!Tick, CooldownInv
    <3>4. fireCooldown' + sinceShot' >= FireInterval
      BY <1>1, <2>0, <3>2, <3>3 DEF CooldownInv
    <3>5. QED BY <3>3, <3>4 DEF CooldownInv
  <2>3. CASE TickNext \/ DashAcquires \/ DashLeavesScope
    <3>1. phase' # "idle"
      BY <2>0, <2>3, HeroSteps
    <3>2. QED BY <1>3, <2>1, <2>3, <3>1 DEF weaponVars
  <2>4. CASE DashEnds \/ EndStage1 \/ TryCandidate
    <3>1. phase' # "idle"
      BY <2>0, <2>4, HeroSteps DEF BodyReturns, Chosen
    <3>2. QED BY <1>4, <2>1, <2>4, <3>1 DEF weaponVars
  <2>5. CASE FireBody
    <3>1. phase' # "idle"
      BY <2>0, <2>5, HeroSteps DEF BodyReturns
    <3>2. CASE UNCHANGED << fireCooldown, pendingSpawns, sinceShot >>
      BY <2>1, <3>1, <3>2
    <3>3. CASE ~UNCHANGED << fireCooldown, pendingSpawns, sinceShot >>
      <4>1. ~FireStops /\ W!TryFire /\ sinceShot' = IF magAmmo' < magAmmo THEN 0 ELSE sinceShot
        BY <2>5, <3>3 DEF FireBody, weaponVars
      <4>2. magAmmo \in Nat
        BY <1>1 DEF HeroInv, HeroTypes, WeaponTypes
      <4>3. fireCooldown' = FireInterval /\ sinceShot' = 0
        BY <3>3, <4>1, <4>2 DEF W!TryFire, W!wvars
      <4>4. FireInterval > 0 /\ FireInterval + 0 >= FireInterval
        BY HeroAssumption
      <4>5. QED BY <3>1, <4>3, <4>4 DEF CooldownInv
    <3>4. QED BY <3>2, <3>3
  <2>6. CASE MeleeBody \/ ReloadBody
    <3>1. phase' # "idle"
      BY <2>0, <2>6, HeroSteps DEF BodyReturns
    <3>2. UNCHANGED << fireCooldown, pendingSpawns, sinceShot >>
      BY <2>6 DEF MeleeBody, ReloadBody, W!CompleteReload, W!wvars, weaponVars
    <3>3. QED BY <2>1, <3>1, <3>2
  <2>7. CASE CancelConflict \/ StartCandidate
    <3>1. phase' # "idle"
      BY <2>0, <2>7, HeroSteps
    <3>2. UNCHANGED << fireCooldown, pendingSpawns, sinceShot >>
      BY <2>7 DEF CancelConflict, StartCandidate, W!CancelReload, W!BeginReload, W!wvars, weaponVars
    <3>3. QED BY <2>1, <3>1, <3>2
  <2>8. CASE EndTick
    <3>1. pendingSpawns' = 0 /\ UNCHANGED << fireCooldown, sinceShot >>
      BY <2>8 DEF EndTick, W!CollectPendingSpawns
    <3>2. QED BY <2>0, <3>1 DEF CooldownInv
  <2>9. CASE UNCHANGED vars
    BY <2>1, <2>9 DEF vars, arbiterVars, weaponVars
  <2>10. QED BY <2>2, <2>3, <2>4, <2>5, <2>6, <2>7, <2>8, <2>9 DEF Next, TickStep
<1>10. ASSUME HeroInv, [Next]_vars PROVE SnapInv'
  <2> USE <1>10
  <2>0. /\ TickInv /\ SnapInv /\ TimersInv /\ magAmmo \in 0..MagSize /\ magAmmo \in Nat
        /\ snap.ammo \in Nat /\ snap.ammo <= MagSize
    BY <1>1 DEF HeroInv, HeroTypes, WeaponTypes
  <2>1. phase # "idle" =>
          /\ wants = Wanted(keys, snap)
          /\ ~snap.reloading => magAmmo <= snap.ammo
          /\ Stage1 /\ isReloading => snap.reloading
          /\ phase = "start" => cur \in wants
          /\ Fire \in wants /\ Fire \notin active \cup tried => magAmmo > 0
          /\ phase = "start" /\ cur = Fire => magAmmo > 0
    BY <2>0 DEF SnapInv
  \* A step in the middle of stage 1 or of stage 2.
  <2>2. ASSUME phase # "idle", phase' # "idle", UNCHANGED << keys, snap, wants >>,
               Stage1' => Stage1, phase' = "start" => phase = "start" /\ cur' = cur,
               ~snap.reloading => magAmmo' <= snap.ammo, Stage1' /\ isReloading' => isReloading,
               Fire \in wants /\ Fire \notin active' \cup tried' => magAmmo' > 0,
               phase = "start" => magAmmo' = magAmmo
        PROVE  SnapInv'
    BY <2>1, <2>2 DEF SnapInv
  <2>3. CASE BeginTick
    <3>1. phase' = "ticking" /\ active' = active /\ tried' = tried
      BY <2>0, <2>3, HeroSteps
    <3>2. /\ snap' = [ammo |-> magAmmo', reloading |-> isReloading'] /\ wants' = Wanted(keys', snap')
      BY <2>3 DEF BeginTick, A!BeginTick
    <3>3. /\ snap'.ammo = magAmmo' /\ snap'.reloading = isReloading' /\ magAmmo' \in Nat
      BY <1>1, <1>6, <3>2 DEF HeroTypes, WeaponTypes
    <3>4. Fire \in wants' => magAmmo' > 0
      BY <3>2, <3>3, HeroTable DEF Wanted, FireWanted
    <3>5. magAmmo' <= snap'.ammo
      BY <3>3
    <3>6. QED BY <3>1, <3>2, <3>3, <3>4, <3>5 DEF SnapInv
  <2>4. CASE TickNext \/ DashAcquires \/ DashLeavesScope
    <3>1. /\ phase \in {"ticking", "body"} /\ phase' = "body" /\ UNCHANGED << active, wants, tried >>
      BY <2>0, <2>4, HeroSteps
    <3>2. UNCHANGED << keys, snap, magAmmo, isReloading >>
      BY <1>3, <2>4 DEF weaponVars, frameVars
    <3>3. QED BY <2>1, <2>2, <3>1, <3>2 DEF Stage1
  <2>5. CASE DashEnds
    <3>1. /\ BodyReturns(TRUE) /\ cur = Dash
      BY <2>0, <2>5, HeroSteps
    <3>2. /\ phase = "body" /\ phase' = "ticking" /\ active' = active \ {Dash} /\ UNCHANGED << wants, tried >>
      BY <3>1 DEF BodyReturns
    <3>3. UNCHANGED << keys, snap, magAmmo, isReloading >>
      BY <1>4, <2>5 DEF weaponVars, frameVars
    <3>4. QED BY <2>1, <2>2, <3>2, <3>3, HeroTable DEF Stage1
  <2>6. CASE FireBody
    <3>1. /\ BodyReturns(FireStops) /\ cur = Fire
      BY <2>0, <2>6, HeroSteps
    <3>2. /\ phase = "body" /\ phase' = "ticking" /\ Fire \in active /\ UNCHANGED << wants, tried >>
          /\ active' = IF FireStops THEN active \ {Fire} ELSE active
      BY <3>1 DEF BodyReturns
    <3>3. UNCHANGED << keys, snap, isReloading >> /\ (magAmmo' = magAmmo \/ magAmmo' = magAmmo - 1)
      BY <2>6 DEF FireBody, W!TryFire, W!wvars, weaponVars, frameVars
    <3>4. FireStops => Fire \notin wants
      <4>1. wants = Wanted(keys, snap)
        BY <2>1, <3>2
      <4>2. Fire \in wants => "fire" \in keys /\ snap.ammo # 0
        BY <4>1, HeroTable DEF Wanted, FireWanted
      <4>3. QED BY <4>2 DEF FireStops
    <3>5. Fire \in wants /\ Fire \notin active' \cup tried' => magAmmo' > 0
      BY <3>2, <3>4
    <3>6. ~snap.reloading => magAmmo' <= snap.ammo
      BY <2>0, <2>1, <3>2, <3>3
    <3>7. QED BY <2>2, <3>2, <3>3, <3>5, <3>6 DEF Stage1
  <2>7. CASE MeleeBody
    <3>1. /\ BodyReturns(SeqAfter(task[Melee], PostHit).i = 4) /\ cur = Melee
      BY <2>0, <2>7, HeroSteps
    <3>2. /\ phase = "body" /\ phase' = "ticking" /\ active \ {Melee} \subseteq active' /\ UNCHANGED << wants, tried >>
      BY <3>1 DEF BodyReturns
    <3>3. UNCHANGED << keys, snap, magAmmo, isReloading >>
      BY <2>7 DEF MeleeBody, weaponVars, frameVars
    <3>4. QED BY <2>1, <2>2, <3>2, <3>3, HeroTable DEF Stage1
  <2>8. CASE ReloadBody
    <3>1. /\ BodyReturns(SeqAfter(task[Reload], PostReload).i = 4) /\ cur = Reload
      BY <2>0, <2>8, HeroSteps
    <3>2. /\ phase = "body" /\ phase' = "ticking" /\ active \ {Reload} \subseteq active' /\ UNCHANGED << wants, tried >>
      BY <3>1 DEF BodyReturns
    <3>3. /\ UNCHANGED << keys, snap >> /\ (isReloading' => isReloading)
          /\ \/ magAmmo' = magAmmo
             \/ magAmmo' = MagSize /\ isReloading
      BY <2>8 DEF ReloadBody, W!CompleteReload, W!Refill, W!wvars, weaponVars, frameVars
    <3>4. ~snap.reloading => magAmmo' <= snap.ammo
      BY <2>1, <3>2, <3>3 DEF Stage1
    <3>5. Fire \in wants /\ Fire \notin active' \cup tried' => magAmmo' > 0
      BY <1>1, <2>1, <3>2, <3>3, HeroTable
    <3>6. QED BY <2>2, <3>2, <3>3, <3>4, <3>5 DEF Stage1
  <2>9. CASE EndStage1
    <3>1. /\ phase = "ticking" /\ phase' = "scan" /\ UNCHANGED << active, wants, tried >>
      BY <2>0, <2>9, HeroSteps
    <3>2. UNCHANGED << keys, snap, magAmmo, isReloading >>
      BY <1>4, <2>9 DEF weaponVars, frameVars
    <3>3. QED BY <2>1, <2>2, <3>1, <3>2 DEF Stage1
  <2>10. CASE TryCandidate
    <3>1. phase = "scan" /\ UNCHANGED << active, wants >>
      BY <2>0, <2>10, HeroSteps
    <3>2. PICK a \in HeroAbility : Chosen(a)
      BY <2>0, <2>10, HeroSteps
    <3>3. UNCHANGED << keys, snap, magAmmo, isReloading >>
      BY <1>4, <2>10 DEF weaponVars, frameVars
    <3>4. /\ a \in wants /\ a \notin active \cup tried /\ tried \subseteq tried' /\ ~Stage1'
          /\ phase' \in {"scan", "start"} /\ (phase' = "start" => cur' = a)
      BY <3>2 DEF Chosen, Stage1
    <3>5. QED BY <2>1, <3>1, <3>3, <3>4 DEF SnapInv
  <2>11. CASE CancelConflict
    <3>1. /\ phase = "start" /\ cur = Melee /\ UNCHANGED << phase, cur, wants, tried >>
      BY <2>0, <2>11, HeroSteps
    <3>2. active \subseteq tried
      BY <2>0, <3>1 DEF TickInv, ArbInv
    <3>3. UNCHANGED << keys, snap, magAmmo >>
      BY <2>11 DEF CancelConflict, W!CancelReload, weaponVars, frameVars
    <3>4. QED BY <2>1, <2>2, <3>1, <3>2, <3>3 DEF Stage1
  <2>12. CASE StartCandidate
    <3>1. /\ phase = "start" /\ phase' = "scan" /\ active' = active \cup {cur} /\ UNCHANGED << wants, tried >>
      BY <2>0, <2>12, HeroSteps
    <3>2. UNCHANGED << keys, snap, magAmmo >>
      BY <2>12 DEF StartCandidate, W!BeginReload, W!wvars, weaponVars, frameVars
    <3>3. QED BY <2>1, <2>2, <3>1, <3>2 DEF Stage1
  <2>13. CASE EndTick
    BY <2>0, <2>13, HeroSteps DEF SnapInv
  <2>14. CASE UNCHANGED vars
    BY <2>0, <2>14 DEF vars, arbiterVars, weaponVars, frameVars, SnapInv, Stage1
  <2>15. QED BY <2>3, <2>4, <2>5, <2>6, <2>7, <2>8, <2>9, <2>10, <2>11, <2>12, <2>13, <2>14 DEF Next, TickStep
<1>11. ASSUME HeroInv, [Next]_vars PROVE AnswerInv'
  <2> USE <1>11
  <2>0. TickInv /\ AnswerInv /\ SnapInv
    BY DEF HeroInv
  <2>1. CASE BeginTick
    <3>1. phase' = "ticking" /\ ticked' = {}
      BY <2>0, <2>1, HeroSteps DEF TickInv, WalkInv
    <3>2. QED BY <3>1 DEF AnswerInv, Stage2
  <2>2. CASE TickNext
    <3>1. /\ phase = "ticking" /\ phase' = "body" /\ ticked' = ticked \cup {cur'} /\ active' = active
      BY <2>0, <2>2, HeroSteps
    <3>2. Dash \notin ticked \cap active
      BY <2>0, <3>1 DEF AnswerInv, Stage1
    <3>3. QED BY <3>1, <3>2 DEF AnswerInv, Stage2
  <2>3. CASE DashAcquires \/ DashLeavesScope
    <3>1. phase = "body" /\ UNCHANGED << phase, cur, active, wants, tried, ticked >>
      BY <2>0, <2>3, HeroSteps
    <3>2. QED BY <2>0, <3>1 DEF AnswerInv, Stage1, Stage2
  <2>4. CASE DashEnds \/ FireBody \/ MeleeBody \/ ReloadBody
    <3>1. PICK e : BodyReturns(e) /\ (cur = Dash => e)
      <4>1. DashEnds => BodyReturns(TRUE)
        BY <2>0, HeroSteps
      <4>2. FireBody => BodyReturns(FireStops) /\ cur # Dash
        BY <2>0, HeroSteps, HeroTable
      <4>3. MeleeBody => BodyReturns(SeqAfter(task[Melee], PostHit).i = 4) /\ cur # Dash
        BY <2>0, HeroSteps, HeroTable
      <4>4. ReloadBody => BodyReturns(SeqAfter(task[Reload], PostReload).i = 4) /\ cur # Dash
        BY <2>0, HeroSteps, HeroTable
      <4>5. QED BY <2>4, <4>1, <4>2, <4>3, <4>4
    <3>2. /\ phase = "body" /\ phase' = "ticking" /\ ticked' = ticked /\ active' \subseteq active
          /\ (cur = Dash => Dash \notin active')
      BY <3>1 DEF BodyReturns
    <3>3. QED BY <2>0, <3>2 DEF AnswerInv, Stage1, Stage2
  <2>5. CASE EndStage1
    <3>1. /\ phase = "ticking" /\ phase' = "scan" /\ active \subseteq ticked /\ UNCHANGED << active, tried >>
      BY <2>0, <2>5, HeroSteps
    <3>2. Dash \notin active /\ tried = {}
      BY <2>0, <3>1 DEF AnswerInv, Stage1, TickInv, WalkInv
    <3>3. QED BY <3>1, <3>2 DEF AnswerInv, Stage1
  <2>6. CASE TryCandidate
    <3>1. phase = "scan" /\ UNCHANGED << active, wants >>
      BY <2>0, <2>6, HeroSteps
    <3>2. PICK a \in HeroAbility : Chosen(a)
      BY <2>0, <2>6, HeroSteps
    <3>3. ASSUME NEW b \in {Dash, Melee}, b \in wants \cap tried'
          PROVE  b \in active \/ (phase' = "start" /\ cur' = b)
      <4>1. CASE b = a
        BY <3>2, <3>3, <4>1, HeroTable DEF Chosen
      <4>2. CASE b # a
        <5>1. b \in tried \cup active
          BY <3>2, <3>3, <4>2 DEF Chosen
        <5>2. QED BY <2>0, <3>1, <3>3, <5>1 DEF AnswerInv, Stage2
      <4>3. QED BY <4>1, <4>2
    <3>4. phase' \in {"scan", "start"} /\ (Dash \in active => Dash \in wants)
      BY <2>0, <3>1, <3>2 DEF Chosen, AnswerInv, Stage2
    <3>5. QED BY <3>1, <3>3, <3>4 DEF AnswerInv, Stage1
  <2>7. CASE CancelConflict
    <3>1. phase = "start" /\ UNCHANGED << phase, cur, wants, tried >>
      BY <2>0, <2>7, HeroSteps
    <3>2. active' \subseteq active /\ \A b \in {Dash, Melee} : b \in active => b \in active'
      BY <2>0, <2>7, HeroSteps, HeroTable
    <3>3. QED BY <2>0, <3>1, <3>2 DEF AnswerInv, Stage1, Stage2
  <2>8. CASE StartCandidate
    <3>1. /\ phase = "start" /\ phase' = "scan" /\ active' = active \cup {cur} /\ UNCHANGED << wants, tried >>
      BY <2>0, <2>8, HeroSteps
    <3>2. cur \in wants
      BY <2>0, <3>1 DEF SnapInv
    <3>3. QED BY <2>0, <3>1, <3>2 DEF AnswerInv, Stage1, Stage2
  <2>9. CASE EndTick
    <3>1. phase' = "idle"
      BY <2>0, <2>9, HeroSteps
    <3>2. QED BY <3>1 DEF AnswerInv, Stage1, Stage2
  <2>10. CASE UNCHANGED vars
    BY <2>0, <2>10 DEF vars, arbiterVars, AnswerInv, Stage1, Stage2
  <2>11. QED BY <2>1, <2>2, <2>3, <2>4, <2>5, <2>6, <2>7, <2>8, <2>9, <2>10 DEF Next, TickStep
<1>12. ASSUME HeroInv, TickInv', [Next]_vars PROVE HeroInv'
  BY <1>6, <1>7, <1>8, <1>9, <1>10, <1>11, <1>12 DEF HeroInv
<1>13. Spec => []TickInv
  BY TickInvariant
<1>14. QED BY <1>2, <1>12, <1>13, PTL DEF Spec, HeroInv

-----------------------------------------------------------------------------
(* What a hero's tick promises.                                             *)

\* Every variable of a hero's tick keeps its type: the magazine and the timers
\* stay within their configuration, and no more than one shot a tick is spawned.
THEOREM HeroTyped == Spec => []TypeOK
<1>1. AP!SizeAssumption /\ AP!TableAssumption /\ AP!ScopeAssumption /\ (Spec => AP!Spec)
  BY HeroRunsArbiter
<1>2. AP!Spec => [](AP!TypeOK /\ AP!TypeInv)
  BY <1>1, AP!TypeInvariant
<1>3. AP!TypeOK => A!TypeOK
  BY DEF AP!TypeOK, A!TypeOK, AP!Ability, A!Ability, AP!Resource, A!Resource, AP!None, A!None
<1>4. A!TypeOK /\ HeroInv => TypeOK
  BY DEF HeroInv, HeroTypes, WeaponTypes, TypeOK
<1>5. QED BY <1>1, <1>2, <1>3, <1>4, HeroInvariant, PTL

\* Outside stage 1 the weapon reloads exactly while the ability does: neither
\* timer gets ahead of the other by more than the tick that is under way.
THEOREM ReloadsInStep == Spec => []ReloadInStep
<1>1. ASSUME HeroInv PROVE ReloadInStep
  <2>1. isReloading \in BOOLEAN /\ TimersInv
    BY <1>1 DEF HeroInv, HeroTypes
  <2>2. phase \in {"idle", "scan", "start"} => ~Pending
    BY DEF Pending, Stage1
  <2>3. QED BY <2>1, <2>2 DEF TimersInv, ReloadInStep
<1>2. QED BY <1>1, HeroInvariant, PTL

\* With a hero's abilities the arbiter never skips one and never leaves a
\* scope's bit behind, which it does not promise for every table.
THEOREM NeverSkips == Spec => []ArbiterNeverSkips
<1>1. ASSUME TickInv PROVE ArbiterNeverSkips
  <2>1. A!AllActivesTicked
    BY <1>1 DEF TickInv, WalkInv, A!AllActivesTicked
  <2>2. A!LeftScopesFree
    BY <1>1 DEF TickInv, ScopesInv, A!LeftScopesFree, A!Resource, A!None
  <2>3. QED BY <2>1, <2>2 DEF ArbiterNeverSkips
<1>2. QED BY <1>1, TickInvariant, PTL

\* A press is answered in its own tick: a dash that is pressed runs at its end
\* and one that is not does not, a melee that is pressed runs, and a dash has
\* requested its movement before it ends.
THEOREM EachPressAnswered == Spec => PressesAnswered
<1> DEFINE Answered ==
      /\ phase = "scan" /\ phase' = "idle" =>
           /\ Dash \in active' <=> "shift" \in keys
           /\ "hit" \in keys => Melee \in active'
      /\ Dash \in active \ active' => dashStep = "left"
<1>1. ASSUME HeroInv, [Next]_vars, ~UNCHANGED vars PROVE Answered
  <2>0. TickInv
    BY <1>1 DEF HeroInv
  <2>1. CASE EndTick
    <3>1. phase = "scan" /\ wants \subseteq tried \cup active /\ active' = active
      BY <2>0, <2>1, HeroSteps
    <3>2. wants = Wanted(keys, snap)
      BY <1>1, <3>1 DEF HeroInv, SnapInv
    <3>3. (Dash \in wants <=> "shift" \in keys) /\ (Melee \in wants <=> "hit" \in keys)
      BY <3>2, HeroTable DEF Wanted, DashWanted, MeleeWanted
    <3>4. Dash \in active => Dash \in wants
      BY <1>1, <3>1 DEF HeroInv, AnswerInv, Stage2
    <3>5. \A a \in {Dash, Melee} : a \in wants => a \in active
      BY <1>1, <3>1 DEF HeroInv, AnswerInv, Stage2
    <3>6. QED BY <3>1, <3>3, <3>4, <3>5
  <2>2. CASE BeginTick \/ TickNext \/ DashAcquires \/ DashLeavesScope \/ EndStage1 \/ TryCandidate \/ StartCandidate
    <3>1. active \subseteq active' /\ phase' # "idle"
      <4>1. CASE BeginTick
        BY <2>0, <4>1, HeroSteps
      <4>2. CASE TickNext
        BY <2>0, <4>2, HeroSteps
      <4>3. CASE DashAcquires \/ DashLeavesScope
        BY <2>0, <4>3, HeroSteps
      <4>4. CASE EndStage1
        BY <2>0, <4>4, HeroSteps
      <4>5. CASE TryCandidate
        <5>1. PICK a \in HeroAbility : Chosen(a)
          BY <2>0, <4>5, HeroSteps
        <5>2. active' = active
          BY <2>0, <4>5, HeroSteps
        <5>3. QED BY <5>1, <5>2 DEF Chosen
      <4>6. CASE StartCandidate
        BY <2>0, <4>6, HeroSteps
      <4>7. QED BY <2>2, <4>1, <4>2, <4>3, <4>4, <4>5, <4>6
    <3>2. QED BY <3>1
  <2>3. CASE DashEnds
    <3>1. BodyReturns(TRUE) /\ dashStep = "left"
      BY <2>0, <2>3, HeroSteps
    <3>2. QED BY <3>1 DEF BodyReturns
  <2>4. CASE FireBody \/ MeleeBody \/ ReloadBody
    <3>1. PICK e : BodyReturns(e) /\ cur # Dash
      <4>1. FireBody => BodyReturns(FireStops) /\ cur # Dash
        BY <2>0, HeroSteps, HeroTable
      <4>2. MeleeBody => BodyReturns(SeqAfter(task[Melee], PostHit).i = 4) /\ cur # Dash
        BY <2>0, HeroSteps, HeroTable
      <4>3. ReloadBody => BodyReturns(SeqAfter(task[Reload], PostReload).i = 4) /\ cur # Dash
        BY <2>0, HeroSteps, HeroTable
      <4>4. QED BY <2>4, <4>1, <4>2, <4>3
    <3>2. QED BY <3>1 DEF BodyReturns
  <2>5. CASE CancelConflict
    <3>1. phase = "start" /\ Dash \notin active \ active'
      BY <2>0, <2>5, HeroSteps, HeroTable
    <3>2. QED BY <3>1
  <2>6. QED BY <1>1, <2>1, <2>2, <2>3, <2>4, <2>5 DEF Next, TickStep
<1>2. ASSUME HeroInv, [Next]_vars PROVE [Answered]_vars
  BY <1>1, <1>2
<1>3. QED BY <1>2, HeroInvariant, PTL DEF Spec, PressesAnswered

\* A melee that is over has struck once, however long the ticks were.
THEOREM EachMeleeStrikes == Spec => MeleeStrikesOnce
<1>1. ASSUME HeroInv, [Next]_vars, Melee \in active \ active' PROVE meleeHits = 1
  <2>0. TickInv
    BY <1>1 DEF HeroInv
  <2>1. ASSUME BeginTick \/ TickNext \/ DashAcquires \/ DashLeavesScope \/ EndStage1 \/ TryCandidate
               \/ StartCandidate \/ EndTick \/ UNCHANGED vars
        PROVE  FALSE
    <3>1. BeginTick \/ TickNext \/ DashAcquires \/ DashLeavesScope => active' = active
      BY <2>0, HeroSteps
    <3>2. EndStage1 \/ TryCandidate \/ EndTick => active' = active
      BY <2>0, HeroSteps
    <3>3. StartCandidate => active \subseteq active'
      BY <2>0, HeroSteps
    <3>4. UNCHANGED vars => active' = active
      BY DEF vars, arbiterVars
    <3>5. QED BY <1>1, <2>1, <3>1, <3>2, <3>3, <3>4
  <2>2. ASSUME DashEnds \/ FireBody \/ ReloadBody PROVE FALSE
    <3>1. PICK e : BodyReturns(e) /\ cur # Melee
      <4>1. DashEnds => BodyReturns(TRUE) /\ cur # Melee
        <5>1. DashEnds => BodyReturns(TRUE) /\ cur = Dash
          BY <2>0, HeroSteps
        <5>2. QED BY <5>1, HeroTable
      <4>2. FireBody => BodyReturns(FireStops) /\ cur # Melee
        BY <2>0, HeroSteps, HeroTable
      <4>3. ReloadBody => BodyReturns(SeqAfter(task[Reload], PostReload).i = 4) /\ cur # Melee
        BY <2>0, HeroSteps, HeroTable
      <4>4. QED BY <2>2, <4>1, <4>2, <4>3
    <3>2. QED BY <1>1, <3>1 DEF BodyReturns
  <2>3. ASSUME CancelConflict PROVE FALSE
    BY <1>1, <2>0, <2>3, HeroSteps, HeroTable
  <2>4. CASE MeleeBody
    <3>1. BodyReturns(SeqAfter(task[Melee], PostHit).i = 4)
      BY <2>0, <2>4, HeroSteps
    <3>2. SeqAfter(task[Melee], PostHit).i = 4
      BY <1>1, <3>1 DEF BodyReturns
    <3>3. task[Melee] \in [i : 1..4, remain : Nat] /\ dt \in Nat /\ PostHit \in Nat
      BY <1>1, HeroAssumption DEF HeroInv, HeroTypes
    <3>4. task[Melee].i = 1 => SeqAfter(task[Melee], PostHit).i \in {1, 2}
      BY <3>3, SequenceStep
    <3>5. task[Melee].i # 1
      BY <3>2, <3>4
    <3>6. QED BY <1>1, <3>5 DEF HeroInv, MeleeInv
  <2>5. QED BY <1>1, <2>1, <2>2, <2>3, <2>4 DEF Next, TickStep
<1>2. ASSUME HeroInv, [Next]_vars PROVE [(Melee \in active \ active') => meleeHits = 1]_vars
  BY <1>1, <1>2
<1>3. QED BY <1>2, HeroInvariant, PTL DEF Spec, MeleeStrikesOnce

\* Two shots are a fire interval apart: only a free trigger spends a round, and
\* what the cooldown and the time since the last shot make up is never less.
THEOREM ShotsSpaced == Spec => ShotSpacing
<1>1. ASSUME HeroInv, [Next]_vars, magAmmo' < magAmmo PROVE sinceShot >= FireInterval
  <2>0. /\ magAmmo \in 0..MagSize /\ fireCooldown \in 0..FireInterval /\ sinceShot \in 0..FireInterval
        /\ MagSize \in Nat /\ FireInterval \in Nat
    BY <1>1, HeroAssumption DEF HeroInv, HeroTypes, WeaponTypes
  <2>1. ~(magAmmo < magAmmo) /\ ~(MagSize < magAmmo)
    BY <2>0
  <2>2. magAmmo' # magAmmo /\ magAmmo' # MagSize
    BY <1>1, <2>1
  <2>3. FireBody /\ ~FireStops
    <3>1. ~BeginTick
      BY <2>2 DEF BeginTick, W!Tick, W!Refill
    <3>2. ~(TickNext \/ DashAcquires \/ DashLeavesScope \/ DashEnds \/ MeleeBody \/ EndStage1 \/ TryCandidate)
      BY <2>2 DEF TickNext, DashAcquires, DashLeavesScope, DashEnds, MeleeBody, EndStage1, TryCandidate, weaponVars
    <3>3. ~ReloadBody
      BY <2>2 DEF ReloadBody, W!CompleteReload, W!Refill, W!wvars, weaponVars
    <3>4. ~(CancelConflict \/ StartCandidate \/ EndTick)
      BY <2>2 DEF CancelConflict, StartCandidate, EndTick, W!CancelReload, W!BeginReload,
         W!CollectPendingSpawns, W!wvars, weaponVars
    <3>5. ~UNCHANGED vars
      BY <2>2 DEF vars, weaponVars
    <3>6. FireBody
      BY <1>1, <3>1, <3>2, <3>3, <3>4, <3>5 DEF Next, TickStep
    <3>7. QED BY <2>2, <3>6 DEF FireBody, weaponVars
  <2>4. fireCooldown <= 0
    BY <2>2, <2>3 DEF FireBody, W!TryFire, W!CanFire, W!wvars
  <2>5. QED BY <1>1, <2>0, <2>4 DEF HeroInv, CooldownInv
<1>2. ASSUME HeroInv, [Next]_vars PROVE [magAmmo' < magAmmo => sinceShot >= FireInterval]_vars
  BY <1>1, <1>2
<1>3. QED BY <1>2, HeroInvariant, PTL DEF Spec, ShotSpacing

-----------------------------------------------------------------------------
(* The weapon slot, under the mapping of HeroGameplay.                      *)

\* Arbiter, abilities and weapon together are the weapon slot: each step that
\* starts, runs, ends or cancels firing, melee or reloading is the step of the
\* slot of that name, and every other step leaves it alone.
THEOREM SlotImplemented == Spec => ImplementsSlot
<1>1. Init => Slot!Init
  <2> SUFFICES ASSUME Init PROVE Slot!Init
    OBVIOUS
  <2>1. active = {} /\ phase = "idle" /\ magAmmo = MagSize /\ isReloading = FALSE
    BY DEF Init, A!Init, W!Init
  <2>2. QED BY <2>1 DEF Slot!Init, HasSlot, SlotTaken
\* One ability at a time has the weapon, and a reload that has begun is its ability's.
<1>2. ASSUME HeroInv
      PROVE  /\ TickInv /\ isReloading \in BOOLEAN
             /\ \A a, b \in WeaponAbility \cap active : a = b
             /\ isReloading => Reload \in active
  <2>1. WeaponOp \in 1..3 /\ \A a \in WeaponAbility : HeroClaimed[a] = {WeaponOp}
    BY HeroTable
  <2>2. \A a \in WeaponAbility \cap active : owner[WeaponOp] = a
    BY <1>2, <2>1 DEF HeroInv, TickInv, ArbInv
  <2>3. QED BY <1>2, <2>2 DEF HeroInv, HeroTypes, TimersInv
<1>3. ASSUME active' \cap WeaponAbility = active \cap WeaponAbility, ~SlotTaken, ~SlotTaken',
             UNCHANGED << magAmmo, isReloading >>
      PROVE  UNCHANGED Slot!slotVars
  <2>1. \A a \in WeaponAbility : HasSlot(a) <=> HasSlot(a)'
    BY <1>3 DEF HasSlot
  <2>2. Fire \in WeaponAbility /\ Melee \in WeaponAbility /\ Reload \in WeaponAbility
    BY DEF WeaponAbility
  <2>3. QED BY <1>3, <2>1, <2>2 DEF Slot!slotVars
<1>4. ASSUME HeroInv, BeginTick PROVE [Slot!Next]_Slot!slotVars
  <2>1. phase = "idle" /\ phase' = "ticking" /\ active' = active
    BY <1>2, <1>4, HeroSteps
  <2>2. ~SlotTaken /\ ~SlotTaken'
    BY <2>1 DEF SlotTaken
  <2>3. PICK d \in Dts : W!Tick(d)
    BY <1>4 DEF BeginTick
  <2>4. CASE isReloading /\ reloadRemain <= d
    <3>1. magAmmo' = MagSize /\ isReloading' = FALSE
      BY <2>3, <2>4 DEF W!Tick, W!Refill
    <3>2. Reload \in active /\ Fire \notin active /\ Melee \notin active
      BY <1>2, <1>4, <2>4, HeroTable
    <3>3. Slot!Fill
      BY <2>1, <2>2, <2>4, <3>1, <3>2 DEF Slot!Fill, HasSlot
    <3>4. QED BY <3>3 DEF Slot!Next
  <2>5. CASE ~(isReloading /\ reloadRemain <= d)
    BY <1>3, <2>1, <2>2, <2>3, <2>5 DEF W!Tick
  <2>6. QED BY <2>4, <2>5
<1>5. ASSUME HeroInv, TickNext \/ DashAcquires \/ DashLeavesScope \/ EndStage1 \/ EndTick
      PROVE  UNCHANGED Slot!slotVars
  <2>1. active' = active /\ phase # "start" /\ phase' # "start"
    <3>1. TickNext \/ DashAcquires \/ DashLeavesScope => active' = active /\ phase # "start" /\ phase' # "start"
      BY <1>2, <1>5, HeroSteps
    <3>2. EndStage1 \/ EndTick => active' = active /\ phase # "start" /\ phase' # "start"
      BY <1>2, <1>5, HeroSteps
    <3>3. QED BY <1>5, <3>1, <3>2
  <2>2. UNCHANGED << magAmmo, isReloading >>
    BY <1>5 DEF TickNext, DashAcquires, DashLeavesScope, EndStage1, EndTick, W!CollectPendingSpawns, weaponVars
  <2>3. QED BY <1>3, <2>1, <2>2 DEF SlotTaken
<1>6. ASSUME HeroInv, DashEnds PROVE UNCHANGED Slot!slotVars
  <2>1. BodyReturns(TRUE) /\ cur = Dash
    BY <1>2, <1>6, HeroSteps
  <2>2. active' \cap WeaponAbility = active \cap WeaponAbility
    BY <2>1, HeroTable DEF BodyReturns
  <2>3. UNCHANGED << magAmmo, isReloading >>
    BY <1>6 DEF DashEnds, weaponVars
  <2>4. QED BY <1>3, <2>1, <2>2, <2>3 DEF BodyReturns, SlotTaken
\* A body of the weapon's abilities that returns, ended or not.
<1>7. ASSUME HeroInv, NEW e \in BOOLEAN, NEW a \in WeaponAbility, BodyReturns(e), cur = a
      PROVE  /\ ~SlotTaken /\ ~SlotTaken' /\ active \cap WeaponAbility = {a}
             /\ active' \cap WeaponAbility = IF e THEN {} ELSE {a}
  BY <1>2, <1>7 DEF BodyReturns, SlotTaken
<1>8. ASSUME HeroInv, FireBody PROVE [Slot!Next]_Slot!slotVars
  <2>1. BodyReturns(FireStops) /\ cur = Fire /\ FireStops \in BOOLEAN /\ Fire \in WeaponAbility
    BY <1>2, <1>8, HeroSteps DEF FireStops, WeaponAbility
  <2>2. /\ ~SlotTaken /\ ~SlotTaken' /\ active \cap WeaponAbility = {Fire}
        /\ active' \cap WeaponAbility = IF FireStops THEN {} ELSE {Fire}
    BY <1>7, <1>8, <2>1
  <2>3. CASE FireStops
    <3>1. UNCHANGED << magAmmo, isReloading >>
      BY <1>8, <2>3 DEF FireBody, weaponVars
    <3>2. Fire \in active /\ Fire \notin active' /\ Melee \notin active' /\ Reload \notin active'
      BY <2>2, <2>3 DEF WeaponAbility
    <3>3. Slot!StopFire
      BY <2>2, <3>1, <3>2 DEF Slot!StopFire, HasSlot
    <3>4. QED BY <3>3 DEF Slot!Next
  <2>4. CASE ~FireStops
    <3>1. Fire \in active /\ Fire \in active' /\ W!TryFire /\ active' \cap WeaponAbility = active \cap WeaponAbility
      BY <1>8, <2>2, <2>4 DEF FireBody
    <3>2. CASE W!CanFire
      <4>1. magAmmo > 0 /\ magAmmo' = magAmmo - 1 /\ isReloading' = isReloading
        BY <3>1, <3>2 DEF W!TryFire, W!CanFire
      <4>2. Slot!Shoot
        BY <2>2, <3>1, <4>1 DEF Slot!Shoot, HasSlot
      <4>3. QED BY <4>2 DEF Slot!Next
    <3>3. CASE ~W!CanFire
      BY <1>3, <2>2, <3>1, <3>3 DEF W!TryFire, W!wvars
    <3>4. QED BY <3>2, <3>3
  <2>5. QED BY <2>3, <2>4
<1>9. ASSUME HeroInv, MeleeBody PROVE [Slot!Next]_Slot!slotVars
  <2> DEFINE over == SeqAfter(task[Melee], PostHit).i = 4
  <2>1. BodyReturns(over) /\ cur = Melee /\ over \in BOOLEAN /\ Melee \in WeaponAbility
    BY <1>2, <1>9, HeroSteps DEF WeaponAbility
  <2>2. /\ ~SlotTaken /\ ~SlotTaken' /\ active \cap WeaponAbility = {Melee}
        /\ active' \cap WeaponAbility = IF over THEN {} ELSE {Melee}
    BY <1>7, <1>9, <2>1
  <2>3. UNCHANGED << magAmmo, isReloading >>
    BY <1>9 DEF MeleeBody, weaponVars
  <2>4. CASE over
    <3>1. /\ Melee \in active /\ Fire \notin active
          /\ Fire \notin active' /\ Melee \notin active' /\ Reload \notin active'
      BY <2>2, <2>4, HeroTable
    <3>2. Slot!EndMelee
      BY <2>2, <2>3, <3>1 DEF Slot!EndMelee, HasSlot
    <3>3. QED BY <3>2 DEF Slot!Next
  <2>5. CASE ~over
    BY <1>3, <2>2, <2>3, <2>5
  <2>6. QED BY <2>4, <2>5
<1>10. ASSUME HeroInv, ReloadBody PROVE [Slot!Next]_Slot!slotVars
  <2> DEFINE next == SeqAfter(task[Reload], PostReload)
             over == next.i = 4
  <2>1. BodyReturns(over) /\ cur = Reload /\ over \in BOOLEAN /\ Reload \in WeaponAbility
    BY <1>2, <1>10, HeroSteps DEF WeaponAbility
  <2>2. /\ ~SlotTaken /\ ~SlotTaken' /\ active \cap WeaponAbility = {Reload}
        /\ active' \cap WeaponAbility = IF over THEN {} ELSE {Reload}
    BY <1>7, <1>10, <2>1
  <2>3. Reload \in active /\ Fire \notin active /\ Melee \notin active
    BY <2>2, HeroTable
  <2>4. task[Reload] \in [i : 1..4, remain : Nat] /\ dt \in Nat /\ PostReload \in Nat
    BY <1>10, HeroAssumption DEF HeroInv, HeroTypes
  <2>5. task[Reload].i = 1 => next.i \in {1, 2}
    BY <2>4, SequenceStep
  <2>6. IF CallsNow(Reload, next) THEN W!CompleteReload ELSE UNCHANGED weaponVars
    BY <1>10 DEF ReloadBody
  <2>7. CASE CallsNow(Reload, next) /\ isReloading
    <3>1. magAmmo' = MagSize /\ isReloading' = FALSE
      BY <2>6, <2>7 DEF W!CompleteReload, W!Refill
    <3>2. active' \cap WeaponAbility = {Reload}
      BY <2>2, <2>7 DEF CallsNow
    <3>3. Reload \in active' /\ Fire \notin active' /\ Melee \notin active'
      BY <3>2, HeroTable
    <3>4. Slot!Fill
      BY <2>2, <2>3, <2>7, <3>1, <3>3 DEF Slot!Fill, HasSlot
    <3>5. QED BY <3>4 DEF Slot!Next
  <2>8. CASE ~(CallsNow(Reload, next) /\ isReloading)
    <3>1. UNCHANGED << magAmmo, isReloading >>
      BY <2>6, <2>8 DEF W!CompleteReload, W!wvars, weaponVars
    <3>2. CASE over
      <4>1. task[Reload].i # 1
        BY <2>5, <3>2
      <4>2. ~isReloading
        BY <1>10, <4>1 DEF HeroInv, TimersInv
      <4>3. Fire \notin active' /\ Melee \notin active' /\ Reload \notin active'
        BY <2>2, <3>2, HeroTable
      <4>4. Slot!EndReload
        BY <2>2, <2>3, <3>1, <4>2, <4>3 DEF Slot!EndReload, HasSlot
      <4>5. QED BY <4>4 DEF Slot!Next
    <3>3. CASE ~over
      BY <1>3, <2>2, <3>1, <3>3
    <3>4. QED BY <3>2, <3>3
  <2>9. QED BY <2>7, <2>8
\* The arbiter clears the way for a candidate: the slot is its from then on.
<1>11. ASSUME HeroInv, TryCandidate PROVE [Slot!Next]_Slot!slotVars
  <2>1. phase = "scan" /\ UNCHANGED << active, wants >>
    BY <1>2, <1>11, HeroSteps
  <2>2. PICK a \in HeroAbility : Chosen(a)
    BY <1>2, <1>11, HeroSteps
  <2>3. a \in wants \ (tried \cup active) /\ wants = Wanted(keys, snap)
    BY <1>11, <2>1, <2>2 DEF Chosen, HeroInv, SnapInv
  <2>4. UNCHANGED << magAmmo, isReloading >> /\ ~SlotTaken
    BY <1>11, <2>1 DEF TryCandidate, weaponVars, SlotTaken
  <2>5. CASE phase' = "scan"
    BY <1>3, <2>1, <2>4, <2>5 DEF SlotTaken
  <2>6. CASE phase' = "start" /\ cur' = a /\ active \cap WeaponAbility # {}
    BY <1>3, <2>1, <2>4, <2>6 DEF SlotTaken
  <2>7. CASE phase' = "start" /\ cur' = a /\ active \cap WeaponAbility = {}
    <3>1. SlotTaken' /\ \A b \in WeaponAbility : ~HasSlot(b) /\ (HasSlot(b)' <=> b = a)
      BY <2>1, <2>4, <2>7 DEF SlotTaken, HasSlot
    <3>2. Fire \in WeaponAbility /\ Melee \in WeaponAbility /\ Reload \in WeaponAbility
      BY DEF WeaponAbility
    <3>3. ~isReloading
      BY <1>2, <1>11, <2>7, <3>2
    <3>4. CASE a = Dash
      <4>1. UNCHANGED Slot!slotVars
        BY <2>4, <2>7, <3>1, <3>2, <3>4, HeroTable DEF Slot!slotVars
      <4>2. QED BY <4>1
    <3>5. CASE a = Fire
      <4>1. magAmmo > 0
        BY <1>11, <2>1, <2>3, <3>5 DEF HeroInv, SnapInv
      <4>2. Slot!StartFire
        BY <2>4, <2>7, <3>1, <3>2, <3>5, <4>1, HeroTable DEF Slot!StartFire
      <4>3. QED BY <4>2 DEF Slot!Next
    <3>6. CASE a = Melee
      <4>1. Slot!StartMelee
        BY <2>4, <2>7, <3>1, <3>2, <3>3, <3>6, HeroTable DEF Slot!StartMelee
      <4>2. QED BY <4>1 DEF Slot!Next
    <3>7. CASE a = Reload
      <4>1. ~snap.reloading /\ snap.ammo < MagSize
        BY <2>3, <3>7, HeroTable DEF Wanted, ReloadWanted
      <4>2. magAmmo <= snap.ammo
        BY <1>11, <2>1, <4>1 DEF HeroInv, SnapInv
      <4>3. magAmmo < MagSize
        BY <1>11, <4>1, <4>2, HeroAssumption DEF HeroInv, HeroTypes, WeaponTypes
      <4>4. Slot!StartReload
        BY <2>4, <2>7, <3>1, <3>2, <3>3, <3>7, <4>3, HeroTable DEF Slot!StartReload
      <4>5. QED BY <4>4 DEF Slot!Next
    <3>8. QED BY <3>4, <3>5, <3>6, <3>7, HeroTable
  <2>8. QED BY <2>2, <2>5, <2>6, <2>7 DEF Chosen
<1>12. ASSUME HeroInv, CancelConflict PROVE [Slot!Next]_Slot!slotVars
  <2>1. phase = "start" /\ cur = Melee /\ UNCHANGED << phase, cur >>
    BY <1>2, <1>12, HeroSteps
  <2>2. PICK o \in {Fire, Reload} \cap active : active' = active \ {o}
    BY <1>2, <1>12, HeroSteps
  <2>3. active \cap WeaponAbility = {o} /\ active' \cap WeaponAbility = {}
    BY <1>2, <1>12, <2>2 DEF WeaponAbility
  <2>4. o # Melee /\ Fire # Melee /\ Fire # Reload /\ Reload # Melee
    BY <2>2, HeroTable
  <2>5. ~SlotTaken /\ SlotTaken' /\ cur' = Melee
    BY <2>1, <2>2, <2>3 DEF SlotTaken
  <2>6. magAmmo' = magAmmo /\ ~isReloading'
    <3>1. CASE o = Reload
      BY <1>12, <2>2, <3>1 DEF CancelConflict, W!CancelReload
    <3>2. CASE o = Fire
      <4>1. Reload \notin active /\ ~isReloading
        BY <1>2, <1>12, <2>3, <2>4, <3>2 DEF WeaponAbility
      <4>2. QED BY <1>12, <2>2, <2>4, <3>2, <4>1 DEF CancelConflict, weaponVars
    <3>3. QED BY <2>2, <3>1, <3>2
  <2>7. Fire \notin active' /\ Melee \notin active' /\ Reload \notin active' /\ Melee \notin active
    BY <2>3, <2>4 DEF WeaponAbility
  <2>8. Slot!StartMelee
    BY <2>2, <2>4, <2>5, <2>6, <2>7 DEF Slot!StartMelee, HasSlot
  <2>9. QED BY <2>8 DEF Slot!Next
<1>13. ASSUME HeroInv, StartCandidate PROVE UNCHANGED Slot!slotVars
  <2>1. /\ phase = "start" /\ phase' = "scan" /\ cur \in HeroAbility /\ active' = active \cup {cur}
        /\ cur # Dash => active \cap WeaponAbility = {}
    BY <1>2, <1>13, HeroSteps
  <2>2. ~SlotTaken'
    BY <2>1 DEF SlotTaken
  <2>3. CASE cur = Dash
    <3>1. \A a \in WeaponAbility : HasSlot(a) <=> HasSlot(a)'
      BY <2>1, <2>2, <2>3, HeroTable DEF HasSlot
    <3>2. UNCHANGED << magAmmo, isReloading >>
      BY <1>13, <2>3, HeroTable DEF StartCandidate, weaponVars
    <3>3. QED BY <2>2, <2>3, <3>1, <3>2, HeroTable DEF Slot!slotVars
  <2>4. CASE cur # Dash
    <3>1. SlotTaken
      BY <2>1, <2>4 DEF SlotTaken
    <3>2. \A a \in WeaponAbility : HasSlot(a) <=> HasSlot(a)'
      BY <2>1, <2>2, <2>4, <3>1 DEF HasSlot
    <3>3. ~isReloading
      BY <1>2, <1>13, <2>1, <2>4 DEF WeaponAbility
    <3>4. CASE cur = Reload
      <4>1. Reload \in Wanted(keys, snap)
        BY <1>13, <2>1, <3>4 DEF HeroInv, SnapInv
      <4>2. ~snap.reloading /\ snap.ammo < MagSize
        BY <4>1, HeroTable DEF Wanted, ReloadWanted
      <4>3. magAmmo <= snap.ammo
        BY <1>13, <2>1, <4>2 DEF HeroInv, SnapInv
      <4>4. magAmmo < MagSize
        BY <1>13, <4>2, <4>3, HeroAssumption DEF HeroInv, HeroTypes, WeaponTypes
      <4>5. magAmmo' = magAmmo /\ isReloading' = TRUE
        BY <1>13, <3>3, <3>4, <4>4 DEF StartCandidate, W!BeginReload
      <4>6. QED BY <2>2, <3>1, <3>2, <3>3, <3>4, <4>5, HeroTable DEF Slot!slotVars
    <3>5. CASE cur # Reload
      <4>1. UNCHANGED << magAmmo, isReloading >>
        BY <1>13, <3>5 DEF StartCandidate, weaponVars
      <4>2. QED BY <2>2, <3>2, <3>5, <4>1, HeroTable DEF Slot!slotVars
    <3>6. QED BY <3>4, <3>5
  <2>5. QED BY <2>3, <2>4
<1>14. UNCHANGED vars => UNCHANGED Slot!slotVars
  BY DEF vars, arbiterVars, weaponVars, Slot!slotVars, HasSlot, SlotTaken
<1>15. ASSUME HeroInv, [Next]_vars PROVE [Slot!Next]_Slot!slotVars
  BY <1>4, <1>5, <1>6, <1>8, <1>9, <1>10, <1>11, <1>12, <1>13, <1>14, <1>15 DEF Next, TickStep
<1>16. QED BY <1>1, <1>15, HeroInvariant, PTL DEF Spec, ImplementsSlot, Slot!Spec
=============================================================================
