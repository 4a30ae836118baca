------------------------ MODULE InputPipelineProofs -------------------------
(***************************************************************************)
(* For any set of buttons and any traffic: both halves of a tick see the   *)
(* same presses, and these are the changes from up to down among the masks *)
(* handled since the tick before.  As long as no packet is overtaken, they *)
(* are no more than the player made.                                       *)
(***************************************************************************)
EXTENDS InputPipeline, FiniteSetTheorems, TLAPS

(* What holds between the steps: the collected edges are those of the log,  *)
(* the log ends with the state that was last taken over, and a key that is  *)
(* down now but was not in the last frame has an edge collected.            *)
LogInv ==
  /\ Len(log) >= 1 /\ log[Len(log)] = lastMask
  /\ pending = {k \in Key : PressedIn(log, k)}

FrameInv ==
  /\ phase = "poll" => frame.prev = frame.down /\ lastMask \ frame.down \subseteq pending
  /\ phase = "movement" => /\ frame.down = lastMask
                           /\ frame.down \ frame.prev \subseteq frame.thisTick
  /\ phase = "gameplay" => frame.down = lastMask /\ frame.prev = frame.down

InputInv == TypeOK /\ LogInv /\ FrameInv /\ PressesAreLogEdges

-----------------------------------------------------------------------------
\* Every run of the pipeline is well typed, no word carries a spare bit, and log
\* and frame agree on what was pressed.
THEOREM InputInvariant == Spec => [](TypeOK /\ InputInv)
\* One more mask adds the presses between the last one and itself.
<1>1. ASSUME NEW l \in Seq(SUBSET Key), Len(l) >= 1, NEW m \in SUBSET Key, NEW k \in Key
      PROVE  PressedIn(Append(l, m), k) <=> PressedIn(l, k) \/ (k \notin l[Len(l)] /\ k \in m)
  <2> USE <1>1
  <2> DEFINE a == Append(l, m)
  <2>1. /\ Len(a) = Len(l) + 1 /\ a[Len(l) + 1] = m
        /\ \A j \in 1..Len(l) : a[j] = l[j]
    OBVIOUS
  <2>2. Len(l) \in Nat
    OBVIOUS
  <2>3. ASSUME PressedIn(a, k) PROVE PressedIn(l, k) \/ (k \notin l[Len(l)] /\ k \in m)
    <3>1. PICK j \in 1..(Len(a) - 1) : k \notin a[j] /\ k \in a[j + 1]
      BY <2>3 DEF PressedIn
    <3>2. CASE j = Len(l)
      BY <3>1, <3>2, <2>1, <2>2
    <3>3. CASE j # Len(l)
      <4>1. j \in 1..(Len(l) - 1) /\ j \in 1..Len(l) /\ j + 1 \in 1..Len(l)
        BY <3>1, <3>3, <2>1, <2>2
      <4>2. QED BY <4>1, <3>1, <2>1 DEF PressedIn
    <3>4. QED BY <3>2, <3>3
  <2>4. ASSUME PressedIn(l, k) PROVE PressedIn(a, k)
    <3>1. PICK j \in 1..(Len(l) - 1) : k \notin l[j] /\ k \in l[j + 1]
      BY <2>4 DEF PressedIn
    <3>2. j \in 1..(Len(a) - 1) /\ j \in 1..Len(l) /\ j + 1 \in 1..Len(l)
      BY <3>1, <2>1, <2>2
    <3>3. QED BY <3>1, <3>2, <2>1 DEF PressedIn
  <2>5. ASSUME k \notin l[Len(l)], k \in m PROVE PressedIn(a, k)
    <3>1. Len(l) \in 1..(Len(a) - 1) /\ Len(l) \in 1..Len(l)
      BY <2>1, <2>2
    <3>2. QED BY <3>1, <2>5, <2>1 DEF PressedIn
  <2>6. QED BY <2>3, <2>4, <2>5
\* A single mask has no press in it.
<1>2. ASSUME NEW m, NEW k PROVE ~PressedIn(<< m >>, k)
  BY <1>2 DEF PressedIn
\* Nothing has been sent or pressed yet.
<1>3. Init => InputInv
  <2> SUFFICES ASSUME Init PROVE InputInv
    OBVIOUS
  <2>1. TypeOK
    <3>1. sent \in Seq(SUBSET Key) /\ log \in Seq(SUBSET Key) /\ heard \in Seq(SUBSET Key)
      BY DEF Init
    <3>2. frame \in [thisTick : SUBSET Key, down : SUBSET Key, prev : SUBSET Key]
      BY DEF Init, NoButtons
    <3>3. seen \in [Key -> Nat]
      BY DEF Init
    <3>4. QED BY <3>1, <3>2, <3>3 DEF Init, TypeOK
  <2>2. LogInv
    BY <1>2 DEF Init, LogInv
  <2>3. FrameInv /\ PressesAreLogEdges
    BY DEF Init, FrameInv, PressesAreLogEdges, NoButtons
  <2>4. QED BY <2>1, <2>2, <2>3 DEF InputInv
\* A packet handled between two ticks.
<1>4. ASSUME InputInv, NEW i \in 1..Len(sent), Deliver(i) PROVE InputInv'
  <2> USE <1>4
  <2>1. sent[i] \in SUBSET Key /\ sent[i] \subseteq Word
    BY DEF InputInv, TypeOK, Word
  <2>2. DownEdge(sent[i], lastMask) = sent[i] \ lastMask
    BY <2>1 DEF DownEdge, Word
  <2>3. pending' = pending \cup (sent[i] \ lastMask) /\ lastMask' = sent[i]
    BY <2>2 DEF Deliver, HandleInputCommand, Collect
  <2>4. TypeOK'
    BY <2>1, <2>3 DEF InputInv, TypeOK, Deliver
  <2>5. log \in Seq(SUBSET Key) /\ Len(log) >= 1 /\ log' = Append(log, sent[i])
    BY DEF InputInv, TypeOK, LogInv, Deliver
  <2>6. Len(log') >= 1 /\ log'[Len(log')] = lastMask'
    BY <2>1, <2>3, <2>5
  <2>7. pending' = {k \in Key : PressedIn(log', k)}
    <3>1. \A k \in Key : PressedIn(log', k) <=> k \in pending \/ k \in sent[i] \ lastMask
      BY <2>1, <2>5, <1>1 DEF InputInv, LogInv
    <3>2. pending' \subseteq Key
      BY <2>4 DEF TypeOK
    <3>3. QED BY <3>1, <3>2, <2>3
  <2>8. FrameInv'
    BY <2>3 DEF InputInv, FrameInv, Deliver
  <2>9. PressesAreLogEdges'
    BY DEF InputInv, PressesAreLogEdges, Deliver
  <2>10. QED BY <2>4, <2>6, <2>7, <2>8, <2>9 DEF InputInv, LogInv
\* Tick takes the collected edges over.
<1>5. ASSUME InputInv, BuildFrame PROVE InputInv'
  <2> USE <1>5
  <2>1. /\ frame'.thisTick = pending /\ frame'.down = lastMask /\ frame'.prev = frame.prev
        /\ frame' \in [thisTick : SUBSET Key, down : SUBSET Key, prev : SUBSET Key]
    BY DEF InputInv, TypeOK, BuildFrame
  <2>2. TypeOK'
    BY <2>1 DEF InputInv, TypeOK, BuildFrame
  <2>3. LogInv'
    BY <1>2 DEF LogInv, BuildFrame
  <2>4. FrameInv'
    BY <2>1 DEF InputInv, FrameInv, BuildFrame
  <2>5. PressesAreLogEdges'
    <3>1. heard' = log /\ frame'.thisTick = {k \in Key : PressedIn(log, k)}
      BY <2>1 DEF InputInv, LogInv, BuildFrame
    <3>2. QED BY <3>1 DEF PressesAreLogEdges
  <2>6. QED BY <2>2, <2>3, <2>4, <2>5 DEF InputInv
\* Between the two halves of the tick.
<1>6. ASSUME InputInv, EnterGameplay PROVE InputInv'
  <2> USE <1>6
  <2>1. /\ frame'.thisTick = frame.thisTick /\ frame'.down = frame.down
        /\ frame'.prev = frame.down
        /\ frame' \in [thisTick : SUBSET Key, down : SUBSET Key, prev : SUBSET Key]
    BY DEF InputInv, TypeOK, EnterGameplay
  <2>2. seen' \in [Key -> Nat]
    BY DEF InputInv, TypeOK, EnterGameplay
  <2>3. TypeOK'
    BY <2>1, <2>2 DEF InputInv, TypeOK, EnterGameplay
  <2>4. LogInv'
    BY DEF InputInv, LogInv, EnterGameplay, PressedIn
  <2>5. FrameInv'
    BY <2>1 DEF InputInv, FrameInv, EnterGameplay
  <2>6. PressesAreLogEdges'
    BY <2>1 DEF InputInv, PressesAreLogEdges, EnterGameplay
  <2>7. QED BY <2>3, <2>4, <2>5, <2>6 DEF InputInv
\* The invariant is inductive.
<1>7. InputInv /\ [Next]_vars => InputInv'
  <2> SUFFICES ASSUME InputInv, [Next]_vars PROVE InputInv'
    OBVIOUS
  <2>1. CASE ClientSends
    <3>1. sent' \in Seq(SUBSET Key)
      BY <2>1 DEF InputInv, TypeOK, ClientSends
    <3>2. UNCHANGED << lastMask, pending, frame, phase, log, heard, lastDown, newest,
                       overtaken, seen >>
      BY <2>1 DEF ClientSends
    <3>3. QED
      BY <3>1, <3>2 DEF InputInv, TypeOK, LogInv, FrameInv, PressesAreLogEdges, PressedIn
  <2>2. ASSUME NEW i \in 1..Len(sent), Deliver(i) PROVE InputInv'
    BY <2>2, <1>4
  <2>3. CASE BuildFrame
    BY <2>3, <1>5
  <2>4. CASE EnterGameplay
    BY <2>4, <1>6
  <2>5. CASE TickReturns
    BY <2>5 DEF InputInv, TypeOK, LogInv, FrameInv, PressesAreLogEdges, PressedIn, TickReturns
  <2>6. CASE UNCHANGED vars
    BY <2>6 DEF InputInv, TypeOK, LogInv, FrameInv, PressesAreLogEdges, PressedIn, vars
  <2>7. QED BY <2>1, <2>2, <2>3, <2>4, <2>5, <2>6 DEF Next
<1>8. InputInv => TypeOK
  BY DEF InputInv
<1>9. QED BY <1>3, <1>7, <1>8, PTL DEF Spec

-----------------------------------------------------------------------------
\* Movement and gameplay read the same presses in every tick.
THEOREM BothHalvesAgree == Spec => []ViewsAgree
<1>1. InputInv => ViewsAgree
  <2> SUFFICES ASSUME InputInv PROVE ViewsAgree
    OBVIOUS
  <2>1. frame.thisTick \subseteq Word
    BY DEF InputInv, TypeOK, Word
  <2>2. EdgesCover
    BY <2>1 DEF EdgesCover, KeysDown, GetKeyDown, InputInv, FrameInv
  <2>3. GameplayPressed
    BY <2>1 DEF GameplayPressed, KeysDown, GetKeyDown, InputInv, FrameInv
  <2>4. QED BY <2>2, <2>3 DEF ViewsAgree
<1>2. QED BY <1>1, InputInvariant, PTL

\* A tick sees a press exactly when one was handled since the tick before.
THEOREM NoPressLost == Spec => []PressesAreLogEdges
<1>1. InputInv => PressesAreLogEdges
  BY DEF InputInv
<1>2. QED BY <1>1, InputInvariant, PTL

-----------------------------------------------------------------------------
(* Presses are counted against the samples up to the newest that arrived:   *)
(* those the ticks have seen, one that is collected, and one in the frame   *)
(* of a tick that has not come to its gameplay yet.                         *)
Edges(s, k, n) == {j \in 1..n : k \in s[j] /\ (j = 1 \/ k \notin s[j - 1])}

Unseen(k) == IF k \in pending THEN 1 ELSE 0
Coming(k) == IF phase = "movement" /\ k \in frame.thisTick THEN 1 ELSE 0

OrderedInv ==
  /\ newest \in 0..Len(sent)
  /\ ~overtaken =>
       /\ lastMask = IF newest = 0 THEN {} ELSE sent[newest]
       /\ \A k \in Key : seen[k] + Unseen(k) + Coming(k) <= Cardinality(Edges(sent, k, newest))
  /\ NoPhantomPress

\* While packets arrive in order, no tick sees a press the player did not make,
\* however many are lost or repeated.
THEOREM NoPressInvented == Spec => []NoPhantomPress
\* Up to a later sample there are as many presses, and one more if the key was
\* up at the earlier and is down at the later.
<1>1. ASSUME NEW s, NEW k, NEW n \in Nat, NEW m \in Nat, n <= m
      PROVE  /\ Cardinality(Edges(s, k, n)) \in Nat /\ Cardinality(Edges(s, k, m)) \in Nat
             /\ Cardinality(Edges(s, k, n)) <= Cardinality(Edges(s, k, m))
             /\ n < m /\ k \in s[m] /\ (n = 0 \/ k \notin s[n]) =>
                  Cardinality(Edges(s, k, n)) + 1 <= Cardinality(Edges(s, k, m))
  \* A set of numbers that is not empty has a least.
  <2> USE <1>1
  <2>1. ASSUME NEW S \in SUBSET Nat, S # {} PROVE \E least \in S : \A j \in S : least <= j
    <3>1. PICK least \in S : \A j \in S : << j, least >> \notin OpToRel(<, Nat)
      BY <2>1, WFMin, NatLessThanWellFounded
    <3>2. \A j \in S : ~(j < least)
      BY <2>1, <3>1 DEF OpToRel
    <3>3. ASSUME NEW j \in S PROVE least <= j
      <4>1. j \in Nat /\ least \in Nat /\ ~(j < least)
        BY <2>1, <3>1, <3>2, <3>3
      <4>2. QED BY <4>1
    <3>4. QED BY <3>1, <3>3
  <2>2. IsFiniteSet(Edges(s, k, n)) /\ IsFiniteSet(Edges(s, k, m)) /\ Edges(s, k, n) \subseteq Edges(s, k, m)
    <3>1. IsFiniteSet(1..m) /\ Edges(s, k, n) \subseteq 1..m /\ Edges(s, k, m) \subseteq 1..m
      <4>1. IsFiniteSet(1..m)
        BY FS_Interval
      <4>2. 1..n \subseteq 1..m
        OBVIOUS
      <4>3. Edges(s, k, n) \subseteq 1..n /\ Edges(s, k, m) \subseteq 1..m
        BY Zenon DEF Edges
      <4>4. QED BY <4>1, <4>2, <4>3
    <3>2. Edges(s, k, n) \subseteq Edges(s, k, m)
      BY DEF Edges
    <3>3. QED BY <3>1, <3>2, FS_Subset
  <2>3. /\ Cardinality(Edges(s, k, n)) \in Nat /\ Cardinality(Edges(s, k, m)) \in Nat
        /\ Cardinality(Edges(s, k, n)) <= Cardinality(Edges(s, k, m))
    BY <2>2, FS_Subset, FS_CardinalityType
  <2>4. ASSUME n < m, k \in s[m], n = 0 \/ k \notin s[n]
        PROVE  Cardinality(Edges(s, k, n)) + 1 <= Cardinality(Edges(s, k, m))
    <3>1. PICK j \in {i \in (n + 1)..m : k \in s[i]} : \A i \in (n + 1)..m : k \in s[i] => j <= i
      <4>1. m \in {i \in (n + 1)..m : k \in s[i]} /\ {i \in (n + 1)..m : k \in s[i]} \in SUBSET Nat
        BY <2>4
      <4>2. QED BY <4>1, <2>1
    <3>2. j = 1 \/ k \notin s[j - 1]
      <4>1. CASE j = n + 1
        BY <4>1, <2>4
      <4>2. CASE j # n + 1
        <5>1. j - 1 \in (n + 1)..m /\ ~(j <= j - 1)
          BY <4>2, <3>1
        <5>2. QED BY <5>1, <3>1
      <4>3. QED BY <4>1, <4>2
    <3>3. j \in Edges(s, k, m) /\ j \notin Edges(s, k, n)
      BY <3>1, <3>2 DEF Edges
    <3>4. Edges(s, k, n) \cup {j} \subseteq Edges(s, k, m)
      BY <2>2, <3>3
    <3>5. /\ IsFiniteSet(Edges(s, k, n) \cup {j})
          /\ Cardinality(Edges(s, k, n) \cup {j}) = Cardinality(Edges(s, k, n)) + 1
      BY <2>2, <3>3, FS_AddElement
    <3>6. QED BY <2>2, <3>4, <3>5, FS_Subset
  <2>5. QED BY <2>3, <2>4
<1> USE DEF Unseen, Coming
<1>2. Init => OrderedInv
  <2> SUFFICES ASSUME Init PROVE OrderedInv
    OBVIOUS
  <2>1. \A k \in Key : Cardinality(Edges(sent, k, 0)) \in Nat
    BY <1>1
  <2>2. \A k \in Key : ClientPresses(k) \in Nat /\ ClientPresses(k) = Cardinality(Edges(sent, k, 0))
    BY <2>1 DEF Init, ClientPresses, Edges
  <2>3. \A k \in Key : seen[k] = 0 /\ Unseen(k) = 0 /\ Coming(k) = 0
    BY DEF Init
  <2>4. QED BY <2>1, <2>2, <2>3 DEF Init, OrderedInv, NoPhantomPress
<1>3. ASSUME InputInv, OrderedInv, [Next]_vars PROVE OrderedInv'
  <2> USE <1>3
  <2>0. /\ Len(sent) \in Nat /\ newest \in 0..Len(sent) /\ seen \in [Key -> Nat]
        /\ \A k \in Key : ClientPresses(k) = Cardinality(Edges(sent, k, Len(sent)))
        /\ \A k \in Key : seen[k] <= ClientPresses(k)
        /\ overtaken \in BOOLEAN
    BY DEF InputInv, TypeOK, OrderedInv, NoPhantomPress, ClientPresses, Edges
  <2>1. ASSUME ClientSends PROVE OrderedInv'
    <3>1. PICK mask \in SUBSET Key : sent' = Append(sent, mask)
      BY <2>1 DEF ClientSends
    <3>2. UNCHANGED << lastMask, pending, frame, phase, newest, overtaken, seen >>
      BY <2>1 DEF ClientSends
    <3>3. PICK n \in Nat : n = Len(sent)
      BY <2>0
    <3>4. Len(sent') = n + 1 /\ \A j \in 1..n : sent'[j] = sent[j]
      BY <3>1, <3>3 DEF InputInv, TypeOK
    <3>5. ASSUME NEW k, NEW m \in 0..n PROVE Edges(sent', k, m) = Edges(sent, k, m)
      <4>1. \A j \in 1..m : sent'[j] = sent[j] /\ (j = 1 \/ sent'[j - 1] = sent[j - 1])
        BY <3>4, <3>5
      <4>2. QED BY <4>1 DEF Edges
    <3>6. newest' \in 0..Len(sent')
      BY <3>2, <3>3, <3>4, <2>0
    <3>7. ~overtaken' =>
            /\ lastMask' = IF newest' = 0 THEN {} ELSE sent'[newest']
            /\ \A k \in Key : (seen[k] + Unseen(k) + Coming(k) <= Cardinality(Edges(sent, k, newest)))'
      <4>1. PICK m \in 0..n : m = newest
        BY <2>0, <3>3
      <4>2. \A k \in Key : Edges(sent', k, newest') = Edges(sent, k, newest)
        BY <4>1, <3>2, <3>5
      <4>3. QED BY <3>2, <3>4, <4>1, <4>2 DEF OrderedInv
    <3>8. \A k \in Key : seen'[k] <= ClientPresses(k)'
      <4>1. \A k \in Key : ClientPresses(k)' = Cardinality(Edges(sent', k, n + 1))
        BY <3>4 DEF ClientPresses, Edges
      <4>2. \A k \in Key : /\ Cardinality(Edges(sent', k, n)) <= Cardinality(Edges(sent', k, n + 1))
                           /\ Cardinality(Edges(sent', k, n + 1)) \in Nat
        BY <1>1
      <4>3. \A k \in Key : Edges(sent', k, n) = Edges(sent, k, n)
        BY <3>5
      <4>4. \A k \in Key : seen[k] <= Cardinality(Edges(sent, k, n)) /\ seen[k] \in Nat
        BY <3>3, <2>0
      <4>5. \A k \in Key : Cardinality(Edges(sent', k, n)) \in Nat
        BY <1>1
      <4>6. QED BY <4>1, <4>2, <4>3, <4>4, <4>5, <3>2
    <3>9. QED BY <3>6, <3>7, <3>8 DEF OrderedInv, NoPhantomPress
  <2>2. ASSUME NEW i \in 1..Len(sent), Deliver(i) PROVE OrderedInv'
    <3>1. /\ lastMask' = sent[i] /\ sent[i] \subseteq Key
          /\ pending' = pending \cup (sent[i] \ lastMask)
          /\ newest' = (IF i > newest THEN i ELSE newest)
          /\ overtaken' = (overtaken \/ i < newest)
          /\ UNCHANGED << sent, frame, phase, seen >>
      <4>1. sent[i] \in SUBSET Key
        BY <2>2 DEF InputInv, TypeOK
      <4>2. DownEdge(sent[i], lastMask) = sent[i] \ lastMask
        BY <4>1 DEF DownEdge, Word
      <4>3. QED BY <2>2, <4>1, <4>2 DEF Deliver, HandleInputCommand, Collect
    <3>2. newest' \in 0..Len(sent') /\ NoPhantomPress'
      BY <2>0, <2>2, <3>1 DEF OrderedInv, NoPhantomPress, ClientPresses
    <3>3. ASSUME ~overtaken'
          PROVE  /\ lastMask' = IF newest' = 0 THEN {} ELSE sent'[newest']
                 /\ \A k \in Key : (seen[k] + Unseen(k) + Coming(k)
                                      <= Cardinality(Edges(sent, k, newest)))'
      <4>1. /\ ~overtaken /\ newest' = i /\ newest <= i /\ i \in Nat
            /\ newest \in Nat /\ i # 0
        <5>1. ~overtaken /\ ~(i < newest)
          BY <3>1, <3>3, Zenon
        <5>2. i \in Nat /\ newest \in Nat /\ i # 0
          BY <2>0, <2>2
        <5>3. QED BY <5>1, <5>2, <3>1
      <4>2. lastMask = IF newest = 0 THEN {} ELSE sent[newest]
        BY <4>1 DEF OrderedInv
      <4>3. ASSUME NEW k \in Key
            PROVE  (seen[k] + Unseen(k) + Coming(k) <= Cardinality(Edges(sent, k, newest)))'
        <5>1. /\ seen[k] + Unseen(k) + Coming(k) <= Cardinality(Edges(sent, k, newest))
              /\ seen[k] \in Nat
          BY <4>1, <2>0 DEF OrderedInv
        <5>2. /\ Cardinality(Edges(sent, k, newest)) \in Nat
              /\ Cardinality(Edges(sent, k, i)) \in Nat
              /\ Cardinality(Edges(sent, k, newest)) <= Cardinality(Edges(sent, k, i))
              /\ newest < i /\ k \in sent[i] /\ (newest = 0 \/ k \notin sent[newest]) =>
                   Cardinality(Edges(sent, k, newest)) + 1 <= Cardinality(Edges(sent, k, i))
          BY <4>1, <1>1
        <5>3. Coming(k)' = Coming(k) /\ seen'[k] = seen[k] /\ sent' = sent
          BY <3>1
        <5>4. CASE k \in sent[i] \ lastMask /\ k \notin pending
          <6>1. newest < i /\ (newest = 0 \/ k \notin sent[newest])
            BY <5>4, <4>1, <4>2
          <6>2. Unseen(k) = 0 /\ Unseen(k)' = 1
            BY <5>4, <3>1
          <6>3. QED BY <5>1, <5>2, <5>3, <5>4, <6>1, <6>2, <4>1
        <5>5. CASE ~(k \in sent[i] \ lastMask /\ k \notin pending)
          <6>1. Unseen(k)' = Unseen(k)
            BY <5>5, <3>1
          <6>2. QED BY <5>1, <5>2, <5>3, <6>1, <4>1
        <5>6. QED BY <5>4, <5>5
      <4>4. QED BY <4>1, <4>3, <3>1
    <3>4. QED BY <3>2, <3>3 DEF OrderedInv
  <2>3. CASE BuildFrame
    <3>1. /\ phase = "poll" /\ phase' = "movement" /\ pending' = {} /\ frame'.thisTick = pending
          /\ UNCHANGED << sent, lastMask, newest, overtaken, seen >>
      BY <2>3 DEF BuildFrame, InputInv, TypeOK
    <3>2. \A k \in Key : Unseen(k)' = 0 /\ Coming(k) = 0 /\ Coming(k)' = Unseen(k)
      BY <3>1
    <3>3. \A k \in Key : (seen[k] + Unseen(k) + Coming(k))' = seen[k] + Unseen(k) + Coming(k)
      BY <3>1, <3>2, <2>0
    <3>4. QED BY <3>1, <3>3 DEF OrderedInv, NoPhantomPress, ClientPresses
  <2>4. CASE EnterGameplay
    <3>1. /\ phase = "movement" /\ phase' = "gameplay"
          /\ frame'.thisTick = frame.thisTick /\ frame'.prev = frame'.down
          /\ UNCHANGED << sent, lastMask, pending, newest, overtaken >>
      BY <2>4 DEF EnterGameplay, InputInv, TypeOK
    <3>2. ASSUME NEW k \in Key
          PROVE  /\ seen'[k] = IF ~overtaken /\ k \in frame.thisTick THEN seen[k] + 1 ELSE seen[k]
                 /\ Unseen(k)' = Unseen(k) /\ Coming(k)' = 0
      BY <2>4, <3>1 DEF EnterGameplay, GetKeyDown
    <3>3. ~overtaken => \A k \in Key : (seen[k] + Unseen(k) + Coming(k))' = seen[k] + Unseen(k) + Coming(k)
      BY <3>1, <3>2, <2>0
    <3>4. \A k \in Key : seen'[k] <= ClientPresses(k)
      <4>1. CASE overtaken
        BY <4>1, <3>2, <2>0
      <4>2. CASE ~overtaken
        <5>1. \A k \in Key : /\ Cardinality(Edges(sent, k, newest)) <= ClientPresses(k)
                             /\ ClientPresses(k) \in Nat /\ Cardinality(Edges(sent, k, newest)) \in Nat
          BY <2>0, <1>1
        <5>2. \A k \in Key : seen'[k] <= Cardinality(Edges(sent, k, newest))
          BY <4>2, <3>1, <3>2, <2>0, <5>1 DEF OrderedInv
        <5>3. \A k \in Key : seen'[k] \in Nat
          BY <3>2, <2>0
        <5>4. QED BY <5>1, <5>2, <5>3
      <4>3. QED BY <4>1, <4>2
    <3>5. QED BY <3>1, <3>3, <3>4 DEF OrderedInv, NoPhantomPress, ClientPresses
  <2>5. CASE TickReturns
    <3>1. /\ phase = "gameplay" /\ phase' = "poll"
          /\ UNCHANGED << sent, lastMask, pending, frame, newest, overtaken, seen >>
      BY <2>5 DEF TickReturns
    <3>2. \A k \in Key : Unseen(k)' = Unseen(k) /\ Coming(k)' = Coming(k)
      BY <3>1
    <3>3. QED BY <3>1, <3>2 DEF OrderedInv, NoPhantomPress, ClientPresses
  <2>6. CASE UNCHANGED vars
    BY <2>6 DEF vars, OrderedInv, NoPhantomPress, ClientPresses
  <2>7. QED BY <2>1, <2>2, <2>3, <2>4, <2>5, <2>6 DEF Next
<1>4. OrderedInv => NoPhantomPress
  BY DEF OrderedInv
<1>5. QED BY <1>2, <1>3, <1>4, InputInvariant, PTL DEF Spec
=============================================================================
