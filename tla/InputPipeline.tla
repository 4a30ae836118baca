--------------------------- MODULE InputPipeline ----------------------------
(***************************************************************************)
(* From the client's button samples to the frame a tick's gameplay reads:  *)
(* InputCommand packets over UDP (lost, repeated, overtaken),              *)
(* GameServer::handleInputCommand, and the frame GameServer::Tick builds.  *)
(* One ClientInfo, from its join on.  The axes are not modelled: they are  *)
(* copied beside the button mask.                                          *)
(*                                                                         *)
(* A button mask is the set of its bits.  Packets are handled by io.poll() *)
(* between two ticks, never inside one.  A Tick with dt <= 0 returns at    *)
(* once: it is a stuttering step.                                          *)
(***************************************************************************)
EXTENDS Integers, Sequences, FiniteSets

CONSTANTS
  Key,          \* buttons the client has
  SpareBit,     \* stands for the bits of the word no button uses
  MaxPackets,   \* bound: samples the client sends
  MaxBurst      \* bound: packets handled between two ticks

ASSUME KeyAssumption == SpareBit \notin Key
ASSUME BoundAssumption == MaxPackets \in Nat /\ MaxBurst \in Nat

Word == Key \cup {SpareBit}

VARIABLES
  sent,       \* buttonMask of every packet the client has sent, in order
  lastMask,   \* ClientInfo::lastInput.buttonMask
  pending,    \* ClientInfo::pendingButtons
  frame,      \* ClientInfo::inputFrame: thisTick, down, prev
  phase,      \* "poll", or in Tick: "movement" (line 92), "gameplay" (line 119)
  log,        \* ghost: lastMask at the last tick, then each mask handled since
  heard,      \* ghost: the log the current tick's frame was built from
  lastDown,   \* ghost: the buttons held in the previous tick's frame
  newest,     \* ghost: index of the latest sample that has arrived
  overtaken,  \* ghost: a packet has arrived after a later one
  seen        \* ghost: key -> ticks that saw it pressed, while not overtaken

vars == << sent, lastMask, pending, frame, phase, log, heard, lastDown, newest,
           overtaken, seen >>

NoButtons == [thisTick |-> {}, down |-> {}, prev |-> {}]

\* GetKeyDown: the aggregated edges, or the difference of the two held states.
GetKeyDown(f, k) == k \in f.thisTick \/ (k \in f.down /\ k \notin f.prev)
KeysDown(f) == {k \in Word : GetKeyDown(f, k)}

-----------------------------------------------------------------------------
\* handleJoinRequest: a fresh ClientInfo.
Init ==
  /\ sent = << >>
  /\ lastMask = {} /\ pending = {} /\ frame = NoButtons /\ phase = "poll"
  /\ log = << {} >> /\ heard = << {} >> /\ lastDown = {}
  /\ newest = 0 /\ overtaken = FALSE /\ seen = [k \in Key |-> 0]

\* The client samples its buttons and sends them; the datagram is on its way.
ClientSends ==
  /\ Len(sent) < MaxPackets
  /\ \E mask \in SUBSET Key : sent' = Append(sent, mask)
  /\ UNCHANGED << lastMask, pending, frame, phase, log, heard, lastDown, newest,
                  overtaken, seen >>

\* Bug: every bit that was up counts too, or every bit that is down.
DownEdge_Or(mask, prev)  == mask \cup (Word \ prev)
DownEdge_All(mask, prev) == mask

\* cmd.buttonMask & ~prevPacketDown
DownEdge(mask, prev) == mask \cap (Word \ prev)

\* Bug: the newest packet's edges replace those collected so far.
Collect_Replace(edges) == edges
Collect(edges) == pending \cup edges

\* Bug: lastInput is overwritten before the edge is taken from it.
HandleInputCommand_Overwrite(mask) ==
  /\ lastMask' = mask
  /\ pending' = Collect(DownEdge(mask, lastMask'))

\* The packet overwrites the state in order of arrival: neither header.seq nor
\* InputCommand::seq is looked at.
HandleInputCommand(mask) ==
  /\ pending' = Collect(DownEdge(mask, lastMask))
  /\ lastMask' = mask

\* A datagram arrives: any one sent so far, again, late or never.
Deliver(i) ==
  /\ phase = "poll" /\ Len(log) <= MaxBurst
  /\ HandleInputCommand(sent[i])
  /\ log' = Append(log, sent[i])
  /\ newest' = IF i > newest THEN i ELSE newest
  /\ overtaken' = (overtaken \/ i < newest)
  /\ UNCHANGED << sent, frame, phase, heard, lastDown, seen >>

\* Tick, up to TickMovement: the pending edges become the frame's.
BuildFrame ==
  /\ phase = "poll"
  /\ frame' = [frame EXCEPT !.thisTick = pending, !.down = lastMask]
  /\ pending' = {}
  /\ phase' = "movement"
  /\ heard' = log /\ log' = << lastMask >>
  /\ lastDown' = frame.down
  /\ UNCHANGED << sent, lastMask, newest, overtaken, seen >>

\* Between MovePlayer and TickGameplay.
EnterGameplay ==
  /\ phase = "movement"
  /\ frame' = [frame EXCEPT !.prev = frame.down]
  /\ phase' = "gameplay"
  /\ seen' = [k \in Key |-> IF ~overtaken /\ GetKeyDown(frame', k)
                            THEN seen[k] + 1 ELSE seen[k]]
  /\ UNCHANGED << sent, lastMask, pending, log, heard, lastDown, newest, overtaken >>

TickReturns ==
  /\ phase = "gameplay"
  /\ phase' = "poll"
  /\ UNCHANGED << sent, lastMask, pending, frame, log, heard, lastDown, newest,
                  overtaken, seen >>

Next ==
  \/ ClientSends
  \/ \E i \in 1..Len(sent) : Deliver(i)
  \/ BuildFrame \/ EnterGameplay \/ TickReturns

Spec == Init /\ [][Next]_vars

-----------------------------------------------------------------------------
(* Properties.                                                              *)

\* Types; no word ever carries a bit the client has no button for.
TypeOK ==
  /\ sent \in Seq(SUBSET Key)
  /\ lastMask \subseteq Key /\ pending \subseteq Key
  /\ frame \in [thisTick : SUBSET Key, down : SUBSET Key, prev : SUBSET Key]
  /\ phase \in {"poll", "movement", "gameplay"}
  /\ log \in Seq(SUBSET Key) /\ heard \in Seq(SUBSET Key) /\ lastDown \subseteq Key
  /\ newest \in Nat /\ overtaken \in BOOLEAN /\ seen \in [Key -> Nat]

\* The movement half of a tick (jump) and its gameplay half (dash, melee,
\* reload) read the same presses, although prevButtonsDown is overwritten
\* between the two: the state difference of GetKeyDown never adds a key that
\* the collected edges do not already have.
EdgesCover == phase = "movement" => KeysDown(frame) = frame.thisTick
GameplayPressed == phase = "gameplay" => KeysDown(frame) = frame.thisTick
ViewsAgree == EdgesCover /\ GameplayPressed

\* A tick sees a key pressed exactly when, among the masks handled since the
\* tick before, some mask had it that the mask before had not: no tap between
\* two ticks is lost, none is seen by two ticks, and a key held through many
\* packets is pressed once.
PressedIn(l, k) == \E j \in 1..(Len(l) - 1) : k \notin l[j] /\ k \in l[j + 1]
PressesAreLogEdges ==
  phase \in {"movement", "gameplay"} =>
    frame.thisTick = {k \in Key : PressedIn(heard, k)}

\* As long as no packet arrives after a later one, lost packets and repeats of
\* the latest never turn into presses the player did not make: the ticks that
\* saw a key pressed are no more than the times the client's samples went from
\* up to down.
ClientPresses(k) ==
  Cardinality({j \in 1..Len(sent) : k \in sent[j] /\ (j = 1 \/ k \notin sent[j - 1])})
NoPhantomPress == \A k \in Key : seen[k] <= ClientPresses(k)

\* What the comment on ServerInputFrame says of prevButtonsDown: in gameplay,
\* too, it is what was held in the tick before.
PrevIsLastTick == phase \in {"movement", "gameplay"} => frame.prev = lastDown
=============================================================================
