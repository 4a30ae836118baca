# AFps server: a TLA+ development

Models, model-checking runs and machine-checked proofs for the authoritative
game server of this repository (`src/src/main.cpp`, `src/src/net`,
`src/src/server`; paths below are relative to `src/src`). Every definition is
read off the source; `PROJECT.json` names the lines each one stands for.

    tlc -config MCSessions.cfg MCSessions      # model-check one run
    tlapm SessionsProofs.tla                   # check one module's proofs

## 1. The system

One thread runs everything (`main.cpp:20-37`): a round is `io.poll()`, which
runs the socket handlers that are ready, then `GameServer::Tick(dt)`, then
`CollectOutgoing` and `sendPackets`. So the hard behaviour is not threads: it
is handlers in any order between two ticks, datagrams lost, repeated and
overtaken, callbacks that change a table while a loop walks it, two timers that
count the same thing, values copied before what they describe changes, and ticks
of any length.

| Component (source) | State | Operations | Talks to |
|---|---|---|---|
| main loop (`main.cpp`) | clock of the last round | poll, Tick, flush | all |
| NetTransport (`net/`) | `_connections`, `_udpEndpoints`, `_endpointToConn`, `_nextConnId` | accept, TCP read, UDP receive and bind, sendPackets | calls `GameServer::OnMessage`, `OnConnectionClosed` |
| GameServer sessions (`server/GameServer.cpp`) | `_clients`, `_nextPlayerId`, `_outgoing` | join, ping, close, broadcast | registers capsules, owns heroes |
| Input (`GameServer.cpp`, `utils/Utils.h`) | `lastInput`, `pendingButtons`, `inputFrame` per client | handleInputCommand, building a tick's frame | read by movement and by gameplay |
| Snapshots, clock (`GameServer.cpp`) | `_serverTime`, `_serverTick`, `_snapshotTimer` | catch-up loop of Tick | packets to every client |
| HeroEntity (`gameplay/hero`) | weapon, abilities, aim | TickGameplay | asks for dashes, emits events and shots |
| Arbiter (`gameplay/ability`) | `_actives`, `_resourceOwner`, `_claimedMask` | Tick, register, unregister, acquire and release at run time | calls bodies, is called back by them |
| Abilities and tasks (`ability/abilities`, `ability/task`) | sequence index, waits, scopes | WantsStart, CanStart, Start, Tick, Cancel | weapon, arbiter, events |
| WeaponSystem (`gameplay/weapon`) | magazine, cooldown, reload timer, pending shots | Tick, TryFire, StartReload, FinishReload, CancelReload | HeroEntity, Fire, Melee, Reload |
| ProjectileSystem (`gameplay/projectile`) | shots in flight, events, ids | Spawn, FireHitscan, Tick, CollectEvents | raycasts of PhysicsWorld, broadcasts |
| KCC (`server/kcc`) | a capsule; position and ground of the player | MovePlayer | static world |
| PhysicsWorld and queries (`server/collision`) | actor capsules, static boxes | register, update, raycast | sessions, projectiles, KCC |
| Movement sources, CharacterMotor, HeroCore (`gameplay/movement`, `hero/HeroCore`) | list of sources, velocity, yaw | BuildCommand, Step | gives KCC its displacement |
| Protocol (`protocol/`) | none | ByteWriter, ByteReader, an encoder or decoder per message | transport, sessions |

What makes each correct: *sessions*: every client has one id and one capsule,
is told its id, and a close takes away exactly its own; *input*: a press is seen
by one tick, whole, whatever the network does; *arbiter*: no two running
abilities claim a resource, nobody is preempted but by something stronger, every
tick ends; *weapon and abilities*: one weapon operation at a time, reloads
neither get stuck nor refill late, a strike is a strike; *projectiles*: one
movement a tick, one end, no tunnelling; *KCC*: never in a box, always able to
leave what it touches, ground where there is ground; *movement*: a dash takes
its time and its way, a jump is one jump, the hero looks where the client says and
comes down; *protocol*: a message is found whole or not at all; *snapshots*: as
many as there were intervals.

## 2. Modules

| Module | Models | Composes | Runs and proofs |
|---|---|---|---|
| `AbilityArbiter` | the arbiter, for any table of abilities | | `MCAbilityArbiter`, `AbilityArbiterProofs`, `AbilityArbiterStepProofs` |
| `Weapon` | WeaponSystem, as operators on the hero's variables | | through `HeroGameplay` |
| `HeroGameplay` | HeroEntity::TickGameplay, the four abilities and their tasks | `AbilityArbiter`, `Weapon` | `MCHeroGameplay`, `HeroGameplayProofs` |
| `WeaponSlot` | abstract: what the weapon operation promises | refined by `HeroGameplay` | property `ImplementsSlot`, theorem `SlotImplemented` |
| `InputPipeline` | client samples, UDP, handleInputCommand, the frame | | `MCInputPipeline`, `InputPipelineProofs` |
| `Sessions` | transport, sessions, capsules, outgoing queue, main loop | | `MCSessions`, `SessionsProofs` |
| `Wire` | ByteWriter, ByteReader, message layouts, finding messages in a stream and in a datagram | | through `SessionsOnWire` |
| `SessionsOnWire` | what sessions take for granted of the bytes | `Sessions`, `Wire` | `MCSessions` |
| `Movement` | movement sources, BuildCommand, CharacterMotor, MovePlayer between floor and ceiling | | `MCMovement`, `MovementProofs` |
| `Projectiles` | the end of GameServer::Tick: shots, flight, events, snapshots | | `MCProjectiles`, `ProjectilesProofs` |
| `KCC` | MovePlayer | | `MCKCC`, `KCCProofs` |

### AbilityArbiter

A call of `Arbiter::Tick` runs from phase "idle" back to "idle". Stage 1 walks
`_actives` with the index `cursor`: `TickNext` picks the entry, then its body
runs, in which a `ScopedResource` task may call back (`AcquireFree`,
`AcquireByPreempting`, `ReleaseScope`), and `FinishBody` drops the ability or
goes on. Removal is the swap-pop of `unregisterAbility` (`SwapPop`, `Unregister`).
Stage 2 takes the best of the candidates (`TryCandidate`), cancels its conflicts one
by one (`CancelConflict`), starts it (`StartCandidate`), and scans again. What a
body does besides is any choice here, and is fixed by HeroGameplay. The table of
abilities is four constants; a scope's bits are not claimed for life by the
same ability (`ScopeAssumption`), as in DashAbility, the one user of scopes.

### HeroGameplay, Weapon, WeaponSlot

The arbiter is instanced with the hero's table (`A == INSTANCE AbilityArbiter`),
so an action is an arbiter step joined with what the ability does in it:
`FireBody`, `MeleeBody`, `ReloadBody` and the three steps of a dash. BeginTick
runs `WeaponSystem::Tick` and takes the snapshot of the weapon (`snap`) that the
abilities go on reading for the rest of the tick. Durations are whole units; a wait
overshoots by whatever the tick's length says. `Weapon` has one operator per
operation of WeaponSystem. Aiming is geometry and left out.

`WeaponSlot` is the promise: one of firing, melee and reloading at a time,
rounds spent only while firing, the magazine filled only by a reload begun and
not abandoned, and only melee takes the slot from another. `HeroGameplay`
implements it under a refinement mapping in which a candidate has the slot from the
moment the arbiter has cleared it; checked as a PROPERTY.

### InputPipeline

A mask is the set of its bits, plus `SpareBit` for those no button uses.
`Deliver(i)` handles any packet ever sent, so loss, repetition and reordering
are all there; `BuildFrame`, `EnterGameplay` and `TickReturns` are the three
points of Tick between which `prevButtonsDown` changes. Axes are copied beside
the mask and left out.

### Sessions

The phases "poll", "tick" and "flush" are the main loop. In "poll" handlers run
in any order: accept, accept error, TCP message, read error, UDP bind, UDP
message. A message is what its handler does: JoinRequest, Ping, or one that
changes nothing here (undecodable, unknown, InputCommand). `Flush` is
`CollectOutgoing` with `sendPackets` and its checks for a missing socket or
endpoint. A send error, which only logs, changes nothing.

### Wire, SessionsOnWire

`Wire` has no state. A payload is a sequence of bytes, a layout the widths of a
message's fields; `Encode` and `Decode` put words together and apart, little
endian, cut to their width, and `Decode` fails at the first field that does not
fit, as ByteReader does. `Handled` is the header-body-header cycle of
`startTcpRead`: the messages that get to `OnMessage` from the bytes that have arrived.
`Received` is the same for one datagram, read into a buffer of `UdpBuffer` bytes.
Floats are the words their bits make. `SessionsOnWire` joins it with the
connections, endpoints and packets of `Sessions`.

### Movement

The phases of one hero's tick: "build" visits the sources from the last to the
first, one action per visit (`RemoveEnded`, `UpdateDash`, `EndDash`, `UpdateInput`),
"motor" is `CharacterMotor::Step` with its early return for a forced
displacement (`MotorForced`, `MotorFree`), "collide" is `MovePlayer`, "gameplay" may
ask for a dash, which stands last in the sources from the next tick on. Sideways
is one axis, without walls; upwards there are a floor and a ceiling, since what
matters is how the motor, which is told only whether the hero is grounded, gets on
with a controller that drops tiny displacements and snaps to the ground.

### Projectiles

Distances and times are whole units along each shot's ray. The static wall on the
ray is settled at the shot; the stretch an actor covers is any of `Actors` at each
query, since actors move. FlyNext is one turn of the loop in
`ProjectileSystem::Tick` with its swap-pop. An `Expired` event is never
broadcast, as in the code. The default weapon fires hitscans; "Linear" is the
other `ProjectileKind` the server handles, and both are in the run.

### KCC

The vertical plane of one player's moves, in whole units, with boxes along the
axes. A displacement is one of eight directions and a number of steps, so every
time of impact is a whole number of steps and the arithmetic exact: what is left
out is the rounding of floats, rotated boxes and slopes between the two extremes.
One action per turn of MoveCapsule's loops; the sweep keeps the code's choices
(first of equal hits, axis entered last, x before y, nearest face at t = 0, contact
that blocks only inward moves). The broad phase only filters boxes that cannot
be hit. `ResolveInitialPenetration` is not modelled: `NotInside` shows that it
never finds anything to resolve. The centimetre epsilons are constants of
their own (`StepUpEps`, `StepForwardEps`, `StepDownExtra`, `MinSlide`).

## 3. Runs

| Run | Expect | Asks | Distinct states |
|---|---|---|---|
| `arbiter` | pass | tables, exclusion and preemption, with scopes | 32,740 |
| `arbiter_skip` | violation | is every running ability ticked? | stops at the trace |
| `hero` | pass | one weapon operation at a time, two timers, liveness | 48,234 |
| `input` | pass | is a press seen once, by both halves? | 330,370 |
| `prev_buttons` | violation | is `prevButtonsDown` the previous tick's? | stops at the trace |
| `sessions` | pass | ids, capsules, answers, messages in bytes | 241,542 |
| `ghost_actor` | violation | are capsules those of clients? | stops at the trace |
| `zombie_client` | violation | are clients connected? | stops at the trace |
| `projectiles` | pass | one movement, one end, no tunnelling, snapshot pace | 554,904 |
| `kcc` | pass | not inside, free to leave, real ground | 223,030 |
| `movement` | pass | dashes, jumps, looking, coming down | 617,308 |
| `skin` | violation | is a skin's width kept from faces? | stops at the trace |

**arbiter** (`MCAbilityArbiter`). Five abilities on three bits, the smallest table
we found in which each rule works against another: one takes a bit from an owner
and loses another to a third, one preempts two owners at once, and two scopes take
a bit from an ability that claims it for life and from each other.
`ResourceExclusive`, `TablesAgree` (= `LedgerSound`, `ActivesExact`, `HeldIsOwned`):
the tables are right between any two callbacks. `TickedOnce`: the swap-pop ticks nobody twice.
`PreemptedStaysDown`: no cancel-and-restart within a tick. `OnlyOutrankedStop`:
nobody stops but by its own end or something stronger on a bit it owns.
`TickTerminates`: both loops end.

**hero**. A magazine of two rounds, ticks of one and three units, shorter and
longer than the waits of a melee (1, 2) and of a reload (2, 1), the weapon's own
reload timer (3) later than the ability's (2), as 1.5 s and 0.6 s are. Keys are
any set in every tick. `ReloadInStep`: the weapon reloads exactly while the ability
does, though each counts by itself. `ImplementsSlot`: the refinement.
`PressesAnswered`, `MeleeStrikesOnce`, `ShotSpacing`: no
press is refused, no strike skipped or doubled, the interval survives melees and
reloads. `EmptyMagazineRefilled`: the reload starts by itself and, unless melees
keep coming, ends. `ArbiterNeverSkips`: what the arbiter promises only
without run-time preemption (`AllActivesTicked`, `LeftScopesFree`) holds always for
this table.

**input**. Two buttons, three samples, three packets between two ticks: a press,
its release and the next press, lost, repeated or overtaken, within one tick and
across several. `ViewsAgree`: jump (movement) and dash, melee, reload (gameplay)
see the same presses although `prevButtonsDown` changes between.
`PressesAreLogEdges`: none is lost, none seen twice. `NoPhantomPress`: until a packet
is overtaken, no more presses than the player made. (An overtaken packet can
make one: `InputCommand` has a sequence number nobody looks at.)

**sessions**. Two connections, two endpoints, three joins: join twice, leave in
between, join over UDP after the close, share an endpoint. `ActorsInStep`
(= `OwnActor`, `StrayOnlyFromRejoin`): ids and capsules. `KnowsItsId`, `IdBeforeSnapshots`,
`JoinAnswered`: a client is told the id it has now, before its first
snapshot, in the end. The bytes are checked in the same run, for
every connection read, endpoint bound and packet queued: `InboundWhole` cuts every
stream of up to three messages (no payload, a length below the header's, a name that
looks like a header) at every byte, and every datagram likewise or with bytes too
many; `OutboundReadable` reads back what the server queues. These formulas are
constant, so TLC works them out once. A byte has 16 values there, so that the 16 bits
of a header's length overflow with a fifth player (with 256 values, at the 1260th): up
to that snapshots are readable, from there on they are not.

**projectiles**. Three shots, at most two in a tick; ticks of 1 and 3 units
against an interval of 2 and a life of 2; speeds 0 and 2 over a range of 4;
walls around the muzzle, in mid-step or exactly at its end, and out of range;
actors on either side; a tick counter that wraps at 2. `ShotsCounted` (=
`MovedOnce`, `EndsOnce`), `WallStops`, `SnapshotPace`.

**kcc**. Three rooms: floor in two boxes with a step that can be climbed, walls and
a ceiling low enough to cut a step up short; a ledge with a lower floor and a
block that is not walkable; and two stairs that one long move climbs. Nine
displacements: short and long (the long one is split), oblique, up, down; from any
state they lead to. `NotInside`: no part of the capsule (not only the three spheres that are swept) is inside a box, at any
moment. `NeverStuck`: the slide loop never runs out (`IterationsSuffice`) and, what
`notes.md` is about, touching a face never holds a move away from it or along it
(`LeavesContact`). `NoOvershoot`: the parts of a move add up to no more than was wanted,
and one that does not go up climbs no more than a step in each; made in one part, it
ends no higher than it began except on a walkable top. `GroundIsReal`: grounded means a
walkable top under the feet; the exception, for one move, is an oblique fall that has
slid past the edge of ground it touched, which then lies on its wanted line.

**movement**. Ticks of one and two units against a dash of three, so a tick's end
cuts it; two dashes at once, asked for at any time; a jump of three under gravity
of one, so that a displacement at the apex is short enough to be dropped; a snap
that reaches further than the first tick of a jump; a ceiling met by jumps in long
ticks; aims outside the circle on both sides. `DashRunsItsTime`: a dash moves the hero
for exactly its time, unless an older one was running, and never longer.
`JumpAnswered`: a press on the ground is one jump, at once; one in the air or in a
dash is spent and never comes out later; the ground is not given back to a hero that
rises. `LookFollowsAim`: the differences add up to what the client sends.
`MovementSettles`: the hero comes down, and dashes end. `TypeOK` bounds the
speeds: nothing adds up beyond the base speed, one jump, and the terminal speed by one
tick.

### What the violations show

* `arbiter_skip`: the comment on stage 1 says every active ability is ticked. If
  a body's scope preempts an ability that stands before it, the last entry moves to a
  place the index has passed. Latent: the hero's table never gets there
  (`AllActivesTicked` in run `hero`).
* `prev_buttons`: `prevButtonsDown` is documented as the previous tick's, but is
  overwritten before gameplay reads it. Presses are not affected (`ViewsAgree`);
  `GetKeyUp` in gameplay could never be true.
* `ghost_actor`: a second JoinRequest on a connection registers a second capsule
  and never removes the first, which stays where it was.
* `zombie_client`: a JoinRequest over the UDP route of a closed connection makes a
  client nobody can reach and nobody removes.
* `skin`: `KCC.h` calls `skinWidth` the distance kept from a face; spheres of
  the radius less the skin are swept all the way to contact, so the capsule
  goes into the face by the skin instead.

Also seen in `kcc`, with no text that promises otherwise: a player that slides
past a ledge in an oblique fall is reported grounded for one move, and may be
snapped by the longer distance in the next; the last sweep of `TryStepUp` uses the
ground's snap distance in the air too. And in `movement`: of two overlapping dashes
the older one drives and the younger one's time runs out meanwhile; a ceiling does
not stop the velocity, so the hero hangs under it until gravity has used it up.

### Bounds

Each is a constant of its MC configuration, named in the module: `MaxPackets`,
`MaxBurst`, `MaxConns`, `MaxPlayers`, `MaxQueue`, `MaxSpawns`, `MaxIds`,
`MaxDashes`. Two dashes overlap in every way that matters, as a third only repeats
what the second meets. Clocks and
counters that would grow are capped by what can still be told apart
(`sinceShot` at the interval, `elapsed` modulo what `serverTick` counts).
Runs in which the player or the network may stop for good still have the main
loop's steps, so deadlock is checked everywhere.

### Fairness

* arbiter: `WF(TickStep)`. `Arbiter::Tick` is a plain call that returns; nothing
  makes a next tick begin, and scope calls of a body are owed by nobody.
* hero: `WF(BeginTick)`, `WF(TickStep)`. The main loop calls Tick for ever and each
  call returns. Which keys a tick finds is never subject to fairness.
* sessions: `WF(PollReturns)`, `WF(Tick)`, `WF(Flush)`. `io.poll()` returns once
  the ready handlers have run; no client or network step is fair.
* movement: `WF(Next)`. The loop calls Tick for ever with a length above zero, since it
  sleeps a millisecond in every round, and Tick returns. Input and dashes are free.
* input, projectiles and kcc have safety properties only.

## 4. Proofs

All for every value of the constants: any table of abilities, any number of
connections, endpoints and joins, any speeds, durations, worlds and lengths of a
tick, within the named assumptions of the modules.

| Theorem | Says | Inductive invariant |
|---|---|---|
| `TypeInvariant` | `TypeOK` (arbiter) | `TypeInv` |
| `LedgerInvariant`, `Exclusive` | the ledger is sound and scopes own what they hold; no shared claims | `LedgerInv` |
| `ActivesInvariant`, `TablesAlwaysAgree` | `ActivesExact`, `TablesAgree` | `ActivesInv` |
| `NobodyTickedTwice` | `TickedOnce` | `TickInv` = LedgerInv, ActivesInv, `WalkInv` |
| `PreemptedNotRestarted`, `StopsAreOutranked` | `PreemptedStaysDown`, `OnlyOutrankedStop` | `PreemptionInv` = LedgerInv, `PreemptInv` |
| `HeroRunsArbiter` | a hero's tick implements the arbiter | none |
| `NeverSkips` | `ArbiterNeverSkips` | `TickInv` of the hero |
| `HeroTyped`, `ReloadsInStep` | `TypeOK`, `ReloadInStep` (hero) | `HeroInv` |
| `EachPressAnswered`, `EachMeleeStrikes`, `ShotsSpaced` | `PressesAnswered`, `MeleeStrikesOnce`, `ShotSpacing` | `HeroInv` |
| `SlotImplemented` | `ImplementsSlot`: the hero implements `WeaponSlot` | `HeroInv` |
| `InputInvariant`, `BothHalvesAgree`, `NoPressLost` | `TypeOK`, `ViewsAgree`, `PressesAreLogEdges` | `InputInv` |
| `NoPressInvented` | `NoPhantomPress` | InputInv, `OrderedInv` |
| `PlayersKeepActors` | `ActorsInStep` = `OwnActor`, `StrayOnlyFromRejoin` | `SessionInv` |
| `KnowsInvariant`, `ClientsKnowTheirId`, `IdComesFirst` | `TypeOK`, `KnowsItsId`, `IdBeforeSnapshots` | `KnowsInv` |
| `MoveInvariant`, `JumpsAnswered`, `LooksWhereAimed` | `TypeOK`, `JumpAnswered`, `LookFollowsAim` | `MoveInv` |
| `DashesRunTheirTime` | `DashRunsItsTime` | MoveInv, `DashInv` |
| `ShotInvariant`, `WallsStopShots` | `TypeOK`, `WallStops` | `ShotInv` |
| `EachShotCounted` | `ShotsCounted` | ShotInv, `CountInv` |
| `SnapshotsKeepPace` | `SnapshotPace` | ShotInv, `PaceInv` |
| `KCCInvariant`, `StaysOutside` | `TypeOK`, `NotInside` | `KCCInv` |
| `NeverOvershoots`, `GroundKept` | `NoOvershoot`, `GroundIsReal` | KCCInv, `WayInv` |
| `NeverHeld` | `NeverStuck` | KCCInv, `MoveInv` of KCC |

**LedgerInv**. Exclusion alone is not inductive: it follows from the ledger
(two running abilities claiming one bit would both be its owner), and the ledger needs
that scopes hold only their own bits (`ScopesOnly`), hold what they believe
(`HeldIsOwned`), and that control knows who is running (`ControlInv`). Assumptions:
`SizeAssumption`, `TableAssumption`, `ScopeAssumption`. The lemmas say what
swap-pop, unregister and register do (`SwapPopErases`, `RemovalKeepsLedger`).

**ActivesInv**. `_actives` lists exactly the running abilities, each once. The lemma
about `SwapPop` carries it: where each entry is afterwards, which elements are
left, and that no entry comes to stand twice.

**WalkInv**. That nobody runs twice in a tick says nothing of the entries to come,
so it is strengthened: no ability the index has still to reach has run, and the
one whose body runs stands at the index, unless a preemption from its own
body has moved it, and then the index is past the end. A removal moves only the
last entry, and only downwards: below the index it is skipped (which is what run
`arbiter_skip` shows), never repeated.

**PreemptInv**. Everything a start has preempted carries the tried mark, as does
everything that runs by then, so the next scan cannot choose it; and a candidate
outranks the owners still in its way, since cancelling one only frees bits.

**The hero**. `HeroRunsArbiter` first: each step of a tick is a step of the
arbiter with HeroEntity's table, whose assumptions the table meets. So the
arbiter's invariants need no second proof; `ArbInv` restates them for four
abilities, and `TickInv` adds what is true of this table only: nothing is preempted
at run time, so the walk misses nobody, and only a dash's body is ever in a scope.
Lemma `HeroSteps` then says in the abilities' words what each step does to the
running abilities, which every later proof cites instead of the arbiter. `HeroInv` adds:

* `TimersInv`, the reason for `ReloadInStep`: what the ability's wait has left is no
  more than what the weapon's own timer has left. The weapon's Tick comes first, so
  until the ability's body has run (`Pending`) the weapon may be ahead by the length
  of the tick, and may even have finished. A third timer, the cooldown, together with
  the time since the last shot never falls below the fire interval (`CooldownInv`).
* `SnapInv`, what the stale snapshot still says when a candidate starts: if it shows
  no reload, the magazine has at most the rounds it shows; a burst that is not running
  but wanted has a round to start with.
* `AnswerInv`, why a press is answered: a dash lasts from the tick that starts it to its
  body in the next, and neither it nor a melee is tried in vain.
* `MeleeInv`: past its first wait a melee has struck once, before it not at all.

`SlotImplemented` maps a step to the one of `WeaponSlot` that has its name; a
candidate takes the slot in the step that finds nothing in its way, or cancels the
last thing that was. Assumption `HeroAssumption`.

**InputInv**. The collected edges are exactly those of the log, and a key that is
down now but was not in the last frame has an edge collected; so the state
difference never adds a key, wherever in the tick it is read. **OrderedInv**: while
nothing has been overtaken, the last mask is the newest sample that arrived, and
presses seen, collected or in the frame of this tick are together no more than the
client made up to that sample. A lost packet can merge presses and a repeated one adds
none. Assumptions `KeyAssumption`, `BoundAssumption`.

**SessionInv**. Ids in use are below `nextPlayer`, so a join's id is new and the
capsule a close removes is no one else's. **KnowsInv**: of the answers to a connection that
are still queued, the last carries its present id, and with none queued it was told
that id; a tick's packets stand behind all answers. The connection accepted next is in
no table, so that what an old one was told is not mistaken for it. Assumption
`SessionAssumption`.

**MoveInv**. The network's source stands first and is visited last, so its look and
its jump are written once and nothing of an earlier source's is kept. A jump is lost
only to a source still to be visited that has time left, or to a force the command
already holds (`JumpInv`). **DashInv**: what a dash has run for, with what the command
holds for it, is what its timer has lost, unless an older one that has acted in this
tick will overwrite it; the ages tell a dash visited in this tick from one that is
not. Assumption `MovementAssumption`.

**ShotInv**. What a shot has flown and has left make up its range; the shots before
the index are those that have been moved, also after the last has filled a gap.
**CountInv** counts each id's ends and flights together to one at most, and a hit told
or waiting. **PaceInv**: snapshots sent, the timer and the tick not yet added make up
all the time there was, modulo the counter's width. Assumption `ProjectileAssumption`.

**KCCInv**. The types, and that the three spheres that are swept are outside of every
box (`Clear`). Two lemmas carry it. `SphereSweep` is about one sphere and one box: the
sweep's interval of times is exactly when the sphere is within the grown box, and
where the sweep reports nothing at time zero, since the sphere does not press against
the face it touches, it does not enter either; this is where the choice of the nearest
face counts. `CapsuleSweep` is about all spheres and boxes: there is an earliest hit if
there is any, and as far as it all the spheres stay outside. A slide and the three
parts of a step up are sweeps no longer than their first hit. The ground snap
sweeps one sphere only: a box that the spheres above it came into would be one the
lower has gone through. `NotInside` for the rest of the capsule follows, since no grown
box fits between two neighbouring spheres.

**WayInv** says in every phase of a move what `NoOvershoot` says at its end, and what
`GroundIsReal` rests on. `Headed`: sideways, no further than the parts done and what is
gone of this one. `Climbs`: a step up ends its part, so the rise is bounded by the
number of parts. `OnePart`: only the step up, never the slide after it, lifts the
player, so what it lands on is still under it. `Touched`: a slide takes an axis from the
direction, so only the first hit of an oblique move can be ground with a way to go on.
The lemmas say where a sweep that reports a top leaves the player. `FirstTouch`: one sphere
is then at the top's height and within its edges. `LandsOnFeet`: it was the lower one, since the
spheres are too close for a higher one to come down on a box that the lower does not
meet; only straight down along a box's face may a higher sphere catch its edge.
`StepUpLands` shows that a step up, which has just swept its way forward, never comes down
like that and higher than it began. `SnapLands` does the same for the ground snap.

**MoveInv** of KCC: on an open way the
player is where the parts done so far say, and nothing a part meets stops it; and
each slide takes an axis from the direction, of which there are two.

Assumptions: `KCCAssumption`, with two iterations at least, an air snap no longer
than the other (in the code 4, and 0.1 of 0.5), a diagonal displacement short enough to
need one part, and a step no higher than half the capsule's axis (0.5 and 0.5; the
default axis has 0.9), so that a player whose middle sphere is caught by an edge is no
higher than it was; and `WorldAssumption`: boxes are not inside
out, the player enters outside of them, and half the capsule's axis is shorter than a
grown box is high (`2 * (Radius - SkinWidth) > HalfHeight`; 0.96, against the 0.5 that
`GameServer::Tick` passes and the default of 0.9).
This last one is needed: a thin slab would fit between the spheres of a longer capsule.

Only model-checked: liveness (`TickTerminates`, `EmptyMagazineRefilled`,
`JoinAnswered`, `MovementSettles`), which is out of the prover's reach; and
`InboundWhole` and `OutboundReadable`, since the decoders of `Wire` are recursive, and what
they compute for every input needs induction over data. `WireAssumption` is
evaluated by the runs; no proof uses it.

## 5. Not modelled

* The lifetime of send buffers and the interleaving of two `async_write`s: what
  a socket takes at once is decided inside Asio and the operating system. `Sessions`
  has a packet that is sent arrive as it is.
* `serverTime`, which truncates each tick to whole milliseconds; it is carried in Pongs
  and nothing says how exact it is.
* `HeroCore::ApplyDamage`, `MovementSourceCollection::RemoveSource` and `SetBuffer`, which
  nothing calls; the tasks no ability builds (`ChargeHoldTask`, `InputGateTask`,
  `EmitEventTask`).
* Of movement: the second sideways axis and with it the direction of a walk or dash, the
  clamp of the pitch, `LocomotionState`.
* The world file (read once at start; one that ends early leaves the world as it
  was), Asio (vendored).
* Aiming, view directions and the float arithmetic of all geometry; wrap-around of
  32-bit ids.

## 6. Plan

Modelling is done as far as the list above says, and every safety property the runs
check is proved but the two about bytes, for the reason section 4 gives. What is left
needs other tools or a larger model:

1. What the decoders of `Wire` return for every packet, with a prover that does
   induction over sequences.
2. Slopes and rotated boxes in `KCC`, where a hit's normal is not along an axis and a
   slide keeps a part of its length.
