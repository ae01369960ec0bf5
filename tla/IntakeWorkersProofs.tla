------------------------ MODULE IntakeWorkersProofs ------------------------
(***************************************************************************)
(* Theorems about the worker pool: it runs the draft queue as DraftQueue   *)
(* specifies it, a machine stays its draft's, and how far the machine cap  *)
(* can be passed, for every number of drafts, machines, ticks and mishaps. *)
(***************************************************************************)
EXTENDS IntakeWorkers, DraftItemProofs, FiniteSetTheorems

LEMMA OneIsADraft == 1 \in Drafts
  BY DraftQueueAssumption, PoolAssumption DEF Drafts

LEMMA IdleShapes ==
  /\ NoSpawn \in [at : {"idle", "list", "create", "store"}, draft : Drafts,
                  machine : Workers \cup {NoWorker}]
  /\ IdleTick \in [at : {"idle", "queue", "spawn"}, seen : SUBSET Workers, todo : SUBSET Drafts]
  BY OneIsADraft DEF NoSpawn, IdleTick

-----------------------------------------------------------------------------
(* Types.                                                                  *)

LEMMA PoolInitTyped == PoolInit => PoolTypeOK
  BY OneIsADraft, IdleShapes, PoolAssumption DEF PoolInit, PoolTypeOK, MachineStates

\* A spawn begun for a draft, in any slot.
LEMMA StartTyped ==
  ASSUME PoolTypeOK, NEW s \in Slots, NEW d \in Drafts
  PROVE  Start(s, d) \in [Slots -> [at : {"idle", "list", "create", "store"}, draft : Drafts,
                                    machine : Workers \cup {NoWorker}]]
  BY DEF PoolTypeOK, Start

LEMMA SpawnsTyped ==
  ASSUME PoolTypeOK, NEW s \in Slots, SpawnStep(s) \/ SpawnFails(s)
  PROVE  PoolTypeOK'
<1>1. CASE SpawnListed(s)
  BY <1>1 DEF SpawnListed, PoolTypeOK
<1>2. CASE SpawnCreated(s)
  <2>1. PICK m \in Workers :
          /\ mach' = [mach EXCEPT ![m] = [state |-> "booting", draft |-> spawn[s].draft]]
          /\ spawn' = [spawn EXCEPT ![s].at = "store", ![s].machine = m]
          /\ machineId' = [d \in Drafts |-> IF machineId[d] = m THEN NoWorker ELSE machineId[d]]
    BY <1>2 DEF SpawnCreated
  <2>2. spawn[s].draft \in Drafts
    BY DEF PoolTypeOK
  <2>3. mach' \in [Workers -> [state : MachineStates, draft : Drafts]]
    BY <2>1, <2>2 DEF PoolTypeOK, MachineStates
  <2>4. spawn' \in [Slots -> [at : {"idle", "list", "create", "store"}, draft : Drafts,
                              machine : Workers \cup {NoWorker}]]
    <3> DEFINE mid == [spawn EXCEPT ![s].at = "store"]
    <3>1. mid \in [Slots -> [at : {"idle", "list", "create", "store"}, draft : Drafts,
                             machine : Workers \cup {NoWorker}]]
      BY DEF PoolTypeOK
    <3>2. spawn' = [mid EXCEPT ![s].machine = m]
      BY <2>1
    <3> HIDE DEF mid
    <3>3. QED
      BY <3>1, <3>2
  <2>5. machineId' \in [Drafts -> Workers \cup {NoWorker}]
    BY <2>1 DEF PoolTypeOK
  <2>6. UNCHANGED <<tick, mishaps>>
    BY <1>2 DEF SpawnCreated
  <2>7. QED
    BY <2>3, <2>4, <2>5, <2>6 DEF PoolTypeOK
<1>3. CASE SpawnStored(s)
  BY <1>3, IdleShapes DEF SpawnStored, PoolTypeOK
<1>4. CASE SpawnFails(s)
  BY <1>4, IdleShapes, PoolAssumption DEF SpawnFails, Mishap, PoolTypeOK
<1>5. QED
  BY <1>1, <1>2, <1>3, <1>4 DEF SpawnStep

LEMMA TicksTyped ==
  ASSUME PoolTypeOK, NEW t \in Ticks, TickStep(t)
  PROVE  PoolTypeOK'
<1>0. Live \subseteq Workers /\ TickSlot(t) \in Slots
  BY DEF Live, Slots
<1>1. CASE TickListed(t)
  <2>1. mishaps' \in 0 .. MaxMishaps
    BY <1>1, PoolAssumption DEF TickListed, PoolTypeOK, HeldUp
  <2>2. QED
    BY <1>0, <1>1, <2>1 DEF TickListed, PoolTypeOK
<1>2. CASE TickQueued(t)
  <2> DEFINE reaped == {m \in tick[t].seen : mach[m].state = "overstayed"}
  <2>1. mach' = [m \in Workers |-> IF m \in reaped
                                   THEN [mach[m] EXCEPT !.state = "gone"] ELSE mach[m]]
    BY <1>2 DEF TickQueued
  <2>2. \A m \in Workers : [mach[m] EXCEPT !.state = "gone"] \in [state : MachineStates, draft : Drafts]
    BY DEF PoolTypeOK, MachineStates
  <2>3. mach' \in [Workers -> [state : MachineStates, draft : Drafts]]
    BY <2>1, <2>2 DEF PoolTypeOK
  <2>4. Respawn(tick[t].seen \ reaped) \subseteq Drafts
    BY DEF Respawn, Pending
  <2>5. tick' = [tick EXCEPT ![t] = [at |-> "spawn", seen |-> {},
                                     todo |-> Respawn(tick[t].seen \ reaped)]]
    BY <1>2 DEF TickQueued
  <2>6. tick' \in [Ticks -> [at : {"idle", "queue", "spawn"}, seen : SUBSET Workers, todo : SUBSET Drafts]]
    BY <2>4, <2>5 DEF PoolTypeOK
  <2>7. QED
    BY <1>2, <2>3, <2>6 DEF TickQueued, PoolTypeOK
<1>3. CASE TickSpawns(t)
  <2>1. PICK d \in tick[t].todo : /\ spawn' = Start(TickSlot(t), d)
                                  /\ tick' = [tick EXCEPT ![t].todo = @ \ {d}]
    BY <1>3 DEF TickSpawns
  <2>2. d \in Drafts
    BY DEF PoolTypeOK
  <2>3. tick' \in [Ticks -> [at : {"idle", "queue", "spawn"}, seen : SUBSET Workers, todo : SUBSET Drafts]]
    BY <2>1 DEF PoolTypeOK
  <2>4. QED
    BY <1>0, <1>3, <2>1, <2>2, <2>3, StartTyped DEF TickSpawns, PoolTypeOK
<1>4. CASE TickDone(t)
  BY <1>4, IdleShapes DEF TickDone, PoolTypeOK
<1>5. QED
  BY <1>1, <1>2, <1>3, <1>4 DEF TickStep

\* What the steps of one machine do to the machines: its state changes, or none.
MachineMoves(m) ==
  \/ mach' = mach
  \/ \E s \in MachineStates \ {"booting"} : mach' = [mach EXCEPT ![m].state = s]

LEMMA MachineStepMoves ==
  ASSUME NEW m \in Workers, MachineStep(m) \/ WorkerBeats(m) \/ WorkerStops(m)
  PROVE  MachineMoves(m)
<1>1. ASSUME Exit(m)
      PROVE  MachineMoves(m)
  BY <1>1 DEF Exit, MachineMoves, MachineStates
<1>2. CASE WorkerClaims(m)
  BY <1>1, <1>2 DEF WorkerClaims, MachineMoves, MachineStates
<1>3. CASE WorkerFinishes(m) \/ WorkerQuits(m)
  BY <1>1, <1>3 DEF WorkerFinishes, WorkerQuits
<1>4. CASE Overstays(m) \/ WorkerStops(m)
  BY <1>4 DEF Overstays, WorkerStops, MachineMoves, MachineStates
<1>5. CASE WorkerBeats(m)
  BY <1>5 DEF WorkerBeats, MachineMoves, poolVars
<1>6. QED
  BY <1>2, <1>3, <1>4, <1>5 DEF MachineStep

LEMMA MachinesTyped ==
  ASSUME PoolTypeOK, NEW m \in Workers, MachineStep(m) \/ WorkerBeats(m) \/ WorkerStops(m)
  PROVE  PoolTypeOK'
<1>1. mach' \in [Workers -> [state : MachineStates, draft : Drafts]]
  BY MachineStepMoves DEF MachineMoves, PoolTypeOK
<1>2. machineId' \in [Drafts -> Workers \cup {NoWorker}]
  BY DEF MachineStep, WorkerClaims, WorkerFinishes, WorkerQuits, Overstays, WorkerBeats, WorkerStops,
         poolVars, PoolTypeOK
<1>3. mishaps' \in 0 .. MaxMishaps /\ UNCHANGED <<spawn, tick>>
  <2>1. CASE WorkerStops(m)
    BY <2>1, PoolAssumption DEF WorkerStops, Mishap, PoolTypeOK
  <2>2. CASE MachineStep(m) \/ WorkerBeats(m)
    BY <2>2 DEF MachineStep, WorkerClaims, WorkerFinishes, WorkerQuits, Overstays, WorkerBeats,
                poolVars, PoolTypeOK
  <2>3. QED
    BY <2>1, <2>2
<1>4. QED
  BY <1>1, <1>2, <1>3 DEF PoolTypeOK

LEMMA PoolStepTyped ==
  ASSUME PoolTypeOK, [PoolNext]_allVars
  PROVE  PoolTypeOK'
<1>1. CASE EnqueueAndSpawn
  <2>1. PICK d \in Drafts : spawn' = Start(d, d) /\ UNCHANGED <<machineId, mach, tick, mishaps>>
    BY <1>1 DEF EnqueueAndSpawn
  <2>2. d \in Slots
    BY DEF Slots
  <2>3. QED
    BY <2>1, <2>2, StartTyped DEF PoolTypeOK
<1>2. CASE Abandon \/ \E d \in Drafts : ClaimExpires(d)
  BY <1>2 DEF Abandon, ClaimExpires, poolVars, PoolTypeOK
<1>3. CASE Outage
  BY <1>3, PoolAssumption DEF Outage, Mishap, PoolTypeOK
<1>4. CASE UNCHANGED allVars
  BY <1>4 DEF allVars, poolVars, PoolTypeOK
<1>5. QED
  BY <1>1, <1>2, <1>3, <1>4, SpawnsTyped, TicksTyped, MachinesTyped DEF PoolNext

\* Machines, spawns and ticks keep their shape, and a machine names a draft that
\* exists (spawn.ts).
THEOREM PoolTyping == PoolSpec => []PoolTypeOK
  BY PoolInitTyped, PoolStepTyped, PTL DEF PoolSpec

-----------------------------------------------------------------------------
(* The pool runs the queue.                                                *)

\* Every step of the pool is one step of one handler of the queue, or none.
LEMMA PoolStepIsQueueStep ==
  ASSUME PoolTypeOK, [PoolNext]_allVars
  PROVE  [Next]_vars
<1>1. CASE EnqueueAndSpawn
  BY <1>1 DEF EnqueueAndSpawn, Next, ContributorStep
<1>2. CASE Abandon
  BY <1>2 DEF Abandon, Next, ContributorStep
<1>3. ASSUME NEW s \in Slots, SpawnStep(s) \/ SpawnFails(s)
      PROVE  UNCHANGED vars
  BY <1>3 DEF SpawnStep, SpawnListed, SpawnCreated, SpawnStored, SpawnFails
<1>4. ASSUME NEW t \in Ticks, TickStep(t)
      PROVE  UNCHANGED vars
  BY <1>4 DEF TickStep, TickListed, TickQueued, TickSpawns, TickDone
<1>5. ASSUME NEW m \in Workers, MachineStep(m) \/ WorkerBeats(m) \/ WorkerStops(m)
      PROVE  [Next]_vars
  <2>1. mach[m].draft \in Drafts
    BY DEF PoolTypeOK
  <2>2. CASE WorkerClaims(m)
    BY <2>1, <2>2 DEF WorkerClaims, Next, WorkerStep
  <2>3. CASE WorkerFinishes(m)
    BY <2>1, <2>3 DEF WorkerFinishes, Next, WorkerStep
  <2>4. CASE WorkerBeats(m)
    BY <2>1, <2>4 DEF WorkerBeats, Next, WorkerStep
  <2>5. CASE WorkerQuits(m) \/ Overstays(m) \/ WorkerStops(m)
    BY <2>5 DEF WorkerQuits, Overstays, WorkerStops
  <2>6. QED
    BY <1>5, <2>2, <2>3, <2>4, <2>5 DEF MachineStep
<1>6. ASSUME NEW d \in Drafts, ClaimExpires(d)
      PROVE  Next
  <2>1. {d} \in SUBSET Drafts /\ BeatsExpire({d})
    BY <1>6 DEF ClaimExpires
  <2>2. QED
    BY <2>1 DEF Next, ServerStep
<1>7. CASE Outage
  <2>1. {d \in Drafts : beat[d] = "fresh"} \in SUBSET Drafts
    OBVIOUS
  <2>2. BeatsExpire({d \in Drafts : beat[d] = "fresh"})
    BY <1>7 DEF Outage
  <2>3. QED
    BY <2>1, <2>2 DEF Next, ServerStep
<1>8. CASE UNCHANGED allVars
  BY <1>8 DEF allVars
<1>9. QED
  BY <1>1, <1>2, <1>3, <1>4, <1>5, <1>6, <1>7, <1>8 DEF PoolNext

\* The pool implements the queue: whatever machines, spawns and ticks do, the
\* drafts are worked on as DraftQueue says, so what holds of the queue run by
\* any workers holds of it run by these (spawn.ts, worker/src/main.ts).
THEOREM PoolRunsTheQueue == PoolSpec => Spec
<1>1. PoolInit => Init
  BY DEF PoolInit
<1>2. QED
  BY <1>1, PoolStepIsQueueStep, PoolTyping, PTL DEF PoolSpec, Spec

\* The queue's own guarantees, in the pool: a draft waits or runs exactly while it
\* has a job, has its passes counted, changes hands only after a silence, and is
\* final once submitted.
THEOREM PoolKeepsTheQueue ==
  PoolSpec => /\ [](QueueConsistent /\ PassesBounded) /\ ClaimsExclusive /\ SubmittedIsFinal
  BY PoolRunsTheQueue, QueueStaysConsistent, PassesStayBounded, ClaimsStayExclusive,
     SubmissionIsFinal, PTL

-----------------------------------------------------------------------------
(* How far the machine cap can be passed.                                  *)

LEMMA SlotsFinite == IsFiniteSet(Slots)
<1>1. Slots \subseteq 1 .. MaxDrafts + MaxTicks
  BY DraftQueueAssumption, PoolAssumption DEF Slots, Drafts, Ticks, TickSlot
<1>2. IsFiniteSet(1 .. MaxDrafts + MaxTicks)
  BY DraftQueueAssumption, PoolAssumption, FS_Interval
<1>3. QED
  BY <1>1, <1>2, FS_Subset

\* The inductive invariant: only finitely many machines were ever created.
CapInv == IsFiniteSet(Live) /\ MachinesBounded

\* No machine comes alive and no spawn is told to create one.
LEMMA FewerStayBounded ==
  ASSUME CapInv, Live' \subseteq Live, Ordered' \subseteq Ordered
  PROVE  CapInv'
<1>1. Ordered \subseteq Slots
  BY DEF Ordered
<1>2. /\ IsFiniteSet(Ordered) /\ Cardinality(Ordered) \in Nat /\ Cardinality(Live) \in Nat
      /\ Cardinality(Slots) \in Nat
  BY <1>1, SlotsFinite, FS_Subset, FS_CardinalityType DEF CapInv
<1>3. /\ IsFiniteSet(Live') /\ Cardinality(Live') <= Cardinality(Live)
      /\ IsFiniteSet(Ordered') /\ Cardinality(Ordered') <= Cardinality(Ordered)
  BY <1>2, FS_Subset DEF CapInv
<1>4. Cardinality(Live') \in Nat /\ Cardinality(Ordered') \in Nat
  BY <1>3, FS_CardinalityType
<1>5. QED
  BY <1>2, <1>3, <1>4, PoolAssumption DEF CapInv, MachinesBounded

\* A spawn that finds the list below the cap may come on top of all the others.
LEMMA ListedStaysBounded ==
  ASSUME PoolTypeOK, CapInv, NEW s \in Slots, SpawnListed(s)
  PROVE  CapInv'
<1>0. Live' = Live
  BY DEF SpawnListed, Live
<1>1. CASE Cardinality(Live) >= MaxMachines
  <2>1. Ordered' \subseteq Ordered
    BY <1>1 DEF SpawnListed, Ordered, PoolTypeOK
  <2>2. QED
    BY <1>0, <2>1, FewerStayBounded
<1>2. CASE ~(Cardinality(Live) >= MaxMachines)
  <2>1. Ordered' \subseteq Slots
    BY DEF Ordered
  <2>2. Cardinality(Ordered') <= Cardinality(Slots)
    BY <2>1, SlotsFinite, FS_Subset
  <2>3. /\ Cardinality(Ordered') \in Nat /\ Cardinality(Slots) \in Nat
        /\ Cardinality(Live) \in Nat
    BY <2>1, SlotsFinite, FS_Subset, FS_CardinalityType DEF CapInv
  <2>4. QED
    BY <1>0, <1>2, <2>2, <2>3, PoolAssumption DEF CapInv, MachinesBounded
<1>3. QED
  BY <1>1, <1>2

\* A machine created is one spawn less that may create one.
LEMMA CreatedStaysBounded ==
  ASSUME PoolTypeOK, CapInv, NEW s \in Slots, SpawnCreated(s)
  PROVE  CapInv'
<1>1. PICK m \in Workers :
        /\ Fresh(m)
        /\ mach' = [mach EXCEPT ![m] = [state |-> "booting", draft |-> spawn[s].draft]]
        /\ spawn' = [spawn EXCEPT ![s].at = "store", ![s].machine = m]
  BY DEF SpawnCreated
<1>2. m \notin Live /\ Live' = Live \cup {m}
  BY <1>1 DEF Live, Fresh, PoolTypeOK
<1>3. s \in Ordered
  BY DEF SpawnCreated, Ordered
<1>4. Ordered' = Ordered \ {s}
  <2>1. \A t \in Slots \ {s} : spawn'[t] = spawn[t]
    BY <1>1 DEF PoolTypeOK
  <2>2. spawn'[s].at = "store"
    BY <1>1 DEF PoolTypeOK
  <2>3. QED
    BY <2>1, <2>2 DEF Ordered
<1>5. IsFiniteSet(Ordered) /\ IsFiniteSet(Live)
  BY SlotsFinite, FS_Subset DEF Ordered, CapInv
<1>6. IsFiniteSet(Live') /\ Cardinality(Live') = Cardinality(Live) + 1
  BY <1>2, <1>5, FS_AddElement
<1>7. Cardinality(Ordered') = Cardinality(Ordered) - 1
  BY <1>3, <1>4, <1>5, FS_RemoveElement
<1>8. /\ Cardinality(Live) \in Nat /\ Cardinality(Ordered) \in Nat
      /\ Cardinality(Slots) \in Nat
  BY <1>5, SlotsFinite, FS_CardinalityType
<1>9. QED
  BY <1>6, <1>7, <1>8, PoolAssumption DEF CapInv, MachinesBounded

LEMMA PoolStepStaysBounded ==
  ASSUME PoolTypeOK, CapInv, [PoolNext]_allVars
  PROVE  CapInv'
<1>1. CASE EnqueueAndSpawn
  <2>1. PICK d \in Drafts : spawn' = Start(d, d) /\ UNCHANGED mach
    BY <1>1 DEF EnqueueAndSpawn
  <2>2. Ordered' \subseteq Ordered
    BY <2>1 DEF Start, Ordered, PoolTypeOK, Slots
  <2>3. Live' = Live
    BY <2>1 DEF Live
  <2>4. QED
    BY <2>2, <2>3, FewerStayBounded
<1>2. CASE Abandon \/ (\E d \in Drafts : ClaimExpires(d)) \/ Outage \/ UNCHANGED allVars
  <2>1. UNCHANGED <<mach, spawn>>
    BY <1>2 DEF Abandon, ClaimExpires, Outage, allVars, poolVars
  <2>2. Live' = Live /\ Ordered' = Ordered
    BY <2>1 DEF Live, Ordered
  <2>3. QED
    BY <2>2, FewerStayBounded
<1>3. ASSUME NEW s \in Slots, SpawnStored(s) \/ SpawnFails(s)
      PROVE  CapInv'
  <2>1. Live' = Live
    BY <1>3 DEF SpawnStored, SpawnFails, Live
  <2>2. Ordered' \subseteq Ordered
    BY <1>3 DEF SpawnStored, SpawnFails, Ordered, NoSpawn, PoolTypeOK
  <2>3. QED
    BY <2>1, <2>2, FewerStayBounded
<1>4. ASSUME NEW t \in Ticks, TickStep(t)
      PROVE  CapInv'
  <2>1. Live' \subseteq Live
    <3>1. CASE TickQueued(t)
      BY <3>1 DEF TickQueued, Live
    <3>2. CASE TickListed(t) \/ TickSpawns(t) \/ TickDone(t)
      BY <3>2 DEF TickListed, TickSpawns, TickDone, Live
    <3>3. QED
      BY <1>4, <3>1, <3>2 DEF TickStep
  <2>2. Ordered' \subseteq Ordered
    <3>1. CASE TickSpawns(t)
      <4>1. PICK d : spawn' = Start(TickSlot(t), d)
        BY <3>1 DEF TickSpawns
      <4>2. QED
        BY <4>1 DEF Start, Ordered, PoolTypeOK
    <3>2. CASE TickListed(t) \/ TickQueued(t) \/ TickDone(t)
      BY <3>2 DEF TickListed, TickQueued, TickDone, Ordered
    <3>3. QED
      BY <1>4, <3>1, <3>2 DEF TickStep
  <2>3. QED
    BY <2>1, <2>2, FewerStayBounded
<1>5. ASSUME NEW m \in Workers, MachineStep(m) \/ WorkerBeats(m) \/ WorkerStops(m)
      PROVE  CapInv'
  <2>1. Live' \subseteq Live
    <3>1. CASE WorkerClaims(m)
      BY <3>1 DEF WorkerClaims, Exit, Live, PoolTypeOK
    <3>2. CASE WorkerFinishes(m) \/ WorkerQuits(m)
      BY <3>2 DEF WorkerFinishes, WorkerQuits, Exit, Live, PoolTypeOK
    <3>3. CASE Overstays(m) \/ WorkerStops(m)
      BY <3>3 DEF Overstays, WorkerStops, Live, PoolTypeOK
    <3>4. CASE WorkerBeats(m)
      BY <3>4 DEF WorkerBeats, poolVars, Live
    <3>5. QED
      BY <1>5, <3>1, <3>2, <3>3, <3>4 DEF MachineStep
  <2>2. UNCHANGED spawn
    BY <1>5 DEF MachineStep, WorkerClaims, WorkerFinishes, WorkerQuits, Overstays, WorkerBeats,
                WorkerStops, poolVars
  <2>3. Ordered' = Ordered
    BY <2>2 DEF Ordered
  <2>4. QED
    BY <2>1, <2>3, FewerStayBounded
<1>6. QED
  BY <1>1, <1>2, <1>3, <1>4, <1>5, ListedStaysBounded, CreatedStaysBounded DEF PoolNext, SpawnStep

LEMMA CapInit == PoolInit => CapInv
<1> SUFFICES ASSUME PoolInit PROVE CapInv
  OBVIOUS
<1>1. Live = {} /\ Ordered = {}
  BY DEF PoolInit, Live, Ordered, NoSpawn
<1>2. Cardinality(Slots) \in Nat
  BY SlotsFinite, FS_CardinalityType
<1>3. QED
  BY <1>1, <1>2, FS_EmptySet, PoolAssumption DEF CapInv, MachinesBounded

\* However many spawns list the machines before any of them creates one, the
\* machines alive pass the cap by less than the spawns in flight (spawn.ts).
THEOREM MachinesStayBounded == PoolSpec => []MachinesBounded
<1>1. PoolTypeOK /\ CapInv /\ [PoolNext]_allVars => CapInv'
  BY PoolStepStaysBounded
<1>2. PoolSpec => []CapInv
  BY <1>1, CapInit, PoolTyping, PTL DEF PoolSpec
<1>3. QED
  BY <1>2, PTL DEF CapInv

-----------------------------------------------------------------------------
(* A machine is its draft's.                                               *)

\* The three parts of MachinesAreTheirs.
ClaimsTheirs ==
  \A d \in Drafts, m \in Workers :
    job[d] # "none" /\ claimedBy[d] = m => mach[m].draft = d /\ mach[m].state # "booting"
NamesTheirs ==
  \A d \in Drafts, m \in Workers : machineId[d] = m => mach[m].draft = d
SpawnsTheirs ==
  \A s \in Slots, m \in Workers :
    spawn[s].machine = m => /\ spawn[s].at = "store" /\ mach[m].draft = spawn[s].draft
                            /\ \A t \in Slots \ {s} : spawn[t].machine # m

LEMMA TheirsParts ==
  /\ MachinesAreTheirs <=> ClaimsTheirs /\ NamesTheirs /\ SpawnsTheirs
  /\ MachinesAreTheirs' <=> ClaimsTheirs' /\ NamesTheirs' /\ SpawnsTheirs'
  BY DEF MachinesAreTheirs, ClaimsTheirs, NamesTheirs, SpawnsTheirs

\* The machines that were there keep their drafts, and none is back at booting.
SameMachines ==
  \A m \in Workers : /\ mach'[m].draft = mach[m].draft
                     /\ mach'[m].state = "booting" => mach[m].state = "booting"

\* No worker is given a job it did not have.
NoNewClaims ==
  \A d \in Drafts, m \in Workers :
    job'[d] # "none" /\ claimedBy'[d] = m => job[d] # "none" /\ claimedBy[d] = m

LEMMA ClaimsStayTheirs ==
  ASSUME ClaimsTheirs, SameMachines, NoNewClaims
  PROVE  ClaimsTheirs'
  BY DEF ClaimsTheirs, SameMachines, NoNewClaims

LEMMA NamesStayTheirs ==
  ASSUME NamesTheirs, SameMachines, \A d \in Drafts : machineId'[d] \in {machineId[d], NoWorker}
  PROVE  NamesTheirs'
  BY DraftQueueAssumption DEF NamesTheirs, SameMachines

\* A spawn that begins, ends or fails names no machine.
LEMMA SpawnsStayTheirs ==
  ASSUME SpawnsTheirs, SameMachines,
         \A s \in Slots : spawn'[s] = spawn[s] \/ spawn'[s].machine = NoWorker
  PROVE  SpawnsTheirs'
  BY DraftQueueAssumption DEF SpawnsTheirs, SameMachines

\* An enqueued job is nobody's yet: the draft was ready, failed or not there.
LEMMA EnqueueStaysTheirs ==
  ASSUME PoolTypeOK, QueueInv, QueueInv', MachinesAreTheirs, EnqueueAndSpawn
  PROVE  MachinesAreTheirs'
<1>1. PICK u \in Contributors, d \in Drafts :
        /\ \/ CreateDraft(u) /\ status[d] = "none" /\ status'[d] = "queued"
           \/ EnqueueChat(u, d)
           \/ \E focus \in BOOLEAN : EnqueueContinue(u, d, focus)
        /\ spawn' = Start(d, d)
        /\ UNCHANGED <<machineId, mach>>
  BY DEF EnqueueAndSpawn
<1>2. SameMachines
  BY <1>1 DEF SameMachines
<1>3. NoNewClaims
  <2>1. UNCHANGED claimedBy
    BY <1>1 DEF CreateDraft, Insert, EnqueueChat, EnqueueContinue, Enqueue
  <2>2. \A e \in Drafts : job'[e] # job[e] => status'[e] = "queued"
    <3>1. CASE CreateDraft(u)
      BY <3>1 DEF CreateDraft, Insert, QueueInv, TypeOK
    <3>2. CASE EnqueueChat(u, d) \/ \E focus \in BOOLEAN : EnqueueContinue(u, d, focus)
      BY <3>2 DEF EnqueueChat, EnqueueContinue, Enqueue, QueueInv, TypeOK
    <3>3. QED
      BY <1>1, <3>1, <3>2
  <2>3. \A e \in Drafts : status'[e] = "queued" => claimedBy'[e] = NoWorker
    BY DEF QueueInv, QueueConsistent
  <2>4. QED
    BY <2>1, <2>2, <2>3, DraftQueueAssumption DEF NoNewClaims
<1>4. \A s \in Slots : spawn'[s] = spawn[s] \/ spawn'[s].machine = NoWorker
  BY <1>1 DEF Start, PoolTypeOK
<1>5. QED
  BY <1>1, <1>2, <1>3, <1>4, TheirsParts, ClaimsStayTheirs, NamesStayTheirs, SpawnsStayTheirs

\* A fresh slot is claimed on no job, and named by no row and no spawn.
LEMMA CreatedStaysTheirs ==
  ASSUME PoolTypeOK, MachinesAreTheirs, NEW s \in Slots, SpawnCreated(s)
  PROVE  MachinesAreTheirs'
<1>1. PICK m \in Workers :
        /\ Fresh(m)
        /\ mach' = [mach EXCEPT ![m] = [state |-> "booting", draft |-> spawn[s].draft]]
        /\ spawn' = [spawn EXCEPT ![s].at = "store", ![s].machine = m]
        /\ machineId' = [d \in Drafts |-> IF machineId[d] = m THEN NoWorker ELSE machineId[d]]
  BY DEF SpawnCreated
<1>2. \A n \in Workers \ {m} : mach'[n] = mach[n]
  BY <1>1 DEF PoolTypeOK
<1>3. mach'[m].draft = spawn[s].draft
  BY <1>1 DEF PoolTypeOK
<1>4. ClaimsTheirs'
  <2>1. UNCHANGED <<job, claimedBy>>
    BY DEF SpawnCreated, vars
  <2>2. QED
    BY <1>1, <1>2, <2>1, TheirsParts DEF ClaimsTheirs, Fresh
<1>5. NamesTheirs'
  BY <1>1, <1>2, TheirsParts, DraftQueueAssumption DEF NamesTheirs
<1>6. SpawnsTheirs'
  <2>1. \A t \in Slots \ {s} : spawn'[t] = spawn[t] /\ spawn[t].machine # m
    BY <1>1 DEF Fresh, PoolTypeOK
  <2>2. spawn'[s].at = "store" /\ spawn'[s].machine = m /\ spawn'[s].draft = spawn[s].draft
    BY <1>1 DEF PoolTypeOK
  <2>3. QED
    BY <1>2, <1>3, <2>1, <2>2, TheirsParts DEF SpawnsTheirs
<1>7. QED
  BY <1>4, <1>5, <1>6, TheirsParts

\* A row is told of the machine its own spawn created.
LEMMA StoredStaysTheirs ==
  ASSUME PoolTypeOK, MachinesAreTheirs, NEW s \in Slots, SpawnStored(s)
  PROVE  MachinesAreTheirs'
<1>1. SameMachines /\ NoNewClaims
  BY DEF SpawnStored, SameMachines, NoNewClaims, vars
<1>2. NamesTheirs'
  BY <1>1, TheirsParts DEF SpawnStored, NamesTheirs, SpawnsTheirs, SameMachines, PoolTypeOK
<1>3. \A t \in Slots : spawn'[t] = spawn[t] \/ spawn'[t].machine = NoWorker
  BY DEF SpawnStored, NoSpawn, PoolTypeOK
<1>4. QED
  BY <1>1, <1>2, <1>3, TheirsParts, ClaimsStayTheirs, SpawnsStayTheirs

\* A worker claims the draft its machine was created for.
LEMMA ClaimStaysTheirs ==
  ASSUME PoolTypeOK, QueueInv, MachinesAreTheirs, NEW m \in Workers, WorkerClaims(m)
  PROVE  MachinesAreTheirs'
<1>0. UNCHANGED <<machineId, spawn>>
  BY DEF WorkerClaims
<1>1. SameMachines
  <2>1. MachineMoves(m)
    BY MachineStepMoves DEF MachineStep
  <2>2. QED
    BY <2>1 DEF MachineMoves, SameMachines, PoolTypeOK
<1>2. ClaimsTheirs'
  <2>1. CASE Claimable(mach[m].draft)
    <3>1. ClaimJob(m, mach[m].draft, TRUE) /\ mach' = [mach EXCEPT ![m].state = "working"]
      BY <2>1 DEF WorkerClaims
    <3>2. mach[m].draft \in Drafts
      BY DEF PoolTypeOK
    <3>3. /\ claimedBy'[mach[m].draft] = m /\ UNCHANGED job
          /\ \A d \in Drafts \ {mach[m].draft} : claimedBy'[d] = claimedBy[d]
      BY <3>1, <3>2 DEF ClaimJob, QueueInv, TypeOK
    <3>4. mach'[m].state = "working"
      BY <3>1 DEF PoolTypeOK
    <3>5. QED
      BY <1>1, <3>2, <3>3, <3>4, TheirsParts DEF ClaimsTheirs, SameMachines
  <2>2. CASE ~Claimable(mach[m].draft)
    <3>1. UNCHANGED <<job, claimedBy>>
      BY <2>2 DEF WorkerClaims, vars
    <3>2. QED
      BY <1>1, <3>1, TheirsParts, ClaimsStayTheirs DEF NoNewClaims
  <2>3. QED
    BY <2>1, <2>2
<1>3. QED
  BY <1>0, <1>1, <1>2, TheirsParts, NamesStayTheirs, SpawnsStayTheirs

LEMMA PoolStepStaysTheirs ==
  ASSUME PoolTypeOK, QueueInv, QueueInv', MachinesAreTheirs, [PoolNext]_allVars
  PROVE  MachinesAreTheirs'
<1>1. ASSUME SameMachines, NoNewClaims,
             \A d \in Drafts : machineId'[d] \in {machineId[d], NoWorker},
             \A s \in Slots : spawn'[s] = spawn[s] \/ spawn'[s].machine = NoWorker
      PROVE  MachinesAreTheirs'
  BY <1>1, TheirsParts, ClaimsStayTheirs, NamesStayTheirs, SpawnsStayTheirs
<1>2. CASE Abandon \/ (\E d \in Drafts : ClaimExpires(d)) \/ Outage \/ UNCHANGED allVars
  <2>1. UNCHANGED <<machineId, mach, spawn>>
    BY <1>2 DEF Abandon, ClaimExpires, Outage, allVars, poolVars
  <2>2. NoNewClaims
    BY <1>2 DEF Abandon, AbandonDraft, ClaimExpires, Outage, BeatsExpire, allVars, vars, NoNewClaims,
                QueueInv, TypeOK
  <2>3. QED
    BY <1>1, <2>1, <2>2 DEF SameMachines
<1>3. ASSUME NEW s \in Slots, SpawnListed(s)
      PROVE  MachinesAreTheirs'
  <2>1. SameMachines /\ NoNewClaims /\ UNCHANGED machineId
    BY <1>3 DEF SpawnListed, SameMachines, NoNewClaims, vars
  <2>2. spawn[s].machine = NoWorker
    BY <1>3, TheirsParts DEF SpawnListed, SpawnsTheirs, PoolTypeOK
  <2>3. \A t \in Slots : spawn'[t] = spawn[t] \/ spawn'[t].machine = NoWorker
    BY <1>3, <2>2 DEF SpawnListed, PoolTypeOK
  <2>4. QED
    BY <1>1, <2>1, <2>3
<1>4. ASSUME NEW s \in Slots, SpawnFails(s)
      PROVE  MachinesAreTheirs'
  <2>1. SameMachines /\ NoNewClaims /\ UNCHANGED machineId
    BY <1>4 DEF SpawnFails, SameMachines, NoNewClaims, vars
  <2>2. \A t \in Slots : spawn'[t] = spawn[t] \/ spawn'[t].machine = NoWorker
    BY <1>4 DEF SpawnFails, NoSpawn, PoolTypeOK
  <2>3. QED
    BY <1>1, <2>1, <2>2
<1>5. ASSUME NEW t \in Ticks, TickStep(t)
      PROVE  MachinesAreTheirs'
  <2>1. NoNewClaims /\ UNCHANGED machineId
    BY <1>5 DEF TickStep, TickListed, TickQueued, TickSpawns, TickDone, NoNewClaims, vars
  <2>2. SameMachines
    <3>1. CASE TickQueued(t)
      BY <3>1 DEF TickQueued, SameMachines, PoolTypeOK
    <3>2. CASE TickListed(t) \/ TickSpawns(t) \/ TickDone(t)
      BY <3>2 DEF TickListed, TickSpawns, TickDone, SameMachines
    <3>3. QED
      BY <1>5, <3>1, <3>2 DEF TickStep
  <2>3. \A s \in Slots : spawn'[s] = spawn[s] \/ spawn'[s].machine = NoWorker
    BY <1>5 DEF TickStep, TickListed, TickQueued, TickSpawns, TickDone, Start, PoolTypeOK
  <2>4. QED
    BY <1>1, <2>1, <2>2, <2>3
<1>6. ASSUME NEW m \in Workers, MachineStep(m) \/ WorkerBeats(m) \/ WorkerStops(m), ~WorkerClaims(m)
      PROVE  MachinesAreTheirs'
  <2>1. SameMachines
    BY <1>6, MachineStepMoves DEF MachineMoves, SameMachines, PoolTypeOK
  <2>2. UNCHANGED spawn
    BY <1>6 DEF MachineStep, WorkerFinishes, WorkerQuits, Overstays, WorkerBeats, WorkerStops, poolVars
  <2>3. CASE WorkerFinishes(m)
    <3>1. mach[m].draft \in Drafts
      BY DEF PoolTypeOK
    <3>2. NoNewClaims
      BY <2>3, <3>1 DEF WorkerFinishes, FinishPass, NoNewClaims, QueueInv, TypeOK
    <3>3. \A d \in Drafts : machineId'[d] \in {machineId[d], NoWorker}
      BY <2>3, <3>1 DEF WorkerFinishes, PoolTypeOK
    <3>4. QED
      BY <1>1, <2>1, <2>2, <3>2, <3>3
  <2>4. CASE WorkerQuits(m) \/ Overstays(m) \/ WorkerStops(m) \/ WorkerBeats(m)
    <3>1. UNCHANGED <<machineId, job, claimedBy>>
      BY <2>4 DEF WorkerQuits, Overstays, WorkerStops, WorkerBeats, Heartbeat, poolVars, vars
    <3>2. QED
      BY <1>1, <2>1, <2>2, <3>1 DEF NoNewClaims
  <2>5. QED
    BY <1>6, <2>3, <2>4 DEF MachineStep
<1>7. QED
  BY <1>2, <1>3, <1>4, <1>5, <1>6, EnqueueStaysTheirs, CreatedStaysTheirs, StoredStaysTheirs,
     ClaimStaysTheirs DEF PoolNext, SpawnStep, MachineStep

\* A machine works on the draft it was created for and on no other, a row names
\* none but its own draft's, and no two spawns name one machine: what tick()
\* takes for "this draft's machine is alive" is that (spawn.ts).
THEOREM MachinesStayTheirs == PoolSpec => []MachinesAreTheirs
<1>1. PoolInit => MachinesAreTheirs
  BY DraftQueueAssumption DEF PoolInit, Init, MachinesAreTheirs, NoSpawn
<1>2. PoolTypeOK /\ QueueInv /\ QueueInv' /\ MachinesAreTheirs /\ [PoolNext]_allVars
        => MachinesAreTheirs'
  BY PoolStepStaysTheirs
<1>3. PoolSpec => []QueueInv
  BY PoolRunsTheQueue, QueueInvariant, PTL
<1>4. QED
  BY <1>1, <1>2, <1>3, PoolTyping, PTL DEF PoolSpec
=============================================================================
