--------------------------- MODULE IntakeWorkers ---------------------------
(***************************************************************************)
(* The draft queue run by its workers: one machine per job, created        *)
(* through the machines API by the request that enqueued the job or by the *)
(* minute tick, each running one worker that claims its draft, works,      *)
(* finishes and exits (src/intake/spawn.ts, worker/src/main.ts).           *)
(*                                                                         *)
(* A spawn awaits the machine list, then the creation, then stores the id: *)
(* every await is a step others come between.  The machines API and the    *)
(* machines themselves are outside the repository; what they do here is    *)
(* what spawn.ts and main.ts rely on.  A worker's id is its machine's slot;*)
(* a slot is given to a new machine once the old one cannot act any more.  *)
(***************************************************************************)
EXTENDS DraftQueue

CONSTANTS MaxMachines,   \* INTAKE_MAX_MACHINES
          MaxTicks,      \* bound: ticks under way at once
          MaxMishaps     \* bound: crashes, hangs, API errors, ticks held up, outages

VARIABLES machineId,   \* per draft: machine_id, NoWorker for null
          mach,        \* per machine slot: state and the DRAFT_ID it was given
          spawn,       \* spawns in flight: one per request path, one per tick
          tick,        \* the minute ticks: step, machines listed, work list
          mishaps      \* mishaps so far

poolVars == <<machineId, mach, spawn, tick, mishaps>>
allVars == <<vars, poolVars>>

Ticks == 1 .. MaxTicks
TickSlot(t) == MaxDrafts + t
Slots == Drafts \cup {TickSlot(t) : t \in Ticks}
MachineStates == {"gone", "booting", "working", "hung", "overstayed"}
NoSpawn == [at |-> "idle", draft |-> 1, machine |-> NoWorker]
IdleTick == [at |-> "idle", seen |-> {}, todo |-> {}]

\* Workers are machine slots, numbered.
ASSUME PoolAssumption ==
  /\ MaxMachines \in Nat \ {0} /\ MaxTicks \in Nat \ {0} /\ MaxMishaps \in Nat
  /\ Workers \subseteq Nat /\ MaxDrafts # 0

PoolInit ==
  /\ Init
  /\ machineId = [d \in Drafts |-> NoWorker]
  /\ mach = [m \in Workers |-> [state |-> "gone", draft |-> 1]]
  /\ spawn = [s \in Slots |-> NoSpawn]
  /\ tick = [t \in Ticks |-> IdleTick]
  /\ mishaps = 0

-----------------------------------------------------------------------------
\* LIVE_STATES: what the machines API still counts.
Live == {m \in Workers : mach[m].state # "gone"}

\* A slot a new machine may take: its last one is gone, holds no job's claim and
\* was not listed by a tick under way.
Fresh(m) == /\ mach[m].state = "gone"
            /\ \A d \in Drafts : claimedBy[d] = m => job[d] = "none"
            /\ \A s \in Slots : spawn[s].machine # m
            /\ \A t \in Ticks : m \notin tick[t].seen

\* Mutated form: a job at the cap or a failed spawn is left to its request.
PendingOnlyStale == {d \in Drafts : Claimable(d) /\ beat[d] = "stale"}

\* pendingJobs.
Pending == {d \in Drafts : Claimable(d)}

\* A spawn begins by asking for the list of machines.
Start(s, d) == [spawn EXCEPT ![s] = [at |-> "list", draft |-> d, machine |-> NoWorker]]

Mishap == mishaps < MaxMishaps /\ mishaps' = mishaps + 1
HeldUp == 2   \* bound: what a tick held up counts for

-----------------------------------------------------------------------------
(* The requests that enqueue a job start a spawn and do not wait for it.   *)

EnqueueAndSpawn ==
  \E u \in Contributors, d \in Drafts :
    /\ spawn[d].at = "idle"                              \* bound: one per draft
    /\ \/ CreateDraft(u) /\ status[d] = "none" /\ status'[d] = "queued"
       \/ EnqueueChat(u, d)
       \/ \E focus \in BOOLEAN : EnqueueContinue(u, d, focus)
    /\ spawn' = Start(d, d)
    /\ UNCHANGED <<machineId, mach, tick, mishaps>>

Abandon ==
  /\ \E u \in Contributors, d \in Drafts : status[d] # "abandoned" /\ AbandonDraft(u, d)
  /\ UNCHANGED poolVars

-----------------------------------------------------------------------------
(* spawn().                                                                *)

\* Mutated form: the list is not compared with the cap.
SpawnListedUncapped(s) ==
  /\ spawn[s].at = "list"
  /\ spawn' = [spawn EXCEPT ![s].at = "create"]
  /\ UNCHANGED <<vars, machineId, mach, tick, mishaps>>

\* The list is in: at the cap the draft waits for the next tick.
SpawnListed(s) ==
  /\ spawn[s].at = "list"
  /\ spawn' = [spawn EXCEPT ![s].at =
                 IF Cardinality(Live) >= MaxMachines THEN "idle" ELSE "create"]
  /\ UNCHANGED <<vars, machineId, mach, tick, mishaps>>

\* The API creates the machine; the answer is on its way.  A row that still
\* names the slot's last machine names one that is gone: it reads like null.
SpawnCreated(s) ==
  /\ spawn[s].at = "create"
  /\ \E m \in Workers :
       /\ Fresh(m) /\ \A n \in Workers : n < m => ~Fresh(n)
       /\ mach' = [mach EXCEPT ![m] = [state |-> "booting", draft |-> spawn[s].draft]]
       /\ spawn' = [spawn EXCEPT ![s].at = "store", ![s].machine = m]
       /\ machineId' = [d \in Drafts |-> IF machineId[d] = m THEN NoWorker ELSE machineId[d]]
  /\ UNCHANGED <<vars, tick, mishaps>>

\* setMachineId: whatever the draft has become meanwhile.
SpawnStored(s) ==
  /\ spawn[s].at = "store"
  /\ machineId' = [machineId EXCEPT ![spawn[s].draft] = spawn[s].machine]
  /\ spawn' = [spawn EXCEPT ![s] = NoSpawn]
  /\ UNCHANGED <<vars, mach, tick, mishaps>>

\* A call fails; a created machine whose answer is lost stays, unknown.
SpawnFails(s) ==
  /\ spawn[s].at # "idle"
  /\ Mishap
  /\ spawn' = [spawn EXCEPT ![s] = NoSpawn]
  /\ UNCHANGED <<vars, machineId, mach, tick>>

-----------------------------------------------------------------------------
(* tick(), once a minute, whether the last one is done or not.             *)

\* A tick finds the one before still under way only if the API holds that up.
TickListed(t) ==
  LET busy == {u \in Ticks : tick[u].at # "idle"}
  IN  /\ tick[t].at = "idle" /\ \A u \in Ticks : u < t => u \in busy
      /\ Pending # {} \/ \E m \in Workers : mach[m].state = "overstayed"
      /\ IF busy = {} THEN UNCHANGED mishaps
         ELSE mishaps + HeldUp <= MaxMishaps /\ mishaps' = mishaps + HeldUp
      /\ tick' = [tick EXCEPT ![t] = [at |-> "queue", seen |-> Live, todo |-> {}]]
      /\ UNCHANGED <<vars, machineId, mach, spawn>>

\* Mutated form: once a machine was named, the job is taken care of.
RespawnUnnamed(live) == {d \in Pending : machineId[d] = NoWorker}

\* Pending jobs whose machine is not among those just seen alive.
Respawn(live) == {d \in Pending : machineId[d] \notin live}

\* Mutated form: nothing is destroyed.
TickQueuedNotReaping(t) ==
  /\ tick[t].at = "queue"
  /\ tick' = [tick EXCEPT ![t] = [at |-> "spawn", seen |-> {}, todo |-> Respawn(tick[t].seen)]]
  /\ UNCHANGED <<vars, machineId, mach, spawn, mishaps>>

\* Overstaying machines are destroyed; then every pending job without a live
\* machine is due a spawn.  Destroying one that is gone already fails.
TickQueued(t) ==
  /\ tick[t].at = "queue"
  /\ LET reaped == {m \in tick[t].seen : mach[m].state = "overstayed"}
     IN  /\ mach' = [m \in Workers |-> IF m \in reaped
                                       THEN [mach[m] EXCEPT !.state = "gone"] ELSE mach[m]]
         /\ tick' = [tick EXCEPT ![t] = [at |-> "spawn", seen |-> {},
                                         todo |-> Respawn(tick[t].seen \ reaped)]]
  /\ UNCHANGED <<vars, machineId, spawn, mishaps>>

\* One spawn after another, the oldest draft first, each awaited.
TickSpawns(t) ==
  /\ tick[t].at = "spawn"
  /\ spawn[TickSlot(t)].at = "idle"
  /\ \E d \in tick[t].todo :
       /\ \A e \in tick[t].todo : d <= e
       /\ spawn' = Start(TickSlot(t), d)
       /\ tick' = [tick EXCEPT ![t].todo = @ \ {d}]
  /\ UNCHANGED <<vars, machineId, mach, mishaps>>

TickDone(t) ==
  /\ tick[t].at = "spawn"
  /\ spawn[TickSlot(t)].at = "idle"
  /\ tick[t].todo = {}
  /\ tick' = [tick EXCEPT ![t] = IdleTick]
  /\ UNCHANGED <<vars, machineId, mach, spawn, mishaps>>

-----------------------------------------------------------------------------
(* The worker of one machine (main.ts, one-shot).                          *)

Exit(m) == mach' = [mach EXCEPT ![m].state = "gone"]

\* Mutated form: DRAFT_ID is not passed on, the oldest job is claimed.
WorkerClaimsOldest(m) ==
  /\ mach[m].state = "booting"
  /\ IF Pending # {}
     THEN /\ \E d \in Pending : ClaimJob(m, d, FALSE)
          /\ mach' = [mach EXCEPT ![m].state = "working"]
     ELSE Exit(m) /\ UNCHANGED vars
  /\ UNCHANGED <<machineId, spawn, tick, mishaps>>

\* Nothing to claim (409): exit.
WorkerClaims(m) ==
  /\ mach[m].state = "booting"
  /\ IF Claimable(mach[m].draft)
     THEN /\ ClaimJob(m, mach[m].draft, TRUE)
          /\ mach' = [mach EXCEPT ![m].state = "working"]
     ELSE Exit(m) /\ UNCHANGED vars
  /\ UNCHANGED <<machineId, spawn, tick, mishaps>>

WorkerBeats(m) ==
  /\ mach[m].state = "working"
  /\ beat[mach[m].draft] = "stale"
  /\ Heartbeat(m, mach[m].draft)
  /\ UNCHANGED poolVars

\* The pass ends, by itself or at its time limit, and is reported.
WorkerFinishes(m) ==
  /\ mach[m].state = "working"
  /\ \E error \in BOOLEAN, cost \in 0 .. MaxCost :
       FinishPass(m, mach[m].draft, error, cost)
  /\ machineId' = [machineId EXCEPT ![mach[m].draft] = NoWorker]
  /\ Exit(m)
  /\ UNCHANGED <<spawn, tick, mishaps>>

\* The claim is gone (abandoned or taken over): the report is refused, exit.
WorkerQuits(m) ==
  /\ mach[m].state = "working"
  /\ ~Claimed(m, mach[m].draft)
  /\ Exit(m)
  /\ UNCHANGED <<vars, machineId, spawn, tick, mishaps>>

\* The process dies and the machine with it, or neither does and nothing moves.
WorkerStops(m) ==
  /\ mach[m].state \in {"booting", "working"}
  /\ Mishap
  /\ \E s \in {"gone", "hung"} : mach' = [mach EXCEPT ![m].state = s]
  /\ UNCHANGED <<vars, machineId, spawn, tick>>

-----------------------------------------------------------------------------
(* Time.                                                                   *)

\* Only a silent worker's claim expires: a live one beats every 30 s, the
\* claim lasts 20 min.
ClaimExpires(d) ==
  /\ claimedBy[d] \in Workers => mach[claimedBy[d]].state # "working"
  /\ job[d] # "none"
  /\ BeatsExpire({d})
  /\ UNCHANGED poolVars

\* The app is away for longer than a claim lasts: every beat is missed.
Outage ==
  /\ Mishap
  /\ \E d \in Drafts : beat[d] = "fresh" /\ job[d] # "none"
  /\ BeatsExpire({d \in Drafts : beat[d] = "fresh"})
  /\ UNCHANGED <<machineId, mach, spawn, tick>>

\* INTAKE_HARD_TIMEOUT_S + 300 goes by on a machine that does nothing.
Overstays(m) ==
  /\ mach[m].state = "hung"
  /\ mach' = [mach EXCEPT ![m].state = "overstayed"]
  /\ UNCHANGED <<vars, machineId, spawn, tick, mishaps>>

-----------------------------------------------------------------------------
SpawnStep(s) == SpawnListed(s) \/ SpawnCreated(s) \/ SpawnStored(s)
TickStep(t) == TickListed(t) \/ TickQueued(t) \/ TickSpawns(t) \/ TickDone(t)
MachineStep(m) == WorkerClaims(m) \/ WorkerFinishes(m) \/ WorkerQuits(m) \/ Overstays(m)

PoolNext ==
  \/ EnqueueAndSpawn
  \/ Abandon
  \/ \E s \in Slots : SpawnStep(s) \/ SpawnFails(s)
  \/ \E t \in Ticks : TickStep(t)
  \/ \E m \in Workers : MachineStep(m) \/ WorkerBeats(m) \/ WorkerStops(m)
  \/ \E d \in Drafts : ClaimExpires(d)
  \/ Outage

\* The calls the app awaits are answered, the interval fires, a live worker
\* gets on with its pass, and time passes.
Fairness ==
  /\ \A s \in Slots : WF_allVars(SpawnStep(s))
  /\ \A t \in Ticks : WF_allVars(TickStep(t))
  /\ \A m \in Workers : WF_allVars(MachineStep(m))
  /\ \A d \in Drafts : WF_allVars(ClaimExpires(d))

PoolSpec == PoolInit /\ [][PoolNext]_allVars /\ Fairness

-----------------------------------------------------------------------------
\* The shape of the machines and of what is in flight about them.
PoolTypeOK ==
  /\ machineId \in [Drafts -> Workers \cup {NoWorker}]
  /\ mach \in [Workers -> [state : MachineStates, draft : Drafts]]
  /\ spawn \in [Slots -> [at : {"idle", "list", "create", "store"}, draft : Drafts,
                          machine : Workers \cup {NoWorker}]]
  /\ tick \in [Ticks -> [at : {"idle", "queue", "spawn"}, seen : SUBSET Workers, todo : SUBSET Drafts]]
  /\ mishaps \in 0 .. MaxMishaps

\* A job ends: a claim whose worker died, hung or was cut off is taken over, so
\* no draft stays "running" and closed to its contributor for ever.
JobsEnd == \A d \in Drafts : job[d] # "none" ~> job[d] = "none"

\* "Nothing idles": every machine goes, the duplicate one, the one whose draft
\* was abandoned and the one that hung included.
MachinesGo == \A m \in Workers : m \in Live ~> m \notin Live

\* Machines being created: each passed the check of the cap when it listed.
Ordered == {s \in Slots : spawn[s].at = "create"}

\* How far the cap can be passed: every spawn in flight may have listed before
\* the others created theirs, so all of them but one may come on top of it.
\* None is added while the cap is reached (spawn.ts: the list, then the create).
MachinesBounded ==
  Cardinality(Live) + Cardinality(Ordered) <= MaxMachines + Cardinality(Slots) - 1

\* A machine is its draft's: it holds a claim on no draft but the one it was
\* created for, and none before it has claimed; a row names, and a spawn will
\* store, only a machine of that draft; and a machine is named once.  A tick
\* may therefore take the named machine for the draft's own.
MachinesAreTheirs ==
  /\ \A d \in Drafts, m \in Workers :
       job[d] # "none" /\ claimedBy[d] = m => mach[m].draft = d /\ mach[m].state # "booting"
  /\ \A d \in Drafts, m \in Workers : machineId[d] = m => mach[m].draft = d
  /\ \A s \in Slots, m \in Workers :
       spawn[s].machine = m => /\ spawn[s].at = "store" /\ mach[m].draft = spawn[s].draft
                               /\ \A t \in Slots \ {s} : spawn[t].machine # m

\* "if live machines >= INTAKE_MAX_MACHINES: return".
MachineCapHolds == Cardinality(Live) <= MaxMachines
=============================================================================
