--------------------------------- MODULE Mesh ---------------------------------
(***************************************************************************)
(* The agent mesh: sessions of agents that share one SQLite file. Every    *)
(* command is a process (or a call of the MCP server) that reads the clock *)
(* first and then waits, up to busy_timeout, for its turn to write; what   *)
(* it writes is one transaction, with the time it has read.                *)
(*                                                                         *)
(* An agent that is told WON works on the resource or the task; it counts  *)
(* its lease from the moment it asked. Messages, ideas, events and the     *)
(* table of agents, which no lease depends on, are left out, and --force.  *)
(***************************************************************************)
EXTENDS Naturals

CONSTANTS
    Agent,
    NoAgent,
    Resource,
    Task,
    Nothing,
    Process,   \* commands under way at a time
    TTL,       \* the times a lease is asked for
    Liberties, \* what happens beside the intended use, see LibertyNames
    MaxTime,   \* bound: the clock
    MaxFence   \* bound: the fence of a resource

LibertyNames ==
    {"own_race",   \* an agent gives a command while another of its is under way
     "late_count", \* an agent counts its lease from the answer
     "recreate"}   \* task-create of a task that exists

Thing == Resource \cup Task

ASSUME MeshAssumption ==
    /\ NoAgent \notin Agent
    /\ Resource \cap Task = {}
    /\ TTL \subseteq Nat /\ MaxTime \in Nat /\ MaxFence \in Nat
    /\ Liberties \subseteq LibertyNames

VARIABLES
    time,
    claims, \* [Resource -> row of the table claims]
    tasks,  \* [Task -> row of the table tasks]
    calls,  \* [Process -> a command that has read the clock, or NoCall]
    relies, \* [Agent -> [Thing -> until when it takes the thing for its own]]
    fences  \* [Agent -> [Resource -> the fence it was told last]]

vars == <<time, claims, tasks, calls, relies, fences>>

OfClaims == {"claim", "release"}
OfTasks == {"task_create", "task_claim", "task_done"}
Upkeep == {"beat", "gc"}
Op == OfClaims \cup OfTasks \cup Upkeep \cup {"task_next"}
Leasing == {"claim", "task_claim", "task_next"}

\* What a command names
Names(op) ==
    IF op \in OfClaims THEN Resource ELSE IF op \in OfTasks THEN Task ELSE {Nothing}
Lengths(op) == IF op \in Leasing THEN TTL ELSE {0}

NoClaim == [owner |-> NoAgent, expires |-> 0, fence |-> 0, held |-> FALSE]
NewTask == [st |-> "pending", owner |-> NoAgent, expires |-> 0, result |-> NoAgent]
NoTask == [NewTask EXCEPT !.st = "none"]
NoCall == [op |-> "none"]

Init ==
    /\ time = 1
    /\ claims = [r \in Resource |-> NoClaim]
    /\ tasks = [t \in Task |-> NoTask]
    /\ calls = [p \in Process |-> NoCall]
    /\ relies = [a \in Agent |-> [x \in Thing |-> 0]]
    /\ fences = [a \in Agent |-> [r \in Resource |-> 0]]

Tick == time < MaxTime /\ time' = time + 1 /\ UNCHANGED <<claims, tasks, calls, relies, fences>>

(***************************************************************************)
(* A command starts: now_ms()                                              *)
(***************************************************************************)
UnderWay(a) == \E p \in Process : /\ calls[p] # NoCall /\ calls[p].agent = a
                                  /\ calls[p].op \notin Upkeep

\* Who gives a thing back or reports it done works on it no longer.
Asks(p, a, op, x, ttl) ==
    /\ calls[p] = NoCall
    /\ op \notin Upkeep /\ UnderWay(a) => "own_race" \in Liberties
    /\ calls' = [calls EXCEPT ![p] = [op |-> op, agent |-> a, on |-> x, now |-> time, ttl |-> ttl]]
    /\ relies' = IF op \in {"release", "task_done"} THEN [relies EXCEPT ![a][x] = 0] ELSE relies
    /\ UNCHANGED <<time, claims, tasks, fences>>

Runs(p, op) == calls[p].op = op /\ calls' = [calls EXCEPT ![p] = NoCall]

\* BUSY, an error, or the process is killed: nothing is written.
Fails(p) ==
    /\ calls[p] # NoCall
    /\ calls' = [calls EXCEPT ![p] = NoCall]
    /\ UNCHANGED <<time, claims, tasks, relies, fences>>

(***************************************************************************)
(* Leases on resources                                                     *)
(***************************************************************************)
Until(now, ttl) == (IF "late_count" \in Liberties THEN time ELSE now) + ttl

\* (mutant) A lease may be taken in the instant it ends.
TakeableAtItsEnd(row, a, now) == row.expires <= now \/ ~row.held \/ row.owner = a

\* ON CONFLICT ... WHERE
Takeable(row, a, now) == row.expires < now \/ ~row.held \/ row.owner = a

\* (mutant) A released row is written anew.
NextFenceAnew(row, a) ==
    IF ~row.held THEN 1 ELSE IF row.owner = a THEN row.fence ELSE row.fence + 1

NextFence(row, a) == IF row.owner = a THEN row.fence ELSE row.fence + 1

\* mesh claim: WON, or LOST and nothing changes.
Claim(p) ==
    LET a == calls[p].agent  r == calls[p].on
        now == calls[p].now  ttl == calls[p].ttl
        fence == NextFence(claims[r], a)
    IN  /\ Runs(p, "claim")
        /\ \/ /\ Takeable(claims[r], a, now)
              /\ fence <= MaxFence
              /\ claims' = [claims EXCEPT ![r] = [owner |-> a, expires |-> now + ttl,
                                                  fence |-> fence, held |-> TRUE]]
              /\ relies' = [relies EXCEPT ![a][r] = Until(now, ttl)]
              /\ fences' = [fences EXCEPT ![a][r] = fence]
           \/ /\ ~Takeable(claims[r], a, now)
              /\ UNCHANGED <<claims, relies, fences>>
        /\ UNCHANGED <<time, tasks>>

\* What is given up: rows of the table claims.
Releases(gone) ==
    /\ claims' = [r \in Resource |-> IF r \in gone THEN [claims[r] EXCEPT !.held = FALSE] ELSE claims[r]]
    /\ UNCHANGED <<time, tasks, relies, fences>>

Release(p) ==
    /\ Runs(p, "release")
    /\ Releases({r \in Resource : r = calls[p].on /\ claims[r].owner = calls[p].agent})

Expired(r, now) == claims[r].held /\ claims[r].expires < now

\* beat expires the claims of its agent, gc those of all.
Beat(p) ==
    /\ Runs(p, "beat")
    /\ Releases({r \in Resource : claims[r].owner = calls[p].agent /\ Expired(r, calls[p].now)})

Gc(p) == Runs(p, "gc") /\ Releases({r \in Resource : Expired(r, calls[p].now)})

(***************************************************************************)
(* Tasks                                                                   *)
(***************************************************************************)
\* INSERT OR REPLACE
TaskCreate(p) ==
    LET t == calls[p].on
    IN  /\ Runs(p, "task_create")
        /\ tasks[t].st # "none" => "recreate" \in Liberties
        /\ tasks' = [tasks EXCEPT ![t] = NewTask]
        /\ UNCHANGED <<time, claims, relies, fences>>

Takes(p, t) ==
    LET a == calls[p].agent  now == calls[p].now  ttl == calls[p].ttl
    IN  /\ tasks' = [tasks EXCEPT ![t].st = "in_progress", ![t].owner = a, ![t].expires = now + ttl]
        /\ relies' = [relies EXCEPT ![a][t] = Until(now, ttl)]

\* Nobody marks a task failed.
Open(t, now) ==
    \/ tasks[t].st = "pending"
    \/ tasks[t].st = "in_progress" /\ tasks[t].expires < now

TaskClaim(p) ==
    LET t == calls[p].on
    IN  /\ Runs(p, "task_claim")
        /\ \/ Open(t, calls[p].now) /\ Takes(p, t)
           \/ ~Open(t, calls[p].now) /\ UNCHANGED <<tasks, relies>>
        /\ UNCHANGED <<time, claims, fences>>

\* mesh_task_claim without an id: the oldest pending task, any here.
TaskNext(p) ==
    /\ Runs(p, "task_next")
    /\ \/ \E t \in Task : tasks[t].st = "pending" /\ Takes(p, t)
       \/ (\A t \in Task : tasks[t].st # "pending") /\ UNCHANGED <<tasks, relies>>
    /\ UNCHANGED <<time, claims, fences>>

\* (mutant) Whoever has worked on the task reports it done.
FinishesAnyway(row, a) == row.st = "in_progress"

\* The owner, whatever the status and however late.
Finishes(row, a) == row.owner = a

TaskDone(p) ==
    LET t == calls[p].on  a == calls[p].agent
    IN  /\ Runs(p, "task_done")
        /\ Finishes(tasks[t], a)
        /\ tasks' = [tasks EXCEPT ![t].st = "done", ![t].result = a]
        /\ UNCHANGED <<time, claims, relies, fences>>

\* "not owner or not found"
TaskNotDone(p) ==
    /\ Runs(p, "task_done")
    /\ ~Finishes(tasks[calls[p].on], calls[p].agent)
    /\ UNCHANGED <<time, claims, tasks, relies, fences>>

Next ==
    \/ Tick
    \/ \E p \in Process :
         \/ \E a \in Agent, op \in Op : \E x \in Names(op), ttl \in Lengths(op) : Asks(p, a, op, x, ttl)
         \/ Fails(p)
         \/ Claim(p) \/ Release(p) \/ Beat(p) \/ Gc(p)
         \/ TaskCreate(p) \/ TaskClaim(p) \/ TaskNext(p) \/ TaskDone(p) \/ TaskNotDone(p)

Spec == Init /\ [][Next]_vars

(***************************************************************************)
(* Properties                                                              *)
(***************************************************************************)
ClaimRow == [owner : Agent \cup {NoAgent}, expires : Nat, fence : Nat, held : BOOLEAN]
TaskRow == [st : {"none", "pending", "in_progress", "done"}, owner : Agent \cup {NoAgent},
            expires : Nat, result : Agent \cup {NoAgent}]
Call == [op : Op, agent : Agent, on : Thing \cup {Nothing}, now : Nat, ttl : TTL \cup {0}]

TypeOK ==
    /\ time \in Nat
    /\ claims \in [Resource -> ClaimRow]
    /\ tasks \in [Task -> TaskRow]
    /\ calls \in [Process -> Call \cup {NoCall}]
    /\ relies \in [Agent -> [Thing -> Nat]]
    /\ fences \in [Agent -> [Resource -> Nat]]

Works(a, x) == relies[a][x] >= time

\* Two agents never work on one resource or one task, though every command writes
\* by a clock that it read before it waited.
OneWorks == \A x \in Thing : \A a, b \in Agent : Works(a, x) /\ Works(b, x) => a = b

\* Who works on a resource has the largest fence: what refuses smaller fences
\* refuses every agent that overslept its lease.
ZombiesAreFenced ==
    \A r \in Resource : \A a, b \in Agent :
        Works(a, r) /\ a # b => fences[b][r] < fences[a][r]

\* A task that is done has the result of the agent it was given to last, and nobody
\* works on it.
DoneByOwner ==
    \A t \in Task : tasks[t].st = "done" =>
        /\ tasks[t].result = tasks[t].owner
        /\ \A a \in Agent : ~Works(a, t)
================================================================================
