-------------------------- MODULE RuntimeScheduler --------------------------
(***************************************************************************)
(* The scheduler of the Runtime Service: runDueSchedules() of              *)
(* runtime/server/service.ts and the schedules table of                    *)
(* runtime/server/repository.ts.                                           *)
(*                                                                         *)
(* A timer starts a run every second, whether or not earlier runs have     *)
(* ended.  A run reads the schedules that are due once and refreshes them  *)
(* one after the other through the coordinator they all share, where the   *)
(* newest refresh of a source outdates the others.  Clients refresh        *)
(* sources and edit schedules meanwhile.  What a refresh writes is the     *)
(* subject of RuntimeService; here it completes, whatever its result, or   *)
(* is superseded.                                                          *)
(*                                                                         *)
(* The names are apart from those of RuntimeService, so that one module    *)
(* can hold the proofs about both.                                         *)
(***************************************************************************)
EXTENDS Runtime, Naturals, Sequences, FiniteSets, Functions

CONSTANTS
    Runs,         \* slots for runs of the scheduler in progress
    Client,       \* the caller of a refresh that is not a run
    MaxTroubles   \* bound on client calls, restarts and failing statements

ASSUME CallersAssumption == Client \notin Runs /\ None \notin Runs \cup {Client}
ASSUME MaxTroublesAssumption == MaxTroubles \in Nat
ASSUME SourcesAssumption == IsFiniteSet(Sources)

VARIABLES
    schedule,  \* the row of a source, or none
    due,       \* next_run_at has been reached
    todo,      \* per run, the sources it still has to refresh
    stage,     \* per run, how far it is with the first of them
    caller,    \* the caller whose refresh of the source may still complete
    owed,      \* history: due, and no refresh has completed since
    troubles

schedulerVars == <<schedule, due, todo, stage, caller, owed, troubles>>

Row == {"none", "disabled", "enabled"}

SchedulerTypeOK ==
    /\ schedule \in [Sources -> Row]
    /\ due \in [Sources -> BOOLEAN]
    /\ todo \in [Runs -> Seq(Sources)]
    /\ stage \in [Runs -> {"idle", "preparing", "refreshing"}]
    /\ caller \in [Sources -> Runs \cup {Client, None}]
    /\ owed \in [Sources -> BOOLEAN]
    /\ troubles \in 0..MaxTroubles

SchedulerInit ==
    /\ schedule = [k \in Sources |-> "none"]
    /\ due = [k \in Sources |-> FALSE]
    /\ todo = [r \in Runs |-> <<>>]
    /\ stage = [r \in Runs |-> "idle"]
    /\ caller = [k \in Sources |-> None]
    /\ owed = [k \in Sources |-> FALSE]
    /\ troubles = 0

Trouble == troubles < MaxTroubles /\ troubles' = troubles + 1

-----------------------------------------------------------------------------
(* runDueSchedules()                                                       *)

DueSources == {k \in Sources : due[k] /\ schedule[k] = "enabled"}

\* The orders in which the sources of a set may come due.
Orders(S) ==
    {q \in [1..Cardinality(S) -> S] :
       \A i, j \in 1..Cardinality(S) : q[i] = q[j] => i = j}

\* Mutant of Tick: the schedules are marked when they are read.
TickMarking(r) ==
    /\ stage[r] = "idle"
    /\ DueSources # {}
    /\ \E q \in Orders(DueSources) : todo' = [todo EXCEPT ![r] = q]
    /\ stage' = [stage EXCEPT ![r] = "preparing"]
    /\ due' = [k \in Sources |-> due[k] /\ k \notin DueSources]
    /\ UNCHANGED <<schedule, caller, owed, troubles>>

\* The timer fires and dueSchedules() returns a list.  The configuration of
\* its first entry is hashed.
Tick(r) ==
    /\ stage[r] = "idle"
    /\ DueSources # {}
    /\ \E q \in Orders(DueSources) : todo' = [todo EXCEPT ![r] = q]
    /\ stage' = [stage EXCEPT ![r] = "preparing"]
    /\ UNCHANGED <<schedule, due, caller, owed, troubles>>

Current(r) == Head(todo[r])

\* The refresh of the first entry enters the coordinator, whatever became of
\* the schedule since the list was read.
BeginDue(r) ==
    /\ stage[r] = "preparing"
    /\ caller' = [caller EXCEPT ![Current(r)] = r]
    /\ stage' = [stage EXCEPT ![r] = "refreshing"]
    /\ UNCHANGED <<schedule, due, todo, owed, troubles>>

\* markScheduleRun() updates the row, if there still is one, and the run
\* turns to the next entry.
Mark(r) ==
    /\ due' = [due EXCEPT ![Current(r)] = FALSE]
    /\ todo' = [todo EXCEPT ![r] = Tail(@)]
    /\ stage' = [stage EXCEPT ![r] =
                   IF Len(todo[r]) = 1 THEN "idle" ELSE "preparing"]
    /\ UNCHANGED schedule

\* The refresh succeeds, fails or keeps an empty candidate.
Complete(r) ==
    /\ stage[r] = "refreshing"
    /\ caller[Current(r)] = r
    /\ caller' = [caller EXCEPT ![Current(r)] = None]
    /\ owed' = [owed EXCEPT ![Current(r)] = FALSE]
    /\ Mark(r)
    /\ UNCHANGED troubles

\* Mutant of Superseded: a superseded refresh is tried again.
SupersededRetrying(r) ==
    /\ stage[r] = "refreshing"
    /\ caller[Current(r)] # r
    /\ stage' = [stage EXCEPT ![r] = "preparing"]
    /\ UNCHANGED <<schedule, due, todo, caller, owed, troubles>>

\* The refresh finds itself outdated; the schedule is marked all the same.
Superseded(r) ==
    /\ stage[r] = "refreshing"
    /\ caller[Current(r)] # r
    /\ Mark(r)
    /\ UNCHANGED <<caller, owed, troubles>>

\* A statement throws: the rest of the list is dropped.  Before the refresh it
\* is readActive(), after it savePendingEmpty() or markScheduleRun().
Abort(r) ==
    /\ Trouble
    /\ stage[r] # "idle"
    /\ IF stage[r] = "refreshing" /\ caller[Current(r)] = r
         THEN /\ caller' = [caller EXCEPT ![Current(r)] = None]
              /\ owed' = [owed EXCEPT ![Current(r)] = FALSE]
         ELSE UNCHANGED <<caller, owed>>
    /\ todo' = [todo EXCEPT ![r] = <<>>]
    /\ stage' = [stage EXCEPT ![r] = "idle"]
    /\ UNCHANGED <<schedule, due>>

-----------------------------------------------------------------------------
(* Clients, the clock, restarts.                                           *)

\* POST subscriptions/fetch enters the coordinator, and completes later.
ClientRefresh(k) ==
    /\ Trouble
    /\ caller' = [caller EXCEPT ![k] = Client]
    /\ UNCHANGED <<schedule, due, todo, stage, owed>>

ClientDone(k) ==
    /\ caller[k] = Client
    /\ caller' = [caller EXCEPT ![k] = None]
    /\ owed' = [owed EXCEPT ![k] = FALSE]
    /\ UNCHANGED <<schedule, due, todo, stage, troubles>>

\* PUT schedule: the next run is one interval from now.
PutSchedule(k) ==
    /\ Trouble
    /\ \E row \in {"disabled", "enabled"} :
         schedule' = [schedule EXCEPT ![k] = row]
    /\ due' = [due EXCEPT ![k] = FALSE]
    /\ owed' = [owed EXCEPT ![k] = FALSE]
    /\ UNCHANGED <<todo, stage, caller>>

\* DELETE schedule
DeleteSchedule(k) ==
    /\ Trouble
    /\ schedule' = [schedule EXCEPT ![k] = "none"]
    /\ due' = [due EXCEPT ![k] = FALSE]
    /\ owed' = [owed EXCEPT ![k] = FALSE]
    /\ UNCHANGED <<todo, stage, caller>>

\* DELETE of the source: its schedule goes with its other rows, and its
\* refresh is cancelled.
ForgetSource(k) ==
    /\ Trouble
    /\ schedule' = [schedule EXCEPT ![k] = "none"]
    /\ due' = [due EXCEPT ![k] = FALSE]
    /\ owed' = [owed EXCEPT ![k] = FALSE]
    /\ caller' = [caller EXCEPT ![k] = None]
    /\ UNCHANGED <<todo, stage>>

\* An interval has passed since the schedule was marked.  Intervals are at
\* least 60 seconds and a fetch at most 12, so that the runs that had the
\* source on their lists are through with it.
Elapse(k) ==
    /\ schedule[k] # "none" /\ ~due[k]
    /\ \A r \in Runs : k \notin Range(todo[r])
    /\ due' = [due EXCEPT ![k] = TRUE]
    /\ owed' = [owed EXCEPT ![k] = (schedule[k] = "enabled")]
    /\ UNCHANGED <<schedule, todo, stage, caller, troubles>>

\* The process ends and starts again.
SchedulerRestart ==
    /\ Trouble
    /\ todo' = [r \in Runs |-> <<>>]
    /\ stage' = [r \in Runs |-> "idle"]
    /\ caller' = [k \in Sources |-> None]
    /\ UNCHANGED <<schedule, due, owed>>

-----------------------------------------------------------------------------
Run(r) == BeginDue(r) \/ Complete(r) \/ Superseded(r)

SchedulerNext ==
    \/ \E r \in Runs : Tick(r) \/ Run(r) \/ Abort(r)
    \/ \E k \in Sources :
         \/ ClientRefresh(k) \/ ClientDone(k) \/ Elapse(k)
         \/ PutSchedule(k) \/ DeleteSchedule(k) \/ ForgetSource(k)
    \/ SchedulerRestart

SchedulerSpec == SchedulerInit /\ [][SchedulerNext]_schedulerVars

\* The timer fires, refreshes end (a fetch has a deadline) and time passes.
Fairness ==
    /\ WF_schedulerVars(\E r \in Runs : Tick(r))
    /\ \A r \in Runs : WF_schedulerVars(Run(r))
    /\ \A k \in Sources : WF_schedulerVars(ClientDone(k)) /\ WF_schedulerVars(Elapse(k))

FairSpec == SchedulerSpec /\ Fairness
-----------------------------------------------------------------------------
\* A schedule is not taken off the due list for nothing: when a run marks it,
\* a refresh of its source has completed since it came due, or is under way
\* on behalf of another caller.  Only a client call sets a schedule aside.
MarkedWhenServed ==
    [][\A k \in Sources :
         due[k] /\ ~due'[k] /\ troubles' = troubles
         => ~owed'[k] \/ caller'[k] # None]_schedulerVars

\* Every schedule that comes due is served: runs that overlap and outdate
\* each other's refreshes do not do so for ever, also when statements fail,
\* clients interfere and the process restarts, each a bounded number of
\* times.
EveryDueScheduleIsServed ==
    \A k \in Sources : owed[k] ~> ~owed[k]
=============================================================================
