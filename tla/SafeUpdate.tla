----------------------------- MODULE SafeUpdate -----------------------------
(***************************************************************************)
(* The update of the panel by the panel (panel_safe_update,                *)
(* scripts/panel_update_runner): the backend queues a job and starts a     *)
(* container for it; the runner in the container runs update.sh, which     *)
(* replaces that very backend.  What survives is the folder of the job,    *)
(* the Docker daemon and the lock that update.sh shares with SSH.          *)
(*                                                                         *)
(* The backend may die at any step, its requests to the daemon may take    *)
(* effect at any later time or never, whatever it was answered, and the    *)
(* runner may be stopped or killed.                                        *)
(***************************************************************************)
EXTENDS Integers, FiniteSets

CONSTANTS Jobs, NoJob,
          UpdateFaults    \* bound: crashes of the backend, stops and kills of a runner, updates by SSH

VARIABLES state,      \* of each job, in its state.json
          active,     \* active.json
          docker,     \* the daemon's container of each job
          inflight,   \* requests the daemon may still execute: [op, job]
          request,    \* the request that holds the queue lock: [pc, job]
          runner,     \* of each job's container: [pc, value], what it is about to write
          cli,        \* who holds update.sh's lock: a job, "ssh", or nobody
          deploy,     \* what became of each job's update.sh
          faults

updatevars == <<state, active, docker, inflight, request, runner, cli, deploy, faults>>

SSH == "ssh"
UpdateAssumption == NoJob \notin Jobs /\ SSH \notin Jobs /\ NoJob # SSH /\ UpdateFaults \in Nat
ASSUME UpdateAssumption

UpdateInit ==
    /\ state = [j \in Jobs |-> "none"]
    /\ active = NoJob
    /\ docker = [j \in Jobs |-> "none"]
    /\ inflight = {}
    /\ request = [pc |-> "idle", job |-> NoJob]
    /\ runner = [j \in Jobs |-> [pc |-> "none", value |-> "none"]]
    /\ cli = NoJob
    /\ deploy = [j \in Jobs |-> "no"]
    /\ faults = UpdateFaults

Mishap == faults > 0 /\ faults' = faults - 1
Ask(op, j) == [op |-> op, job |-> j]
Goes(pc, j) == request' = [pc |-> pc, job |-> j]
Ready == Goes("idle", NoJob)
Idle == request.pc = "idle"
At(pc, j) == request.pc = pc /\ request.job = j
Writes(j, s) == state' = [state EXCEPT ![j] = s]

\* The states a file keeps for good.  "not_started" is a failure before update.sh.
Final == {"completed", "failed", "not_started", "abandoned"}

\* Mutant of Shown: a container that never started counts as gone.
ShownGone(j) ==
    IF state[j] \in Final THEN state[j]
    ELSE IF state[j] = "interrupted" THEN "unknown"
    ELSE IF docker[j] = "running" THEN "running"
    ELSE IF state[j] = "queued" THEN "not_started" ELSE "unknown"

\* _status, of a job in the folder, by a daemon that answers.
Shown(j) ==
    IF state[j] \in Final THEN state[j]
    ELSE IF state[j] = "interrupted" THEN "unknown"
    ELSE IF docker[j] = "created" THEN "starting"
    ELSE IF docker[j] = "running" THEN "running"
    ELSE IF state[j] = "queued" THEN "not_started" ELSE "unknown"

-----------------------------------------------------------------------------
(* queue, one request under the queue lock *)

runnerVars == <<runner, cli, deploy>>

\* The folder, its frozen inputs and its first state.
Prepares(j) == state[j] = "none" /\ Writes(j, "queued")

CliFree == cli = NoJob

Queue(j) ==
    /\ Idle /\ CliFree
    /\ active # NoJob => Shown(active) \in Final
    /\ Prepares(j) /\ Goes("prepared", j)
    /\ UNCHANGED <<active, docker, inflight, runnerVars, faults>>

Activate(j) ==
    /\ At("prepared", j) /\ active' = j /\ Goes("active", j)
    /\ UNCHANGED <<state, docker, inflight, runnerVars, faults>>

\* The request holds the queue lock until the daemon answers or times out.
Asks(j, from, op, to) ==
    /\ At(from, j) /\ inflight' = inflight \cup {Ask(op, j)} /\ Goes(to, j)
    /\ UNCHANGED <<state, active, docker, runnerVars, faults>>

AskCreate(j) == Asks(j, "active", "create", "creating")

\* The container has an id, from the answer or by its label.
AskStart(j) == docker[j] = "created" /\ Asks(j, "creating", "start", "starting")

\* The daemon refused, and no container has the label.
CreateRefused(j) ==
    /\ At("creating", j) /\ docker[j] = "none"
    /\ inflight' = inflight \ {Ask("create", j)} /\ Writes(j, "not_started") /\ Ready
    /\ UNCHANGED <<active, docker, runnerVars, faults>>

\* No answer and no container yet; or the container is running by now, or has run.
Returns(j) ==
    /\ \/ At("creating", j) /\ docker[j] = "none"
       \/ At("starting", j) /\ docker[j] # "created"
       \/ At("removing", j) /\ docker[j] # "gone"
    /\ Ready
    /\ UNCHANGED <<state, active, docker, inflight, runnerVars, faults>>

\* Mutant of StartUnanswered: a start that was not confirmed has failed.
StartUnansweredFailed(j) ==
    /\ At("starting", j) /\ docker[j] = "created" /\ Writes(j, "not_started") /\ Ready
    /\ UNCHANGED <<active, docker, inflight, runnerVars, faults>>

\* The start was not confirmed and the container has not started: remove it.
StartUnanswered(j) == docker[j] = "created" /\ Asks(j, "starting", "remove", "removing")

\* _not_started: whether queue or resolve removed it.
NotStarted(j) ==
    /\ At("removing", j) /\ docker[j] = "gone" /\ Writes(j, "not_started") /\ Ready
    /\ UNCHANGED <<active, docker, inflight, runnerVars, faults>>

-----------------------------------------------------------------------------
(* resolve, by the operator *)

ResolveStarting(j) ==
    /\ Idle /\ active = j /\ Shown(j) = "starting"
    /\ inflight' = inflight \cup {Ask("remove", j)} /\ Goes("removing", j)
    /\ UNCHANGED <<state, active, docker, runnerVars, faults>>

ResolveUnknown(j) ==
    /\ Idle /\ active = j /\ Shown(j) = "unknown" /\ CliFree
    /\ Writes(j, "abandoned")
    /\ UNCHANGED <<active, docker, inflight, request, runnerVars, faults>>

-----------------------------------------------------------------------------
(* The daemon *)

Executes(op, j, from, to) ==
    /\ Ask(op, j) \in inflight /\ docker[j] = from
    /\ inflight' = inflight \ {Ask(op, j)}
    /\ docker' = [docker EXCEPT ![j] = to]

Creates(j) == Executes("create", j, "none", "created")
              /\ UNCHANGED <<state, active, request, runnerVars, faults>>

Starts(j) == Executes("start", j, "created", "running")
             /\ runner' = [runner EXCEPT ![j].pc = "boot"]
             /\ UNCHANGED <<state, active, request, cli, deploy, faults>>

\* Mutant of Removes: DELETE with force.
RemovesByForce(j) ==
    /\ \E from \in {"created", "running"} : Executes("remove", j, from, "gone")
    /\ UNCHANGED <<state, active, request, runnerVars, faults>>

\* Without force: a container that is running by now is kept.
Removes(j) == Executes("remove", j, "created", "gone")
              /\ UNCHANGED <<state, active, request, runnerVars, faults>>

\* It came too late, or never arrived.
Drops(m) == /\ m \in inflight /\ inflight' = inflight \ {m}
            /\ UNCHANGED <<state, active, docker, request, runnerVars, faults>>

-----------------------------------------------------------------------------
(* panel_update_runner.run *)

Steps(j, from, to) == runner[j].pc = from /\ runner' = [runner EXCEPT ![j].pc = to]
Ends(j, value) == runner' = [runner EXCEPT ![j] = [pc |-> "ending", value |-> value]]
Became(j, what) == deploy' = [deploy EXCEPT ![j] = what]
\* Its process group is gone, and the lock with it.
Releases(j) == cli' = IF cli = j THEN NoJob ELSE cli
daemonVars == <<active, docker, inflight, request>>

\* Timing: between the two calls of a removal, which read that a container has
\* not started and ask for its removal, it is not started and run to its end.
NotWithinARemoval(j) == ~At("removing", j)

VerifyFails(j) == /\ runner[j].pc = "boot" /\ Ends(j, "failed")
                  /\ UNCHANGED <<state, daemonVars, cli, deploy, faults>>

\* Mutant of Verified: "running" is written when a stage is reported.
VerifiedUnwritten(j) == Steps(j, "boot", "ready")
                        /\ UNCHANGED <<state, daemonVars, cli, deploy, faults>>

Verified(j) == Steps(j, "boot", "ready") /\ Writes(j, "running")
               /\ UNCHANGED <<daemonVars, cli, deploy, faults>>

Spawn(j) == Steps(j, "ready", "deploying") /\ Became(j, "going")
            /\ UNCHANGED <<state, daemonVars, cli, faults>>

TakeLock(j) == /\ runner[j].pc = "deploying" /\ CliFree /\ cli' = j
               /\ UNCHANGED <<state, daemonVars, runner, deploy, faults>>

\* update.sh stops itself: the lock is held, or one of its checks.
DeployStops(j) == /\ runner[j].pc = "deploying" /\ Ends(j, "failed")
                  /\ Became(j, "stopped") /\ Releases(j)
                  /\ UNCHANGED <<state, daemonVars, faults>>

\* It recreates the backend, and the request in it is gone.
ReplacesBackend(j) == /\ cli = j /\ ~Idle /\ Ready
                      /\ UNCHANGED <<state, active, docker, inflight, runnerVars, faults>>

Deployed(j) == /\ runner[j].pc = "deploying" /\ cli = j /\ Idle
               /\ Ends(j, "completed") /\ Became(j, "done") /\ Releases(j)
               /\ UNCHANGED <<state, daemonVars, faults>>

\* Mutant of Stopped: a run that was stopped has failed.
StoppedIsFailed(j) ==
    /\ runner[j].pc \in {"boot", "ready", "deploying"} /\ Mishap
    /\ Ends(j, "failed")
    /\ IF runner[j].pc = "deploying" THEN Became(j, "cut") ELSE UNCHANGED deploy
    /\ Releases(j)
    /\ UNCHANGED <<state, daemonVars>>

\* SIGTERM, or the deadline: the whole group of update.sh is stopped.
Stopped(j) ==
    /\ runner[j].pc \in {"boot", "ready", "deploying"} /\ Mishap
    /\ IF runner[j].pc = "deploying" THEN Ends(j, "interrupted") /\ Became(j, "cut")
       ELSE Ends(j, "failed") /\ UNCHANGED deploy
    /\ Releases(j)
    /\ UNCHANGED <<state, daemonVars>>

\* The container ends and is removed by itself (AutoRemove).
Gone(j) == /\ NotWithinARemoval(j)
           /\ runner' = [runner EXCEPT ![j] = [pc |-> "gone", value |-> "none"]]
           /\ docker' = [docker EXCEPT ![j] = "gone"]

Finish(j) == /\ runner[j].pc = "ending" /\ Writes(j, runner[j].value) /\ Gone(j)
             /\ UNCHANGED <<active, inflight, request, cli, deploy, faults>>

\* Killed, or refused by the bootstrap: nothing is written.
Killed(j) == /\ runner[j].pc \notin {"none", "gone"} /\ Mishap /\ Gone(j) /\ Releases(j)
             /\ IF runner[j].pc = "deploying" THEN Became(j, "cut") ELSE UNCHANGED deploy
             /\ UNCHANGED <<state, active, inflight, request>>

-----------------------------------------------------------------------------
(* The world *)

BackendDies == /\ ~Idle /\ Mishap /\ Ready
               /\ UNCHANGED <<state, active, docker, inflight, runnerVars>>

SSHStarts == /\ CliFree /\ Mishap /\ cli' = SSH
             /\ UNCHANGED <<state, daemonVars, runner, deploy>>

\* It recreates the backend too.
SSHEnds == /\ cli = SSH /\ cli' = NoJob /\ Ready
           /\ UNCHANGED <<state, active, docker, inflight, runner, deploy, faults>>

UpdateNext ==
    \/ \E j \in Jobs :
          \/ Queue(j) \/ Activate(j) \/ AskCreate(j) \/ AskStart(j) \/ CreateRefused(j)
          \/ Returns(j) \/ StartUnanswered(j) \/ NotStarted(j)
          \/ ResolveStarting(j) \/ ResolveUnknown(j)
          \/ Creates(j) \/ Starts(j) \/ Removes(j)
          \/ VerifyFails(j) \/ Verified(j) \/ Spawn(j) \/ TakeLock(j) \/ DeployStops(j)
          \/ ReplacesBackend(j) \/ Deployed(j) \/ Stopped(j) \/ Finish(j) \/ Killed(j)
    \/ \E m \in inflight : Drops(m)
    \/ BackendDies \/ SSHStarts \/ SSHEnds

UpdateSpec == UpdateInit /\ [][UpdateNext]_updatevars

-----------------------------------------------------------------------------
(* Properties *)

UpdateTypeOK ==
    /\ state \in [Jobs -> Final \cup {"none", "queued", "running", "interrupted"}]
    /\ active \in Jobs \cup {NoJob}
    /\ docker \in [Jobs -> {"none", "created", "running", "gone"}]
    /\ inflight \subseteq [op : {"create", "start", "remove"}, job : Jobs]
    /\ request \in [pc : {"idle", "prepared", "active", "creating", "starting", "removing"},
                    job : Jobs \cup {NoJob}]
    /\ runner \in [Jobs -> [pc : {"none", "boot", "ready", "deploying", "ending", "gone"},
                            value : {"none", "failed", "completed", "interrupted"}]]
    /\ cli \in Jobs \cup {NoJob, SSH}
    /\ deploy \in [Jobs -> {"no", "going", "cut", "stopped", "done"}]
    /\ faults \in 0..UpdateFaults

MayRun(j) == \/ docker[j] = "running"
             \/ docker[j] = "created" /\ Ask("start", j) \in inflight

\* A result that is shown is final: what has it does not run and can no longer
\* start, and what may run is the active job (panel_safe_update:7-12).
ShownIsOver == \A j \in Jobs :
    MayRun(j) => active = j /\ Shown(j) \notin Final

\* A result that is shown is true: "not started" and "failed" mean that the
\* deployment was not cut in the middle, "completed" that it came to its end
\* (panel_safe_update:304-307, panel_update_runner:13-16).
ShownIsTrue == \A j \in Jobs : state[j] # "none" =>
    /\ Shown(j) = "not_started" => deploy[j] = "no"
    /\ Shown(j) = "failed" => deploy[j] \in {"no", "stopped"}
    /\ Shown(j) = "completed" => deploy[j] = "done"

\* The invariant of the updates.
UpdateInv == UpdateTypeOK /\ ShownIsOver /\ ShownIsTrue

=============================================================================
