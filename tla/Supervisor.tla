-------------------------------- MODULE Supervisor --------------------------------
(***************************************************************************)
(* The supervisor process (uniwm/src/main.c, run_supervisor) and the       *)
(* worker processes it spawns, waits for and restarts                      *)
(* (uniwm/src/proc_win.c).                                                 *)
(*                                                                         *)
(* A worker runs until its script fails, its script asks for nothing that  *)
(* needs the loop, or it crashes: it may exit whenever it runs.  Workers   *)
(* belong to a job that dies with the supervisor.  The command line and    *)
(* the exit code are left out.  Time is counted in units that divide both  *)
(* delays.                                                                 *)
(***************************************************************************)
EXTENDS Integers

CONSTANTS
  Pid,           \* the processes there may be at once
  NoPid,
  MinHealthy,    \* SUPERVISOR_MIN_HEALTHY_MS
  RestartDelay,  \* SUPERVISOR_RESTART_DELAY_MS
  Faults         \* what may fail

FaultKind == {"spawn", "job", "assign", "resume", "alloc", "terminate", "wait", "kill"}

ASSUME PidAssumption   == NoPid \notin Pid
ASSUME DelayAssumption ==
  RestartDelay \in Nat \ {0} /\ MinHealthy \in Nat /\ RestartDelay <= MinHealthy
ASSUME FaultAssumption == Faults \subseteq FaultKind

VARIABLES
  restart,  \* --restart was given
  pc,       \* where the supervisor is
  child,    \* the process it is starting or waiting for
  held,     \* the processes it has open handles of
  job,      \* ensure_job's job
  jobbed,   \* the processes in the job
  proc,     \* the workers
  ran,      \* time since the last start, up to MinHealthy
  left      \* time left to sleep

vars == <<restart, pc, child, held, job, jobbed, proc, ran, left>>

Place == {"start", "spawn", "create", "assign", "resume", "alloc", "wait", "close", "sleep",
          "return", "gone"}

\* The type invariant: from CreateProcess to wm_proc_close the supervisor has the
\* handles of the process it works on.
TypeOK ==
  /\ restart \in BOOLEAN
  /\ pc \in Place
  /\ child \in Pid \cup {NoPid}
  /\ held \subseteq Pid
  /\ pc \in {"assign", "resume", "alloc", "wait", "close"} => child \in held
  /\ job \in {"untried", "none", "open"}
  /\ jobbed \subseteq Pid
  /\ proc \in [Pid -> {"none", "suspended", "running", "exited"}]
  /\ ran \in 0 .. MinHealthy
  /\ left \in 0 .. RestartDelay

MayFail(fault) == IF fault \in Faults THEN BOOLEAN ELSE {FALSE}

Running == {p \in Pid : proc[p] = "running"}

-----------------------------------------------------------------------------
(* wm_proc_spawn_self.                                                      *)

Start ==
  /\ pc = "start"
  /\ ran' = 0
  /\ pc' = "spawn"
  /\ UNCHANGED <<restart, child, held, job, jobbed, proc, left>>

SpawnFails ==
  /\ pc' = IF restart THEN "sleep" ELSE "return"
  /\ left' = IF restart THEN RestartDelay ELSE left

\* The path of the executable and the command line, then ensure_job, which tries once.
Prepare ==
  /\ pc = "spawn"
  /\ \/ /\ TRUE \in MayFail("spawn")
        /\ SpawnFails
        /\ UNCHANGED job
     \/ /\ \E failed \in MayFail("job") :
             job' = IF job # "untried" THEN job ELSE IF failed THEN "none" ELSE "open"
        /\ pc' = "create"
        /\ UNCHANGED left
  /\ UNCHANGED <<restart, child, held, jobbed, proc, ran>>

\* Mutant: the process is not created suspended.
CreateRunning ==
  /\ pc = "create"
  /\ \E p \in Pid :
       /\ proc[p] = "none"
       /\ proc' = [proc EXCEPT ![p] = "running"]
       /\ child' = p
       /\ held' = held \cup {p}
  /\ pc' = "assign"
  /\ UNCHANGED <<restart, job, jobbed, ran, left>>

CreateProcess ==
  /\ pc = "create"
  /\ \/ /\ TRUE \in MayFail("spawn")
        /\ SpawnFails
        /\ UNCHANGED <<child, held, proc>>
     \/ \E p \in Pid :
          /\ proc[p] = "none"
          /\ proc' = [proc EXCEPT ![p] = "suspended"]
          /\ child' = p
          /\ held' = held \cup {p}
          /\ pc' = "assign"
          /\ UNCHANGED left
  /\ UNCHANGED <<restart, job, jobbed, ran>>

AssignProcessToJobObject ==
  /\ pc = "assign"
  /\ \E failed \in MayFail("assign") :
       jobbed' = IF job = "open" /\ ~failed THEN jobbed \cup {child} ELSE jobbed
  /\ pc' = "resume"
  /\ UNCHANGED <<restart, child, held, job, proc, ran, left>>

ResumeThread ==
  /\ pc = "resume"
  /\ \E failed \in MayFail("resume") :
       proc' = IF failed THEN proc ELSE [proc EXCEPT ![child] = "running"]
  /\ pc' = "alloc"
  /\ UNCHANGED <<restart, child, held, job, jobbed, ran, left>>

Terminated(p) ==
  /\ proc' = [proc EXCEPT ![p] = "none"]
  /\ jobbed' = jobbed \ {p}

\* Mutant: the process runs on when the WM_Child cannot be allocated.
AllocChildForgets ==
  /\ pc = "alloc"
  /\ \/ /\ TRUE \in MayFail("alloc")
        /\ held' = held \ {child}
        /\ child' = NoPid
        /\ SpawnFails
     \/ pc' = "wait" /\ UNCHANGED <<child, held, left>>
  /\ UNCHANGED <<restart, job, jobbed, proc, ran>>

\* Mutant: the handles stay open when the WM_Child cannot be allocated.
AllocChildLeaks ==
  /\ pc = "alloc"
  /\ \/ /\ TRUE \in MayFail("alloc")
        /\ Terminated(child)
        /\ child' = NoPid
        /\ SpawnFails
     \/ pc' = "wait" /\ UNCHANGED <<child, jobbed, proc, left>>
  /\ UNCHANGED <<restart, held, job, ran>>

\* Mutant: the supervisor goes on to wait for what it has closed.
AllocChildGoesOn ==
  /\ pc = "alloc"
  /\ \/ /\ TRUE \in MayFail("alloc")
        /\ Terminated(child)
        /\ held' = held \ {child}
        /\ child' = NoPid
     \/ UNCHANGED <<child, held, jobbed, proc>>
  /\ pc' = "wait"
  /\ UNCHANGED <<restart, job, ran, left>>

\* Without the WM_Child the process is ended; whether it was is not looked at.
AllocChild ==
  /\ pc = "alloc"
  /\ \/ /\ TRUE \in MayFail("alloc")
        /\ \E failed \in MayFail("terminate") :
             IF failed THEN UNCHANGED <<proc, jobbed>> ELSE Terminated(child)
        /\ held' = held \ {child}
        /\ child' = NoPid
        /\ SpawnFails
     \/ pc' = "wait" /\ UNCHANGED <<child, held, jobbed, proc, left>>
  /\ UNCHANGED <<restart, job, ran>>

-----------------------------------------------------------------------------
(* run_supervisor.                                                          *)

\* The result of wm_proc_wait is not looked at.
wm_proc_wait ==
  /\ pc = "wait"
  /\ proc[child] = "exited" \/ TRUE \in MayFail("wait")
  /\ pc' = "close"
  /\ UNCHANGED <<restart, child, held, job, jobbed, proc, ran, left>>

\* Mutant: only a worker that was healthy makes the supervisor wait.
DelayAfterHealthy ==
  IF ran < MinHealthy
  THEN pc' = "start" /\ UNCHANGED left
  ELSE pc' = "sleep" /\ left' = RestartDelay

\* Mutant: a worker that failed at once ends the supervisor.
GivesUpOnUnhealthy ==
  IF ran < MinHealthy
  THEN pc' = "return" /\ UNCHANGED left
  ELSE pc' = "start" /\ UNCHANGED left

DelayIfUnhealthy ==
  IF ran < MinHealthy
  THEN pc' = "sleep" /\ left' = RestartDelay
  ELSE pc' = "start" /\ UNCHANGED left

wm_proc_close ==
  /\ pc = "close"
  /\ held' = held \ {child}
  /\ child' = NoPid
  /\ IF proc[child] = "exited" THEN Terminated(child) ELSE UNCHANGED <<proc, jobbed>>
  /\ IF restart THEN DelayIfUnhealthy ELSE pc' = "return" /\ UNCHANGED left
  /\ UNCHANGED <<restart, job, ran>>

Wake ==
  /\ pc = "sleep"
  /\ left = 0
  /\ pc' = "start"
  /\ UNCHANGED <<restart, child, held, job, jobbed, proc, ran, left>>

\* The supervisor returns or is killed: its handles close, and with the job's last
\* handle the job's processes die.
SupervisorEnds ==
  /\ pc = "return" \/ (pc # "gone" /\ "kill" \in Faults)
  /\ pc' = "gone"
  /\ held' = {}
  /\ child' = NoPid
  /\ job' = "none"
  /\ jobbed' = {}
  /\ proc' = [p \in Pid |-> IF p \in jobbed \/ proc[p] = "exited" THEN "none" ELSE proc[p]]
  /\ UNCHANGED <<restart, ran, left>>

-----------------------------------------------------------------------------
(* The workers and the clock.                                               *)

WorkerExits ==
  /\ \E p \in Running :
       IF p \in held
       THEN proc' = [proc EXCEPT ![p] = "exited"] /\ UNCHANGED jobbed
       ELSE Terminated(p)
  /\ UNCHANGED <<restart, pc, child, held, job, ran, left>>

Tick ==
  /\ pc # "gone"
  /\ ran < MinHealthy \/ left > 0
  /\ ran' = IF ran < MinHealthy THEN ran + 1 ELSE ran
  /\ left' = IF left > 0 THEN left - 1 ELSE left
  /\ UNCHANGED <<restart, pc, child, held, job, jobbed, proc>>

-----------------------------------------------------------------------------
Init ==
  /\ restart \in BOOLEAN
  /\ pc = "start"
  /\ child = NoPid
  /\ held = {}
  /\ job = "untried"
  /\ jobbed = {}
  /\ proc = [p \in Pid |-> "none"]
  /\ ran = MinHealthy
  /\ left = 0

Supervise ==
  \/ Start
  \/ Prepare
  \/ CreateProcess
  \/ AssignProcessToJobObject
  \/ ResumeThread
  \/ AllocChild
  \/ wm_proc_wait
  \/ wm_proc_close
  \/ Wake

Next == Supervise \/ SupervisorEnds \/ WorkerExits \/ Tick

Spec == Init /\ [][Next]_vars

\* The supervisor is scheduled and time passes.  A call that may succeed is not
\* refused for ever, so a spawn that is retried for ever succeeds at last.
FairSpec ==
  /\ Spec
  /\ WF_vars(Supervise)
  /\ WF_vars(Tick)
  /\ SF_vars(Prepare /\ pc' = "create")
  /\ SF_vars(CreateProcess /\ pc' = "assign")
  /\ SF_vars(AllocChild /\ pc' = "wait")

-----------------------------------------------------------------------------
\* Two workers never run at once (main.c:80-109): two would each hook the keyboard
\* and run every keybind.
OneWorker == \A p, q \in Running : p = q

\* No worker runs on without its supervisor, wherever the supervisor is killed: a
\* worker joins the job before it runs (proc_win.c:94-101).
NoOrphanRuns == pc = "gone" => Running = {}

\* The supervisor starts over with no handle open (proc_win.c:103-109, 134-142), so
\* that a worker that fails for ever exhausts nothing.
NoHandleLeaks == pc \in {"start", "sleep"} => held = {}

\* However workers fail, one start follows another only after the restart delay
\* (main.c:84-107).
StartsApart == [][Start => ran >= RestartDelay]_vars

\* With --restart, whenever no worker runs - the last one has exited and is still
\* waited for, or closed, or the supervisor sleeps, or a spawn has failed - another
\* one runs in time, unless the supervisor is killed first (main.c:85-107).
WorkerComesBack ==
  restart /\ pc # "gone" /\ Running = {} ~> Running # {} \/ pc = "gone"

==================================================================================
