----------------------------- MODULE SupervisorProofs -----------------------------
(***************************************************************************)
(* What holds of the supervisor for every number of processes and every    *)
(* pair of delays, and whichever calls fail but those a theorem names.     *)
(***************************************************************************)
EXTENDS Supervisor, TLAPS

-----------------------------------------------------------------------------
(* Types and handles: the supervisor has a child, and its handles, exactly  *)
(* from CreateProcess to wm_proc_close or the failure before it.            *)

WithChild == {"assign", "resume", "alloc", "wait", "close"}

\* A failed spawn ends the supervisor or makes it wait.
LEMMA FailedSpawn ==
  ASSUME SpawnFails
  PROVE  \/ pc' = "sleep" /\ left' = RestartDelay
         \/ pc' = "return" /\ UNCHANGED left
BY DEF SpawnFails

HandleInv ==
  /\ TypeOK
  /\ pc \in WithChild => held = {child}
  /\ pc \notin WithChild => held = {} /\ child = NoPid

\* Every step keeps HandleInv: one step per action.
LEMMA NextKeepsHandles ==
  ASSUME HandleInv, [Next]_vars
  PROVE  HandleInv'
<1>. USE PidAssumption, DelayAssumption DEF HandleInv, TypeOK, WithChild, Place
<1>1. CASE Start
  BY <1>1 DEF Start
<1>2. CASE Prepare
  <2>1. \/ pc' = "sleep" /\ left' = RestartDelay
        \/ pc' \in {"return", "create"} /\ UNCHANGED left
    BY <1>2 DEF Prepare, SpawnFails
  <2>2. job' \in {"untried", "none", "open"}
    BY <1>2 DEF Prepare, MayFail
  <2>3. pc = "spawn" /\ UNCHANGED <<restart, child, held, jobbed, proc, ran>>
    BY <1>2 DEF Prepare
  <2>. QED
    BY <2>1, <2>2, <2>3
<1>3. CASE CreateProcess
  <2>1. CASE /\ SpawnFails
             /\ UNCHANGED <<child, held, proc>>
    BY <1>3, <2>1 DEF CreateProcess, SpawnFails
  <2>2. ASSUME NEW p \in Pid,
               proc' = [proc EXCEPT ![p] = "suspended"],
               child' = p, held' = held \cup {p}, pc' = "assign", UNCHANGED left
        PROVE  HandleInv'
    BY <1>3, <2>2 DEF CreateProcess
  <2>. QED
    BY <1>3, <2>1, <2>2 DEF CreateProcess
<1>4. CASE AssignProcessToJobObject
  BY <1>4 DEF AssignProcessToJobObject, MayFail
<1>5. CASE ResumeThread
  BY <1>5 DEF ResumeThread, MayFail
<1>6. CASE AllocChild
  <2>1. CASE /\ UNCHANGED <<proc, jobbed>> \/ Terminated(child)
             /\ held' = held \ {child} /\ child' = NoPid /\ SpawnFails
    <3>1. jobbed' \subseteq Pid /\ proc' \in [Pid -> {"none", "suspended", "running", "exited"}]
      BY <2>1 DEF Terminated
    <3>2. held' = {} /\ child' = NoPid /\ UNCHANGED <<restart, job, ran>>
      BY <1>6, <2>1 DEF AllocChild
    <3>. QED
      BY <2>1, <3>1, <3>2, FailedSpawn
  <2>2. CASE pc' = "wait" /\ UNCHANGED <<child, held, jobbed, proc, left>>
    BY <1>6, <2>2 DEF AllocChild
  <2>. QED
    BY <1>6, <2>1, <2>2 DEF AllocChild
<1>7. CASE wm_proc_wait
  BY <1>7 DEF wm_proc_wait
<1>8. CASE wm_proc_close
  <2>1. \/ pc' = "sleep" /\ left' = RestartDelay
        \/ pc' \in {"return", "start"} /\ UNCHANGED left
    BY <1>8 DEF wm_proc_close, DelayIfUnhealthy
  <2>2. held' = {} /\ child' = NoPid /\ UNCHANGED <<restart, job, ran>>
    BY <1>8 DEF wm_proc_close
  <2>3. jobbed' \subseteq Pid /\ proc' \in [Pid -> {"none", "suspended", "running", "exited"}]
    BY <1>8 DEF wm_proc_close, Terminated
  <2>. QED
    BY <2>1, <2>2, <2>3
<1>9. CASE Wake
  BY <1>9 DEF Wake
<1>10. CASE SupervisorEnds
  BY <1>10 DEF SupervisorEnds
<1>11. CASE WorkerExits
  BY <1>11 DEF WorkerExits, Terminated, Running
<1>12. CASE Tick
  BY <1>12 DEF Tick
<1>13. CASE UNCHANGED vars
  BY <1>13 DEF vars
<1>. QED
  BY <1>1, <1>2, <1>3, <1>4, <1>5, <1>6, <1>7, <1>8, <1>9, <1>10, <1>11, <1>12, <1>13
     DEF Next, Supervise

\* HandleInv is inductive.
LEMMA HandleInvHolds == Spec => []HandleInv
<1>1. Init => HandleInv
  BY DelayAssumption DEF Init, HandleInv, TypeOK, Place, WithChild
<1>2. HandleInv /\ [Next]_vars => HandleInv'
  BY NextKeepsHandles
<1>. QED
  BY <1>1, <1>2, PTL DEF Spec

\* The type invariant, with the handles of the process at hand.
THEOREM TypeCorrect == Spec => []TypeOK
<1>1. HandleInv => TypeOK
  BY DEF HandleInv
<1>. QED
  BY <1>1, HandleInvHolds, PTL

\* Between two workers no handle is open, whichever step of a spawn fails.
THEOREM HandlesComeBack == Spec => []NoHandleLeaks
<1>1. HandleInv => NoHandleLeaks
  BY DEF HandleInv, NoHandleLeaks, WithChild
<1>. QED
  BY <1>1, HandleInvHolds, PTL

-----------------------------------------------------------------------------
(* The restart delay: while the supervisor sleeps, the time that has passed *)
(* and the time that is left never add up to less than the delay.           *)

DelayInv ==
  /\ pc = "start" => ran >= RestartDelay
  /\ pc = "sleep" => ran + left >= RestartDelay

\* Every step keeps DelayInv: a sleep runs while the time since the start does.
LEMMA NextKeepsDelay ==
  ASSUME HandleInv, DelayInv, [Next]_vars
  PROVE  DelayInv' /\ (Start => ran >= RestartDelay)
<1>0. ran \in 0 .. MinHealthy /\ left \in 0 .. RestartDelay
  BY DEF HandleInv, TypeOK
<1>. USE <1>0, DelayAssumption DEF DelayInv
<1>a. ASSUME pc # "start", ran' = ran,
             \/ pc' = "sleep" /\ left' = RestartDelay
             \/ pc' \notin {"sleep", "start"}
      PROVE  DelayInv' /\ (Start => ran >= RestartDelay)
  BY <1>a DEF Start
<1>1. CASE Start
  BY <1>1 DEF Start
<1>2. CASE Prepare
  <2>1. SpawnFails \/ pc' = "create"
    BY <1>2 DEF Prepare
  <2>2. pc # "start" /\ ran' = ran
    BY <1>2 DEF Prepare
  <2>. QED
    BY <1>a, <2>1, <2>2, FailedSpawn
<1>3. CASE CreateProcess
  <2>1. SpawnFails \/ pc' = "assign"
    BY <1>3 DEF CreateProcess
  <2>2. pc # "start" /\ ran' = ran
    BY <1>3 DEF CreateProcess
  <2>. QED
    BY <1>a, <2>1, <2>2, FailedSpawn
<1>4. CASE AssignProcessToJobObject
  BY <1>4 DEF AssignProcessToJobObject, Start
<1>5. CASE ResumeThread
  BY <1>5 DEF ResumeThread, Start
<1>6. CASE AllocChild
  <2>1. SpawnFails \/ pc' = "wait"
    BY <1>6 DEF AllocChild
  <2>2. pc # "start" /\ ran' = ran
    BY <1>6 DEF AllocChild
  <2>. QED
    BY <1>a, <2>1, <2>2, FailedSpawn
<1>7. CASE wm_proc_wait
  BY <1>7 DEF wm_proc_wait, Start
<1>8. CASE wm_proc_close
  <2>1. pc = "close" /\ ran' = ran
    BY <1>8 DEF wm_proc_close
  <2>2. \/ pc' = "return"
        \/ pc' = "sleep" /\ left' = RestartDelay
        \/ pc' = "start" /\ ~ (ran < MinHealthy)
    BY <1>8 DEF wm_proc_close, DelayIfUnhealthy
  <2>. QED
    BY <2>1, <2>2 DEF Start
<1>9. CASE Wake
  BY <1>9 DEF Wake, Start
<1>10. CASE SupervisorEnds
  BY <1>10 DEF SupervisorEnds, Start
<1>11. CASE WorkerExits
  BY <1>11 DEF WorkerExits, Start
<1>12. CASE Tick
  BY <1>12 DEF Tick, Start
<1>13. CASE UNCHANGED vars
  BY <1>13 DEF vars, Start
<1>. QED
  BY <1>1, <1>2, <1>3, <1>4, <1>5, <1>6, <1>7, <1>8, <1>9, <1>10, <1>11, <1>12, <1>13
     DEF Next, Supervise

\* Two starts are at least the restart delay apart, however fast workers fail: a
\* worker that ran longer has used that time up itself.
THEOREM StartsAreApart == Spec => StartsApart
<1>1. Init => DelayInv
  BY DelayAssumption DEF Init, DelayInv
<1>2. HandleInv /\ DelayInv /\ [Next]_vars => DelayInv'
  BY NextKeepsDelay
<1>3. HandleInv /\ DelayInv /\ [Next]_vars => [Start => ran >= RestartDelay]_vars
  BY NextKeepsDelay
<1>. QED
  BY <1>1, <1>2, <1>3, HandleInvHolds, PTL DEF Spec, StartsApart

-----------------------------------------------------------------------------
(* One worker: what runs is the child, until wait says it has exited.       *)

OneInv ==
  /\ OneWorker
  /\ pc # "gone" => \A p \in Pid : proc[p] = "running" => p = child
  /\ pc = "close" => proc[child] # "running"

\* When neither waiting nor ending a process can fail, every step keeps OneInv.
LEMMA NextKeepsOneWorker ==
  ASSUME "wait" \notin Faults, "terminate" \notin Faults, HandleInv, OneInv, [Next]_vars
  PROVE  OneInv'
<1>0. /\ pc \in WithChild => child \in Pid
      /\ pc \notin WithChild => child = NoPid
      /\ proc \in [Pid -> {"none", "suspended", "running", "exited"}]
  BY DEF HandleInv, TypeOK, WithChild
<1>. USE <1>0, PidAssumption DEF OneInv, OneWorker, Running, WithChild
<1>1. CASE Start
  BY <1>1 DEF Start
<1>2. CASE Prepare
  BY <1>2 DEF Prepare, SpawnFails
<1>3. CASE CreateProcess
  <2>1. CASE UNCHANGED <<child, held, proc>> /\ SpawnFails
    BY <1>3, <2>1 DEF CreateProcess, SpawnFails
  <2>2. ASSUME NEW p \in Pid, proc[p] = "none",
               proc' = [proc EXCEPT ![p] = "suspended"], child' = p, pc' = "assign"
        PROVE  OneInv'
    BY <1>3, <2>2 DEF CreateProcess
  <2>. QED
    BY <1>3, <2>1, <2>2 DEF CreateProcess
<1>4. CASE AssignProcessToJobObject
  BY <1>4 DEF AssignProcessToJobObject
<1>5. CASE ResumeThread
  BY <1>5 DEF ResumeThread
<1>6. CASE AllocChild
  BY <1>6 DEF AllocChild, MayFail, SpawnFails, Terminated
<1>7. CASE wm_proc_wait
  BY <1>7 DEF wm_proc_wait, MayFail
<1>8. CASE wm_proc_close
  BY <1>8 DEF wm_proc_close, DelayIfUnhealthy, Terminated
<1>9. CASE Wake
  BY <1>9 DEF Wake
<1>10. CASE SupervisorEnds
  BY <1>10 DEF SupervisorEnds
<1>11. CASE WorkerExits
  BY <1>11 DEF WorkerExits, Terminated
<1>12. CASE Tick
  BY <1>12 DEF Tick
<1>13. CASE UNCHANGED vars
  BY <1>13 DEF vars
<1>. QED
  BY <1>1, <1>2, <1>3, <1>4, <1>5, <1>6, <1>7, <1>8, <1>9, <1>10, <1>11, <1>12, <1>13
     DEF Next, Supervise

\* As long as the wait for a worker ends with the worker, and a process that cannot
\* be kept can be ended, no two workers run.
THEOREM OneWorkerRuns ==
  ASSUME "wait" \notin Faults, "terminate" \notin Faults
  PROVE  Spec => []OneWorker
<1>1. Init => OneInv
  BY DEF Init, OneInv, OneWorker, Running
<1>2. HandleInv /\ OneInv /\ [Next]_vars => OneInv'
  BY NextKeepsOneWorker
<1>3. OneInv => OneWorker
  BY DEF OneInv
<1>. QED
  BY <1>1, <1>2, <1>3, HandleInvHolds, PTL DEF Spec

-----------------------------------------------------------------------------
(* No orphan: a worker is in the job before it runs.                        *)

JobInv ==
  /\ NoOrphanRuns
  /\ pc # "gone" => job # "none"
  /\ pc \in WithChild \cup {"create"} => job = "open"
  /\ pc \in WithChild \ {"assign"} => child \in jobbed
  /\ pc # "gone" => Running \subseteq jobbed

\* When the job can be had and joined, every step keeps JobInv.
LEMMA NextKeepsJob ==
  ASSUME "job" \notin Faults, "assign" \notin Faults, HandleInv, JobInv, [Next]_vars
  PROVE  JobInv'
<1>0. /\ pc \in WithChild => child \in Pid /\ held = {child}
      /\ pc \notin WithChild => held = {}
      /\ proc \in [Pid -> {"none", "suspended", "running", "exited"}]
      /\ job \in {"untried", "none", "open"}
  BY DEF HandleInv, TypeOK, WithChild
<1>. USE <1>0 DEF JobInv, NoOrphanRuns, Running, WithChild
<1>1. CASE Start
  BY <1>1 DEF Start
<1>2. CASE Prepare
  BY <1>2 DEF Prepare, SpawnFails, MayFail
<1>3. CASE CreateProcess
  BY <1>3 DEF CreateProcess, SpawnFails
<1>4. CASE AssignProcessToJobObject
  BY <1>4 DEF AssignProcessToJobObject, MayFail
<1>5. CASE ResumeThread
  BY <1>5 DEF ResumeThread
<1>6. CASE AllocChild
  BY <1>6 DEF AllocChild, SpawnFails, Terminated
<1>7. CASE wm_proc_wait
  BY <1>7 DEF wm_proc_wait
<1>8. CASE wm_proc_close
  BY <1>8 DEF wm_proc_close, DelayIfUnhealthy, Terminated
<1>9. CASE Wake
  BY <1>9 DEF Wake
<1>10. CASE SupervisorEnds
  BY <1>10 DEF SupervisorEnds
<1>11. CASE WorkerExits
  BY <1>11 DEF WorkerExits, Terminated
<1>12. CASE Tick
  BY <1>12 DEF Tick
<1>13. CASE UNCHANGED vars
  BY <1>13 DEF vars
<1>. QED
  BY <1>1, <1>2, <1>3, <1>4, <1>5, <1>6, <1>7, <1>8, <1>9, <1>10, <1>11, <1>12, <1>13
     DEF Next, Supervise

\* As long as the job is made and takes the workers, no worker outlives its
\* supervisor, wherever the supervisor is killed.
THEOREM NoOrphanEver ==
  ASSUME "job" \notin Faults, "assign" \notin Faults
  PROVE  Spec => []NoOrphanRuns
<1>1. Init => JobInv
  BY DEF Init, JobInv, NoOrphanRuns, Running, WithChild
<1>2. HandleInv /\ JobInv /\ [Next]_vars => JobInv'
  BY NextKeepsJob
<1>3. JobInv => NoOrphanRuns
  BY DEF JobInv
<1>. QED
  BY <1>1, <1>2, <1>3, HandleInvHolds, PTL DEF Spec

==================================================================================
