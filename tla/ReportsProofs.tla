--------------------------- MODULE ReportsProofs ---------------------------
(***************************************************************************)
(* For any number of jobs and threads: what a finished job says is what    *)
(* happened; its task is kept while it runs; and nothing but a thread      *)
(* outlives it.                                                            *)
(***************************************************************************)
EXTENDS Reports, TLAPS

\* No job has been started.
LEMMA InitInvariant == Init => IInv
BY DEF Init, IInv, TypeOK, CancelledForTheOther, ThreadServesTask, GroupFollowsBuild,
       JobFollowsBuild, RunningJobHasItsTask, FinishedJobTellsWhatHappened, TodoErrors, UserErrors

\* A job is not None, and has the fields it was made with.
LEMMA JobIsThere ==
    ASSUME NEW s \in {"running", "done", "error"}, NEW r \in {NULL, "report"},
           NEW e \in Messages \cup {NULL}
    PROVE  Job(s, r, e) # NULL /\ Job(s, r, e).status = s /\ Job(s, r, e).error = e
<1>1. Job(s, r, e) \in [status : {"running", "done", "error"}, result : {NULL, "report"},
                       error : {"not found", "error building report", "unexpected error", NULL}]
  BY DEF Job, Messages
<1>2. Job(s, r, e).status = s /\ Job(s, r, e).error = e
  BY DEF Job
<1> QED
  BY <1>1, <1>2, NullAssumption

\* What the invariant says of one job.
JobInv(j) ==
    /\ CancelledForTheOther(j) /\ ThreadServesTask(j)
    /\ GroupFollowsBuild(j) /\ JobFollowsBuild(j)

JobStep(j) == start_report(j) \/ _build_report(j)

OnlyMoves(j) ==
    /\ \A k \in Jobs : k # j =>
         /\ jobs'[k] = jobs[k] /\ build'[k] = build[k] /\ user_task'[k] = user_task[k]
         /\ todo_task'[k] = todo_task[k] /\ thread'[k] = thread[k]
         /\ k \in background_tasks' <=> k \in background_tasks

\* A step of a job keeps the types and leaves the other jobs alone.
LEMMA StepTypes ==
    ASSUME TypeOK, NEW j \in Jobs, JobStep(j)
    PROVE  TypeOK' /\ OnlyMoves(j)
<1> USE DEF TypeOK, OnlyMoves
<1>1. CASE start_report(j)
  BY <1>1 DEF start_report, Job, JobResponse
<1>2. CASE BeginReport(j)
  BY <1>2 DEF BeginReport
<1>3. CASE UserAnswers(j)
  BY <1>3 DEF UserAnswers
<1>4. CASE ThreadBegins(j)
  BY <1>4 DEF ThreadBegins
<1>5. CASE ThreadEnds(j)
  BY <1>5 DEF ThreadEnds
<1>6. CASE AbortGroup(j)
  BY <1>6 DEF AbortGroup
<1>7. CASE FinishReport(j)
  <2>1. LastMessage(Raised(j)) \in Messages
    BY DEF LastMessage, Messages
  <2> QED
    BY <1>7, <2>1 DEF FinishReport, Forget, Job, JobResponse
<1> QED
  BY <1>1, <1>2, <1>3, <1>4, <1>5, <1>6, <1>7 DEF JobStep, _build_report

\* A step of a job keeps what the invariant says of it.
LEMMA StepKeepsJob ==
    ASSUME TypeOK, NEW j \in Jobs, JobInv(j), JobStep(j)
    PROVE  JobInv(j)'
<1> USE DEF TypeOK, JobInv, CancelledForTheOther, ThreadServesTask, GroupFollowsBuild,
            JobFollowsBuild, UserErrors, TodoErrors, TodoValues
<1>1. CASE start_report(j)
  <2>1. \A r \in {NULL, "report"}, e \in Messages \cup {NULL} :
          Job("running", NULL, NULL) # NULL /\ Job("done", r, e) # NULL /\ Job("error", r, e) # NULL
    BY JobIsThere
  <2>2. build[j] = "none"
    BY <1>1, <2>1 DEF start_report
  <2>3. build'[j] = "created" /\ jobs'[j] = Job("running", NULL, NULL)
    BY <1>1 DEF start_report
  <2>4. user_task' = user_task /\ todo_task' = todo_task /\ thread' = thread
    BY <1>1 DEF start_report
  <2> QED
    BY <2>2, <2>3, <2>4
<1>2. CASE BeginReport(j)
  BY <1>2 DEF BeginReport
<1>3. CASE UserAnswers(j)
  BY <1>3 DEF UserAnswers
<1>4. CASE ThreadBegins(j)
  BY <1>4 DEF ThreadBegins
<1>5. CASE ThreadEnds(j)
  BY <1>5 DEF ThreadEnds
<1>6. CASE AbortGroup(j)
  BY <1>6 DEF AbortGroup
<1>7. CASE FinishReport(j)
  <2>1. LastMessage(Raised(j)) \in Messages
    BY DEF LastMessage, Messages
  <2> QED
    BY <1>7, <2>1 DEF FinishReport, GroupIsOver
<1> QED
  BY <1>1, <1>2, <1>3, <1>4, <1>5, <1>6, <1>7 DEF JobStep, _build_report

-----------------------------------------------------------------------------
\* A finished report tells what its two requests came to.
Told(j) ==
    \/ jobs[j] = Job("done", "report", NULL) /\ user_task[j] = "ok" /\ todo_task[j] = "ok"
    \/ /\ jobs[j] = Job("error", NULL, "not found")
       /\ user_task[j] = "DummyJsonUserNotFoundError"
       /\ todo_task[j] \in TodoValues \cup {"cancelled"}
    \/ /\ jobs[j].status = "error" /\ jobs[j].error \in Messages \ {"not found"}
       /\ \/ user_task[j] \in {"DummyJsonError", "ValueError"}
          \/ todo_task[j] \in TodoErrors \cup {"invalid"}

\* The end of _build_report writes down what its tasks did.
LEMMA FinishTells ==
    ASSUME TypeOK, NEW j \in Jobs, JobInv(j), FinishReport(j)
    PROVE  Told(j)'
<1>1. /\ user_task[j] \in {"ok", "cancelled"} \cup UserErrors
      /\ todo_task[j] \in {"cancelled"} \cup TodoErrors \cup TodoValues
      /\ user_task[j] = "cancelled" => todo_task[j] \in TodoErrors
      /\ todo_task[j] = "cancelled" => user_task[j] \in UserErrors
  BY DEF TypeOK, JobInv, GroupFollowsBuild, CancelledForTheOther, FinishReport, GroupIsOver
<1>2. user_task'[j] = user_task[j] /\ todo_task'[j] = todo_task[j]
  BY DEF FinishReport
<1>3. CASE Raised(j) = {}
  <2>1. user_task[j] = "ok" /\ todo_task[j] = "ok"
    BY <1>1, <1>3 DEF Raised, UserErrors, TodoErrors, TodoValues
  <2>2. jobs'[j] = Job("done", "report", NULL)
    BY <1>3 DEF FinishReport, TypeOK
  <2> QED
    BY <1>2, <2>1, <2>2 DEF Told
<1>4. CASE Raised(j) # {}
  <2>1. jobs'[j] = Job("error", NULL, LastMessage(Raised(j)))
    BY <1>4 DEF FinishReport, TypeOK
  <2>2. CASE LastMessage(Raised(j)) = "not found"
    <3>1. Raised(j) \cap {"ValueError", "DummyJsonError", "RequestError", "ValidationError"} = {}
      BY <2>2 DEF LastMessage
    <3>2. user_task[j] = "DummyJsonUserNotFoundError"
      BY <1>1, <1>4, <3>1 DEF Raised, UserErrors, TodoErrors, TodoValues
    <3>3. todo_task[j] \notin TodoErrors
      BY <3>1 DEF Raised, TodoErrors
    <3> QED
      BY <1>1, <1>2, <2>1, <2>2, <3>2, <3>3 DEF Told
  <2>3. CASE LastMessage(Raised(j)) # "not found"
    <3>1. Raised(j) \cap {"ValueError", "DummyJsonError", "RequestError", "ValidationError"} # {}
      BY <2>3 DEF LastMessage
    <3>2. user_task[j] \in {"DummyJsonError", "ValueError"} \/ todo_task[j] \in TodoErrors \cup {"invalid"}
      BY <1>1, <3>1 DEF Raised, UserErrors, TodoErrors, TodoValues
    <3>3. jobs'[j].status = "error" /\ jobs'[j].error \in Messages \ {"not found"}
      <4>1. LastMessage(Raised(j)) \in Messages \ {"not found"}
        BY <2>3 DEF LastMessage, Messages
      <4>2. \A m \in Messages :
               Job("error", NULL, m).status = "error" /\ Job("error", NULL, m).error = m
        BY JobIsThere
      <4> QED
        BY <2>1, <4>1, <4>2
    <3> QED
      BY <1>2, <3>2, <3>3 DEF Told
  <2> QED
    BY <2>2, <2>3
<1> QED
  BY <1>3, <1>4

\* What a finished job says stays true.
LEMMA StepKeepsTold ==
    ASSUME TypeOK, NEW j \in Jobs, JobInv(j), build[j] = "finished" => Told(j), JobStep(j)
    PROVE  build'[j] = "finished" => Told(j)'
<1>1. CASE FinishReport(j)
  BY <1>1, FinishTells
<1>2. CASE ~FinishReport(j)
  <2>1. build'[j] = "finished" =>
          /\ build[j] = "finished"
          /\ jobs'[j] = jobs[j] /\ user_task'[j] = user_task[j] /\ todo_task'[j] = todo_task[j]
    BY <1>2 DEF JobStep, _build_report, TypeOK, JobInv, GroupFollowsBuild, JobFollowsBuild,
                ThreadServesTask, start_report, BeginReport, UserAnswers, ThreadBegins, ThreadEnds,
                AbortGroup
  <2> QED
    BY <2>1 DEF Told
<1> QED
  BY <1>1, <1>2

\* The job and the dict of tasks change together.
LEMMA StepKeepsTask ==
    ASSUME TypeOK, NEW j \in Jobs, JobInv(j), JobStep(j), JobInv(j)',
           j \in background_tasks <=> build[j] \in {"created", "gathering"}
    PROVE  /\ j \in background_tasks' <=> build'[j] \in {"created", "gathering"}
           /\ jobs'[j] # NULL /\ jobs'[j].status = "running" <=> j \in background_tasks'
<1>1. j \in background_tasks' <=> build'[j] \in {"created", "gathering"}
  BY DEF JobStep, _build_report, TypeOK, JobInv, JobFollowsBuild, start_report, BeginReport,
         UserAnswers, ThreadBegins, ThreadEnds, AbortGroup, FinishReport, Forget, GroupIsOver
<1>2. TypeOK'
  BY StepTypes
<1>3. \A m \in Messages :
         Job("error", NULL, m) # NULL /\ Job("error", NULL, m).status = "error"
  BY JobIsThere
<1>4. /\ Job("done", "report", NULL).status = "done"
      /\ Job("running", NULL, NULL) # NULL /\ Job("running", NULL, NULL).status = "running"
  BY JobIsThere
<1>5. build'[j] \in {"none", "created", "gathering", "finished"}
  BY <1>2 DEF TypeOK
<1> QED
  BY <1>1, <1>3, <1>4, <1>5 DEF JobInv, JobFollowsBuild

\* Every step keeps the invariant.
LEMMA InductiveStep == IInv /\ [Next]_vars => IInv'
<1> SUFFICES ASSUME IInv, [Next]_vars PROVE IInv'
  OBVIOUS
<1>1. ASSUME NEW j \in Jobs, JobStep(j) PROVE IInv'
  <2>1. TypeOK' /\ OnlyMoves(j)
    BY <1>1, StepTypes DEF IInv
  <2>2. \A k \in Jobs : JobInv(k)
    BY DEF IInv, JobInv
  <2>3. JobInv(j)'
    BY <1>1, <2>2, StepKeepsJob DEF IInv
  <2>4. \A k \in Jobs : k # j => JobInv(k)'
    BY <2>1, <2>2 DEF OnlyMoves, JobInv, CancelledForTheOther, ThreadServesTask,
                      GroupFollowsBuild, JobFollowsBuild
  <2>5. RunningJobHasItsTask'
    <3>1. \A k \in Jobs : k # j =>
            /\ k \in background_tasks' <=> build'[k] \in {"created", "gathering"}
            /\ jobs'[k] # NULL /\ jobs'[k].status = "running" <=> k \in background_tasks'
      BY <2>1 DEF IInv, RunningJobHasItsTask, OnlyMoves
    <3>2. /\ j \in background_tasks' <=> build'[j] \in {"created", "gathering"}
          /\ jobs'[j] # NULL /\ jobs'[j].status = "running" <=> j \in background_tasks'
      BY <1>1, <2>2, <2>3, StepKeepsTask DEF IInv, RunningJobHasItsTask
    <3> QED
      BY <3>1, <3>2 DEF RunningJobHasItsTask
  <2>6. FinishedJobTellsWhatHappened'
    <3>1. \A k \in Jobs : build[k] = "finished" => Told(k)
      BY DEF IInv, FinishedJobTellsWhatHappened, Told
    <3>2. build'[j] = "finished" => Told(j)'
      BY <1>1, <2>2, <3>1, StepKeepsTold DEF IInv
    <3>3. ASSUME NEW k \in Jobs, k # j, build'[k] = "finished" PROVE Told(k)'
      <4>1. /\ build'[k] = build[k] /\ jobs'[k] = jobs[k]
            /\ user_task'[k] = user_task[k] /\ todo_task'[k] = todo_task[k]
        BY <2>1, <3>3 DEF OnlyMoves
      <4>2. Told(k)
        BY <3>1, <3>3, <4>1
      <4> QED
        BY <4>1, <4>2 DEF Told
    <3> QED
      BY <3>2, <3>3 DEF FinishedJobTellsWhatHappened, Told
  <2> QED
    BY <2>1, <2>3, <2>4, <2>5, <2>6 DEF IInv, JobInv
<1>2. CASE UNCHANGED vars
  <2>1. TypeOK' /\ RunningJobHasItsTask' /\ FinishedJobTellsWhatHappened'
    BY <1>2 DEF vars, IInv, TypeOK, RunningJobHasItsTask, FinishedJobTellsWhatHappened
  <2>2. \A j \in Jobs : JobInv(j)'
    BY <1>2 DEF vars, IInv, JobInv, CancelledForTheOther, ThreadServesTask, GroupFollowsBuild,
                JobFollowsBuild
  <2> QED
    BY <2>1, <2>2 DEF IInv, JobInv
<1> QED
  BY <1>1, <1>2 DEF Next, JobStep, Rest

\* The invariant that ties jobs, tasks, requests and threads together.
THEOREM ReportsInvariant == Spec => []IInv
<1> QED
  BY InitInvariant, InductiveStep, PTL DEF Spec

\* Every variable keeps its type.
THEOREM ReportsTypeCorrect == Spec => []TypeOK
<1>1. IInv => TypeOK
  BY DEF IInv
<1> QED
  BY <1>1, ReportsInvariant, PTL

\* A running job keeps its task from being collected, a finished one frees it.
THEOREM RunningJobIsKept == Spec => []RunningJobHasItsTask
<1>1. IInv => RunningJobHasItsTask
  BY DEF IInv
<1> QED
  BY <1>1, ReportsInvariant, PTL

\* "A failed job contains a safe error message", and the one that fits.
THEOREM FinishedJobIsTruthful == Spec => []FinishedJobTellsWhatHappened
<1>1. IInv => FinishedJobTellsWhatHappened
  BY DEF IInv
<1> QED
  BY <1>1, ReportsInvariant, PTL

\* Structured concurrency, up to the threads.
THEOREM NothingElseOutlivesItsJob == Spec => []OnlyThreadsOutliveTheirJob
<1>1. IInv => OnlyThreadsOutliveTheirJob
  BY DEF IInv, TypeOK, ThreadServesTask, GroupFollowsBuild, OnlyThreadsOutliveTheirJob
<1> QED
  BY <1>1, ReportsInvariant, PTL

\* A job that is over stays what it is.
AnswerStays ==
    \A j \in Jobs : jobs[j] # NULL /\ jobs[j].status # "running" => jobs'[j] = jobs[j]

\* Whatever get_job has once returned for a finished job it returns ever after: the
\* threads and cancelled children that straggle behind it write nothing.
THEOREM AnswersAreFinal == Spec => [][AnswerStays]_vars
<1>1. ASSUME IInv, [Next]_vars PROVE AnswerStays
  <2> SUFFICES ASSUME NEW j \in Jobs, jobs[j] # NULL, jobs[j].status # "running"
               PROVE  jobs'[j] = jobs[j]
    BY DEF AnswerStays
  <2>1. build[j] \notin {"created", "gathering"}
    BY <1>1 DEF IInv, RunningJobHasItsTask
  <2>2. ASSUME NEW k \in Jobs, JobStep(k) PROVE jobs'[j] = jobs[j]
    <3>1. k # j => jobs'[j] = jobs[j]
      BY <1>1, <2>2, StepTypes DEF IInv, OnlyMoves
    <3>2. k = j => jobs'[j] = jobs[j]
      BY <2>1, <2>2 DEF JobStep, start_report, _build_report, BeginReport, UserAnswers, ThreadBegins,
                        ThreadEnds, AbortGroup, FinishReport, GroupIsOver
    <3> QED
      BY <3>1, <3>2
  <2> QED
    BY <1>1, <2>2 DEF Next, JobStep, Rest, vars
<1>2. IInv /\ [Next]_vars => [AnswerStays]_vars
  BY <1>1
<1> QED
  BY <1>2, ReportsInvariant, PTL DEF Spec
=============================================================================
