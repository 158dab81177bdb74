------------------------------ MODULE Reports ------------------------------
(***************************************************************************)
(* The report jobs of week 1: start_report, the background task            *)
(* _build_report with the two requests of its task group, and the threads   *)
(* of asyncio.to_thread, which a cancelled job cannot stop.                *)
(*                                                                         *)
(* Everything is in the memory of one process and its event loop; a step   *)
(* is what runs between two awaits.                                        *)
(***************************************************************************)
EXTENDS Naturals, FiniteSets

CONSTANTS
    Jobs,                 \* job ids: fresh uuids, one for each POST
    Threads,              \* the workers of the default executor
    NULL                  \* no such job, None

ASSUME ReportsAssumption == Threads \in Nat \ {0}

\* None is no job and no message.
ASSUME NullAssumption ==
    NULL \notin [status : {"running", "done", "error"}, result : {NULL, "report"},
                error : {"not found", "error building report", "unexpected error", NULL}]

VARIABLES
    jobs,                 \* the global dict: a JobResponse, or NULL
    background_tasks,     \* the keys of the global dict
    build,                \* where the task _build_report of each job stands
    user_task,            \* its child: get_user
    todo_task,            \* its child: to_thread(get_user_todos_sync)
    thread                \* the call of get_user_todos_sync itself

vars == <<jobs, background_tasks, build, user_task, todo_task, thread>>

\* A child of the task group ends with a value or with one of these.
\* DummyJsonInvalidResponseError is a DummyJsonError.  A ValueError is one nobody
\* expects: get_user_todos_sync raises it for a body that is no JSON, get_user for
\* one that cannot even be decoded.
UserErrors == {"DummyJsonUserNotFoundError", "DummyJsonError", "ValueError"}
TodoErrors == {"RequestError", "ValueError"}

\* "invalid" is a payload that DummyJsonUserTodoResponse does not accept, the
\* body of a 404 among others.
TodoValues == {"ok", "invalid"}

Messages == {"not found", "error building report", "unexpected error"}
JobResponse == [status : {"running", "done", "error"}, result : {NULL, "report"},
                error : Messages \cup {NULL}]

Job(status, result, error) == [status |-> status, result |-> result, error |-> error]

\* The exceptions the task group, or the code after it, raises for j.
Raised(j) ==
    ({user_task[j]} \cap UserErrors) \cup ({todo_task[j]} \cap TodoErrors)
        \cup {e \in {"ValidationError"} : user_task[j] = "ok" /\ todo_task[j] = "invalid"}

\* Mutant: a handler for several exceptions ahead of the one for a missing user.
LastMessage_NotFoundLast(errors) ==
    IF "DummyJsonUserNotFoundError" \in errors THEN "not found"
    ELSE IF errors \cap {"DummyJsonError", "RequestError", "ValidationError"} # {}
         THEN "error building report" ELSE "unexpected error"

\* Every except* clause that catches some of the errors runs, in their order, and
\* each writes its message over the one before.
LastMessage(errors) ==
    IF "ValueError" \in errors THEN "unexpected error"
    ELSE IF errors \cap {"DummyJsonError", "RequestError", "ValidationError"} # {}
         THEN "error building report" ELSE "not found"

-----------------------------------------------------------------------------
Init ==
    /\ jobs = [j \in Jobs |-> NULL]
    /\ background_tasks = {}
    /\ build = [j \in Jobs |-> "none"]
    /\ user_task = [j \in Jobs |-> "none"]
    /\ todo_task = [j \in Jobs |-> "none"]
    /\ thread = [j \in Jobs |-> "none"]

start_report(j) ==
    /\ jobs[j] = NULL
    /\ jobs' = [jobs EXCEPT ![j] = Job("running", NULL, NULL)]
    /\ build' = [build EXCEPT ![j] = "created"]
    /\ background_tasks' = background_tasks \cup {j}
    /\ UNCHANGED <<user_task, todo_task, thread>>

\* _build_report enters its task group; to_thread hands the call to the executor.
BeginReport(j) ==
    /\ build[j] = "created"
    /\ build' = [build EXCEPT ![j] = "gathering"]
    /\ user_task' = [user_task EXCEPT ![j] = "running"]
    /\ todo_task' = [todo_task EXCEPT ![j] = "running"]
    /\ thread' = [thread EXCEPT ![j] = "queued"]
    /\ UNCHANGED <<jobs, background_tasks>>

\* get_user returns, or raises within the time-out of the client.
UserAnswers(j) ==
    /\ user_task[j] = "running"
    /\ \E answer \in UserErrors \cup {"ok"} : user_task' = [user_task EXCEPT ![j] = answer]
    /\ UNCHANGED <<jobs, background_tasks, build, todo_task, thread>>

Busy == {j \in Jobs : thread[j] = "running"}

ThreadBegins(j) ==
    /\ thread[j] = "queued"
    /\ Cardinality(Busy) < Threads
    /\ thread' = [thread EXCEPT ![j] = "running"]
    /\ UNCHANGED <<jobs, background_tasks, build, user_task, todo_task>>

\* Mutant: only a task that still waits for it ends the call.
ThreadEnds_WhenAwaited(j) ==
    /\ thread[j] = "running"
    /\ todo_task[j] = "running"
    /\ thread' = [thread EXCEPT ![j] = "over"]
    /\ \E answer \in TodoErrors \cup TodoValues :
         todo_task' = [todo_task EXCEPT ![j] = answer]
    /\ UNCHANGED <<jobs, background_tasks, build, user_task>>

\* get_user_todos_sync returns, or raises within its own time-out; the outcome
\* goes to the task, unless that has been cancelled.
ThreadEnds(j) ==
    /\ thread[j] = "running"
    /\ thread' = [thread EXCEPT ![j] = "over"]
    /\ \E answer \in TodoErrors \cup TodoValues :
         todo_task' = [todo_task EXCEPT ![j] = IF @ = "running" THEN answer ELSE @]
    /\ UNCHANGED <<jobs, background_tasks, build, user_task>>

\* A child of the task group has failed: the other one is cancelled.  A call the
\* executor has begun goes on.  Until the event loop gets here, the other child
\* may have failed as well.
AbortGroup(j) ==
    /\ build[j] = "gathering"
    /\ \/ user_task[j] \in UserErrors /\ todo_task[j] = "running"
       \/ todo_task[j] \in TodoErrors /\ user_task[j] = "running"
    /\ user_task' = [user_task EXCEPT ![j] = IF @ = "running" THEN "cancelled" ELSE @]
    /\ todo_task' = [todo_task EXCEPT ![j] = IF @ = "running" THEN "cancelled" ELSE @]
    /\ thread' = [thread EXCEPT ![j] = IF @ = "queued" THEN "over" ELSE @]
    /\ UNCHANGED <<jobs, background_tasks, build>>

\* Mutant: the report goes on with the first answer, as gather would after an error.
GroupIsOver_FirstAnswer(j) ==
    build[j] = "gathering" /\ (user_task[j] # "running" \/ todo_task[j] # "running")

\* A task group is left when none of its children is running.
GroupIsOver(j) ==
    build[j] = "gathering" /\ user_task[j] # "running" /\ todo_task[j] # "running"

\* Mutant: the task is taken from the dict only on success.
Forget_OnSuccess(j) ==
    background_tasks' = IF Raised(j) = {} THEN background_tasks \ {j} ELSE background_tasks

\* The finally clause.
Forget(j) == background_tasks' = background_tasks \ {j}

\* The rest of _build_report has no await: the report or the message, then the
\* finally clause.
FinishReport(j) ==
    /\ GroupIsOver(j)
    /\ build' = [build EXCEPT ![j] = "finished"]
    /\ jobs' = [jobs EXCEPT ![j] =
                   IF Raised(j) = {} THEN Job("done", "report", NULL)
                   ELSE Job("error", NULL, LastMessage(Raised(j)))]
    /\ Forget(j)
    /\ UNCHANGED <<user_task, todo_task, thread>>

\* Every job is over and no thread is busy.
Rest ==
    /\ \A j \in Jobs : build[j] = "finished" /\ thread[j] = "over"
    /\ UNCHANGED vars

_build_report(j) ==
    \/ BeginReport(j) \/ UserAnswers(j) \/ ThreadBegins(j) \/ ThreadEnds(j)
    \/ AbortGroup(j) \/ FinishReport(j)

Next ==
    \/ \E j \in Jobs : start_report(j) \/ _build_report(j)
    \/ Rest

Spec == Init /\ [][Next]_vars

\* The event loop and the executor run what is ready, and both requests have
\* time-outs (10 s of the client, 5 s by default of httpx.get).
FairSpec == Spec /\ \A j \in Jobs : WF_vars(_build_report(j)) /\ WF_vars(ThreadEnds(j))

-----------------------------------------------------------------------------
TypeOK ==
    /\ jobs \in [Jobs -> JobResponse \cup {NULL}]
    /\ background_tasks \in SUBSET Jobs
    /\ build \in [Jobs -> {"none", "created", "gathering", "finished"}]
    /\ user_task \in [Jobs -> {"none", "running", "ok", "cancelled"} \cup UserErrors]
    /\ todo_task \in [Jobs -> {"none", "running", "cancelled"} \cup TodoErrors \cup TodoValues]
    /\ thread \in [Jobs -> {"none", "queued", "running", "over"}]

\* A job is running exactly while its task is, and exactly as long the dict keeps
\* the task from being collected.
RunningJobHasItsTask ==
    \A j \in Jobs :
        /\ j \in background_tasks <=> build[j] \in {"created", "gathering"}
        /\ jobs[j] # NULL /\ jobs[j].status = "running" <=> j \in background_tasks

\* A job is done only with both answers; it is in error with one message: that the
\* user does not exist, only if nothing else went wrong.
FinishedJobTellsWhatHappened ==
    \A j \in Jobs : build[j] = "finished" =>
        \/ jobs[j] = Job("done", "report", NULL) /\ user_task[j] = "ok" /\ todo_task[j] = "ok"
        \/ /\ jobs[j] = Job("error", NULL, "not found")
           /\ user_task[j] = "DummyJsonUserNotFoundError"
           /\ todo_task[j] \in TodoValues \cup {"cancelled"}
        \/ /\ jobs[j].status = "error" /\ jobs[j].error \in Messages \ {"not found"}
           /\ \/ user_task[j] \in {"DummyJsonError", "ValueError"}
              \/ todo_task[j] \in TodoErrors \cup {"invalid"}

\* A finished job leaves nothing behind on the event loop: of what it has started,
\* only the thread of a cancelled call may still run.
OnlyThreadsOutliveTheirJob ==
    \A j \in Jobs : build[j] = "finished" =>
        /\ user_task[j] # "running" /\ todo_task[j] # "running" /\ thread[j] # "queued"
        /\ thread[j] = "running" => todo_task[j] = "cancelled"

-----------------------------------------------------------------------------
(***************************************************************************)
(* The inductive invariant behind the safety properties.                   *)
(***************************************************************************)
\* A child is cancelled only for the failure of the other one.
CancelledForTheOther(j) ==
    /\ user_task[j] = "cancelled" => todo_task[j] \in TodoErrors
    /\ todo_task[j] = "cancelled" => user_task[j] \in UserErrors

\* The call waits in the executor only for a task that waits for it, and is under
\* way only for such a task or a cancelled one.
ThreadServesTask(j) ==
    /\ todo_task[j] = "running" => thread[j] \in {"queued", "running"}
    /\ thread[j] = "queued" => todo_task[j] = "running"
    /\ thread[j] = "running" => todo_task[j] \in {"running", "cancelled"}

GroupFollowsBuild(j) ==
    /\ build[j] \in {"none", "created"} => user_task[j] = "none" /\ todo_task[j] = "none"
    /\ build[j] \in {"gathering", "finished"} => user_task[j] # "none" /\ todo_task[j] # "none"
    /\ build[j] = "finished" => user_task[j] # "running" /\ todo_task[j] # "running"

JobFollowsBuild(j) ==
    /\ build[j] = "none" => jobs[j] = NULL
    /\ build[j] \in {"created", "gathering"} => jobs[j] = Job("running", NULL, NULL)
    /\ build[j] = "finished" => \/ jobs[j] = Job("done", "report", NULL)
                                \/ \E m \in Messages : jobs[j] = Job("error", NULL, m)

\* Job, task, children and thread move in step.
IInv ==
    /\ TypeOK
    /\ \A j \in Jobs : /\ CancelledForTheOther(j) /\ ThreadServesTask(j)
                       /\ GroupFollowsBuild(j) /\ JobFollowsBuild(j)
    /\ RunningJobHasItsTask
    /\ FinishedJobTellsWhatHappened

-----------------------------------------------------------------------------
\* Every job ends, even behind the threads of jobs that were given up.
EveryJobEnds ==
    \A j \in Jobs : jobs[j] # NULL ~> jobs[j] # NULL /\ jobs[j].status \in {"done", "error"}
=============================================================================
