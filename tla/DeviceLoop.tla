----------------------------- MODULE DeviceLoop -----------------------------
(***************************************************************************)
(* The mining loops of deviceapi.c for one processor, minerloop_scanhash,  *)
(* minerloop_async and minerloop_queue, under the control of the operator, *)
(* the schedule and the watchdog (miner.c, api.c).                         *)
(*                                                                         *)
(* Which loop a processor has is fixed by its driver.  The works of the    *)
(* thread are numbers: a number is in use from get_work to free_work.      *)
(* Drivers are external: each call of one has every outcome the loops      *)
(* provide for.                                                            *)
(***************************************************************************)
EXTENDS Integers, FiniteSets

CONSTANTS
    Loops,          \* the loops to look at
    Works,          \* numbers for works, as many as can be in use at once
    QueueDepth,     \* works a queue driver takes
    MaxCommands,    \* bound on commands of the operator and the schedule, and restarts
    MaxFailures     \* bound on failures of the device, overheating included

NoWork == 0

ASSUME DeviceAssumption ==
    /\ Loops \subseteq {"scanhash", "async", "queue"} /\ Loops # {}
    /\ Works \subseteq Nat \ {NoWork} /\ QueueDepth \in Nat \ {0}
    /\ MaxCommands \in Nat /\ MaxFailures \in Nat

VARIABLES
    loop,
    deven,          \* cgpu->deven: "enabled", "disabled" by the user, "recover" from
                    \* heat, or "recover_err"
    pause,          \* thr->pause, set by the schedule
    notified,       \* thr->notifier has been written to
    work_restart,   \* thr->work_restart
    pc,             \* where the mining thread is
    work, next_work, prev_work,
    queue,          \* works in the device, of a queue driver
    queue_full,
    transition,     \* _job_transition_in_progress
    starting_next,  \* starting_next_work
    proceed,        \* _proceed_with_new_job
    disable_called, \* _mt_disable_called
    morework,       \* tv_morework is set
    pending,        \* what the driver goes on with from its poll function
    watchdog, schedule,   \* whether they are about to enable the processor
    held,           \* works got and not freed
    lost,           \* works job_start_abort has forgotten
    commands, failures

outsideVars == <<loop, pause, watchdog, schedule, commands>>
jobVars     == <<prev_work, transition, starting_next, proceed, morework, pending, lost>>
queueVars   == <<queue, queue_full>>

vars == <<outsideVars, deven, notified, work_restart, pc, work, next_work, held,
          jobVars, queueVars, disable_called, failures>>

\* should_be_running
Enabled == deven = "enabled" /\ ~pause

Some(w) == {w} \ {NoWork}
InUse == Some(work) \cup Some(next_work) \cup Some(prev_work) \cup queue

Init ==
    /\ loop \in Loops
    /\ deven \in {"enabled", "disabled"} /\ pause = FALSE /\ notified = FALSE
    /\ work_restart = FALSE
    /\ pc = "begin"
    /\ work = NoWork /\ next_work = NoWork /\ prev_work = NoWork /\ queue = {}
    /\ queue_full = FALSE
    /\ transition = FALSE /\ starting_next = FALSE /\ proceed = FALSE
    /\ morework = FALSE /\ pending = "none"
    /\ disable_called = FALSE
    /\ watchdog = FALSE /\ schedule = FALSE
    /\ held = {} /\ lost = {}
    /\ commands = 0 /\ failures = 0

-----------------------------------------------------------------------------
(* Steps of the mining thread; the thread changes none of outsideVars.     *)

At(kind, place) == loop \in kind /\ pc = place /\ UNCHANGED outsideVars

DeviceWorks == UNCHANGED <<deven, failures>>
DeviceFails ==
    failures < MaxFailures /\ failures' = failures + 1 /\ deven' = "recover_err"

\* miner_thread has been told to start: minerloop_scanhash waits if the processor is
\* disabled, the others look in their loop.
BeginLoop ==
    /\ At(Loops, "begin")
    /\ IF loop = "scanhash" /\ deven # "enabled"
       THEN pc' = "wait" /\ disable_called' = TRUE
       ELSE pc' = "loop" /\ UNCHANGED disable_called
    /\ UNCHANGED <<deven, notified, work_restart, work, next_work, held, jobVars, queueVars,
                   failures>>

\* get_and_prepare_work.  It blocks until there is a work; that prepare_work fails is
\* for drivers of the other two loops.
Free(w) == held' = held \ Some(w)
NewWork == CHOOSE w \in Works \ held : TRUE
GotWork ==
    /\ At(Loops, "asking") /\ Works \ held # {}
    /\ held' = held \cup {NewWork}
    /\ \/ loop = "scanhash" /\ work' = NewWork /\ pc' = "scan"
          /\ UNCHANGED <<next_work, starting_next>>
       \/ loop = "queue" /\ next_work' = NewWork /\ pc' = "fill"
          /\ UNCHANGED <<work, starting_next>>
       \/ loop = "async" /\ next_work' = NewWork /\ starting_next' = TRUE
          /\ pc' = "prepared" /\ UNCHANGED work
    /\ UNCHANGED <<deven, notified, work_restart, prev_work, transition, proceed, morework,
                   pending, lost, queueVars, disable_called, failures>>
PrepareFails ==
    /\ At({"scanhash", "queue"}, "asking") /\ DeviceFails
    /\ pc' = IF loop = "scanhash" THEN "exit" ELSE "loop"
    /\ UNCHANGED <<notified, work_restart, work, next_work, held, jobVars, queueVars,
                   disable_called>>

-----------------------------------------------------------------------------
(* minerloop_scanhash.                                                     *)

AskToScan ==
    /\ At({"scanhash"}, "loop")
    /\ work_restart' = FALSE /\ pc' = "asking"
    /\ UNCHANGED <<deven, notified, work, next_work, held, jobVars, queueVars,
                   disable_called, failures>>

\* The driver has scanned: the device has failed, or the thread is to restart, or the
\* processor is to stop, or the work may be at its end.
Scan ==
    /\ At({"scanhash"}, "scan")
    /\ \/ DeviceFails /\ pc' = "wait" /\ disable_called' = TRUE /\ UNCHANGED <<work, held>>
       \/ /\ DeviceWorks
          /\ IF work_restart
             THEN pc' = "loop" /\ work' = NoWork /\ Free(work) /\ UNCHANGED disable_called
             ELSE IF Enabled THEN pc' = "scanned" /\ UNCHANGED <<work, held, disable_called>>
             ELSE pc' = "wait" /\ disable_called' = TRUE /\ UNCHANGED <<work, held>>
    /\ UNCHANGED <<notified, work_restart, next_work, jobVars, queueVars>>

\* abandon_work
ScanOn ==
    /\ At({"scanhash"}, "scanned") /\ pc' = "scan"
    /\ UNCHANGED <<deven, notified, work_restart, work, next_work, held, jobVars, queueVars,
                   disable_called, failures>>
Abandon ==
    /\ At({"scanhash"}, "scanned") /\ pc' = "loop"
    /\ work' = NoWork /\ Free(work)
    /\ UNCHANGED <<deven, notified, work_restart, next_work, jobVars, queueVars,
                   disable_called, failures>>

\* mt_disable: the thread sleeps on its notifier until the processor is enabled.
Wake ==
    /\ At({"scanhash"}, "wait") /\ notified
    /\ notified' = FALSE
    /\ IF Enabled
       THEN /\ disable_called' = FALSE
            /\ pc' = IF work = NoWork THEN "loop" ELSE "scanned"
       ELSE UNCHANGED <<disable_called, pc>>
    /\ UNCHANGED <<deven, work_restart, work, next_work, held, jobVars, queueVars, failures>>

\* The end of miner_thread.
ExitThread ==
    /\ At({"scanhash"}, "exit") /\ pc' = "exited"
    /\ deven' = "disabled"
    /\ UNCHANGED <<notified, work_restart, work, next_work, held, jobVars, queueVars,
                   disable_called, failures>>

-----------------------------------------------------------------------------
(* minerloop_async.                                                        *)

\* The restart is not taken note of.
MutantUnheeded ==
    /\ transition' = TRUE /\ morework' = FALSE
    /\ \/ /\ pc' = "asking"
          /\ next_work' = NoWork /\ Free(next_work)
          /\ UNCHANGED <<starting_next, work_restart>>
       \/ /\ work # NoWork
          /\ pc' = "prepared" /\ starting_next' = FALSE
          /\ UNCHANGED <<work_restart, next_work, held>>
    /\ UNCHANGED <<deven, notified, work, prev_work, proceed, pending, lost, queueVars,
                   failures>>

\* do_job_prepare, up to the work it asks for or the work it goes on with.
PrepareJob ==
    /\ transition' = TRUE /\ morework' = FALSE
    /\ \/ /\ pc' = "asking" /\ work_restart' = FALSE
          /\ next_work' = NoWork /\ Free(next_work)
          /\ UNCHANGED starting_next
       \/ /\ work # NoWork
          /\ pc' = "prepared" /\ starting_next' = FALSE
          /\ UNCHANGED <<work_restart, next_work, held>>
    /\ UNCHANGED <<deven, notified, work, prev_work, proceed, pending, lost, queueVars,
                   failures>>

StartJob ==
    /\ At({"async"}, "loop") /\ Enabled /\ work = NoWork /\ ~transition
    /\ disable_called' = FALSE
    /\ PrepareJob
NextJob ==
    /\ At({"async"}, "loop") /\ Enabled /\ (work # NoWork \/ transition)
    /\ work_restart \/ morework
    /\ UNCHANGED disable_called
    /\ PrepareJob

\* do_get_results, which also stops a job when no other is to be started.
GetResults(goOn) ==
    /\ transition' = TRUE /\ proceed' = goOn
    /\ \/ pc' = "fetched" /\ pending' = "none"
       \/ pc' = "loop" /\ pending' = "results"

\* job_prepare_complete
Prepared ==
    /\ At({"async"}, "prepared")
    /\ IF work # NoWork THEN GetResults(TRUE)
       ELSE pc' = "starting" /\ UNCHANGED <<transition, proceed, pending>>
    /\ UNCHANGED <<deven, notified, work_restart, work, next_work, prev_work, starting_next,
                   morework, lost, held, queueVars, disable_called, failures>>

\* The job before the last is not freed.
MutantDisableStart ==
    /\ disable_called' = TRUE /\ transition' = FALSE
    /\ prev_work' = work /\ work' = NoWork /\ UNCHANGED held

\* mt_disable_start__async: the job stopped before this one is freed.
DisableStart ==
    /\ disable_called' = TRUE /\ transition' = FALSE
    /\ prev_work' = work /\ work' = NoWork /\ Free(prev_work)

\* Nothing to stop, nothing to say of it.
MutantUnsaid ==
    /\ At({"async"}, "loop") /\ ~Enabled
    /\ work # NoWork /\ (~transition \/ morework)
    /\ morework' = FALSE
    /\ GetResults(FALSE)
    /\ UNCHANGED <<work, prev_work, held, disable_called, deven, notified, work_restart,
                   next_work, starting_next, lost, queueVars, failures>>

\* A processor that should not run stops its job, when no other is being started; it
\* will not be given more work.
ToStop == work # NoWork \/ ~disable_called
StopJob ==
    /\ At({"async"}, "loop") /\ ~Enabled
    /\ morework \/ (~transition /\ ToStop)
    /\ morework' = FALSE
    /\ IF work # NoWork
       THEN GetResults(FALSE) /\ UNCHANGED <<work, prev_work, held, disable_called>>
       ELSE UNCHANGED <<pc, proceed, pending>>
            /\ IF ToStop THEN DisableStart
               ELSE transition' = FALSE /\ UNCHANGED <<work, prev_work, held, disable_called>>
    /\ UNCHANGED <<deven, notified, work_restart, next_work, starting_next, lost, queueVars,
                   failures>>

\* job_results_fetched
Fetched ==
    /\ At({"async"}, "fetched")
    /\ IF proceed
       THEN /\ pc' = "starting"
            /\ UNCHANGED <<work, prev_work, held, transition, disable_called>>
            /\ DeviceWorks
       ELSE /\ pc' = "loop" /\ DisableStart
            /\ IF prev_work # NoWork THEN DeviceWorks \/ DeviceFails ELSE DeviceWorks
    /\ UNCHANGED <<notified, work_restart, next_work, starting_next, proceed, morework,
                   pending, lost, queueVars>>

\* job_start: the driver has started the job (mt_job_transition), or goes on with it
\* later, or gives up (job_start_abort).
JobStarted ==
    /\ At({"async"}, "starting") /\ pc' = "loop"
    /\ transition' = FALSE /\ morework' = TRUE /\ pending' = "none"
    /\ IF starting_next
       THEN prev_work' = work /\ work' = next_work /\ next_work' = NoWork /\ Free(prev_work)
       ELSE UNCHANGED <<prev_work, work, next_work, held>>
    /\ IF prev_work' # NoWork THEN DeviceWorks \/ DeviceFails ELSE DeviceWorks
    /\ UNCHANGED <<notified, work_restart, starting_next, proceed, lost, queueVars,
                   disable_called>>
\* The job counts as started while the driver is busy.
MutantBusy ==
    /\ At({"async"}, "starting") /\ pc' = "loop" /\ pending' = "start"
    /\ transition' = FALSE
    /\ UNCHANGED <<deven, notified, work_restart, work, next_work, held, prev_work,
                   starting_next, proceed, morework, lost, queueVars, disable_called,
                   failures>>

JobBusy ==
    /\ At({"async"}, "starting") /\ pc' = "loop" /\ pending' = "start"
    /\ UNCHANGED <<deven, notified, work_restart, work, next_work, held, prev_work,
                   transition, starting_next, proceed, morework, lost, queueVars,
                   disable_called, failures>>
JobAborted ==
    /\ At({"async"}, "starting") /\ pc' = "loop" /\ DeviceFails
    /\ work' = NoWork /\ lost' = lost \cup Some(work)
    /\ transition' = FALSE /\ pending' = "none"
    /\ UNCHANGED <<notified, work_restart, next_work, held, prev_work, starting_next, proceed,
                   morework, queueVars, disable_called>>

\* The poll function of the driver goes on with a job or its results.
Poll ==
    /\ At({"async"}, "loop") /\ pending # "none"
    /\ pc' = IF pending = "results" THEN "fetched" ELSE "starting"
    /\ pending' = "none"
    /\ UNCHANGED <<deven, notified, work_restart, work, next_work, held, prev_work,
                   transition, starting_next, proceed, morework, lost, queueVars,
                   disable_called, failures>>

\* A driver that has no job left stops it by itself (x6500_fpga_poll).
JobRanOut ==
    /\ At({"async"}, "loop") /\ work # NoWork /\ ~transition
    /\ DisableStart
    /\ UNCHANGED <<deven, notified, work_restart, pc, next_work, starting_next, proceed,
                   morework, pending, lost, queueVars, failures>>

-----------------------------------------------------------------------------
(* minerloop_queue.                                                        *)

\* do_queue_flush; the driver forgets its works.
Flush == queue' = {} /\ next_work' = NoWork /\ held' = held \ (queue \cup Some(next_work))

QueueEnabled ==
    /\ At({"queue"}, "loop") /\ Enabled
    /\ disable_called \/ work_restart \/ ~queue_full
    /\ pc' = "fill" /\ disable_called' = FALSE /\ work_restart' = FALSE
    /\ IF work_restart THEN Flush /\ queue_full' = FALSE
       ELSE UNCHANGED <<queue, queue_full, next_work, held>>
    /\ UNCHANGED <<deven, notified, work, jobVars, failures>>

\* queue_append; a driver that has no room leaves the work for later.
Fill ==
    /\ At({"queue"}, "fill")
    /\ IF queue_full THEN pc' = "loop" /\ UNCHANGED <<queue, queue_full, next_work>>
       ELSE IF next_work = NoWork THEN pc' = "asking" /\ UNCHANGED <<queue, queue_full, next_work>>
       ELSE /\ UNCHANGED pc
            /\ IF Cardinality(queue) < QueueDepth
               THEN queue' = queue \cup {next_work} /\ next_work' = NoWork /\ UNCHANGED queue_full
               ELSE queue_full' = TRUE /\ UNCHANGED <<queue, next_work>>
    /\ UNCHANGED <<deven, notified, work_restart, work, held, jobVars, disable_called,
                   failures>>

\* The works are left in the device.
MutantUnflushed ==
    /\ At({"queue"}, "loop") /\ ~Enabled /\ ~disable_called
    /\ disable_called' = TRUE
    /\ UNCHANGED <<deven, notified, work_restart, pc, work, next_work, held, queueVars,
                   jobVars, failures>>

QueueDisabled ==
    /\ At({"queue"}, "loop") /\ ~Enabled /\ ~disable_called
    /\ Flush /\ queue_full' = FALSE
    /\ disable_called' = TRUE
    /\ UNCHANGED <<deven, notified, work_restart, pc, work, jobVars, failures>>

\* The poll function finds that the device is through with a work.
WorkDone ==
    /\ At({"queue"}, "loop")
    /\ \E w \in queue : queue' = queue \ {w} /\ Free(w)
    /\ queue_full' = FALSE
    /\ UNCHANGED <<deven, notified, work_restart, pc, work, next_work, jobVars,
                   disable_called, failures>>

-----------------------------------------------------------------------------
(* Control from outside.  The watchdog of the last two loops runs in them. *)

controlled == <<loop, work_restart, pc, work, next_work, held, jobVars, queueVars,
                disable_called>>

Command == commands < MaxCommands /\ commands' = commands + 1

\* Nobody wakes the thread.
MutantSilent == deven' = "enabled" /\ UNCHANGED notified

\* proc_enable
ProcEnable == deven' = "enabled" /\ notified' = TRUE

Enable ==
    /\ deven # "enabled" /\ Command /\ ProcEnable
    /\ UNCHANGED <<controlled, pause, watchdog, schedule, failures>>
Disable ==
    /\ deven # "disabled" /\ Command /\ deven' = "disabled"
    /\ UNCHANGED <<controlled, pause, notified, watchdog, schedule, failures>>

SchedulePause ==
    /\ ~pause /\ Command /\ pause' = TRUE
    /\ UNCHANGED <<controlled, deven, notified, watchdog, schedule, failures>>

\* The threads go on, and every processor is enabled that is not found disabled.
ScheduleResume ==
    /\ pause /\ pause' = FALSE
    /\ schedule' = (deven # "disabled")
    /\ UNCHANGED <<controlled, deven, notified, watchdog, commands, failures>>
ScheduleEnable ==
    /\ schedule /\ schedule' = FALSE /\ ProcEnable
    /\ UNCHANGED <<controlled, pause, watchdog, commands, failures>>

\* bfg_watchdog: the device got too hot, or has cooled, or has been given time.
WatchdogRuns == loop = "scanhash" \/ pc = "loop"
Overheat ==
    /\ WatchdogRuns /\ deven = "enabled" /\ ~watchdog
    /\ failures < MaxFailures /\ failures' = failures + 1 /\ deven' = "recover"
    /\ UNCHANGED <<controlled, pause, notified, watchdog, schedule, commands>>
WatchdogLooks ==
    /\ WatchdogRuns /\ deven \in {"recover", "recover_err"} /\ ~watchdog
    /\ watchdog' = TRUE
    /\ UNCHANGED <<controlled, deven, pause, notified, schedule, commands, failures>>
WatchdogEnables ==
    /\ WatchdogRuns /\ watchdog /\ watchdog' = FALSE /\ ProcEnable
    /\ UNCHANGED <<controlled, pause, schedule, commands, failures>>

\* restart_threads
Restart ==
    /\ ~work_restart /\ Command /\ work_restart' = TRUE
    /\ UNCHANGED <<loop, pause, watchdog, schedule, deven, notified, pc, work, next_work, held, jobVars,
                   queueVars, disable_called, failures>>

-----------------------------------------------------------------------------
ScanhashStep == AskToScan \/ Scan \/ ScanOn \/ Abandon \/ Wake \/ ExitThread
AsyncStep ==
    \/ StartJob \/ NextJob \/ Prepared \/ StopJob \/ Fetched
    \/ JobStarted \/ JobBusy \/ JobAborted \/ Poll
    \/ JobRanOut
QueueStep == QueueEnabled \/ Fill \/ QueueDisabled \/ WorkDone

ThreadStep ==
    \/ BeginLoop \/ GotWork \/ PrepareFails
    \/ ScanhashStep \/ AsyncStep \/ QueueStep
ControlStep ==
    \/ Enable \/ Disable \/ SchedulePause \/ ScheduleResume \/ ScheduleEnable
    \/ Overheat \/ WatchdogLooks \/ WatchdogEnables
    \/ Restart

Next == ThreadStep \/ ControlStep

Spec == Init /\ [][Next]_vars

\* The mining thread runs, gets works in the end, and goes from one iteration of its
\* loop to the next; a driver does not stay busy for ever, and a job is abandoned
\* in the end.  The schedule finishes what it began.  Nobody has to enable or
\* disable anything.
Fairness ==
    /\ WF_vars(ThreadStep) /\ WF_vars(ScheduleEnable)
    /\ SF_vars(StartJob \/ StopJob \/ QueueEnabled \/ QueueDisabled)
    /\ SF_vars(JobStarted)
    /\ SF_vars(NextJob /\ pc' = "asking")

FairSpec == Spec /\ Fairness

-----------------------------------------------------------------------------
Places == {"begin", "loop", "asking", "scan", "scanned", "wait", "exit", "exited",
           "prepared", "fetched", "starting", "fill"}

PlaceType ==
    /\ loop \in Loops /\ pc \in Places
    /\ deven \in {"enabled", "disabled", "recover", "recover_err"}
    /\ pending \in {"none", "results", "start"}

FlagType ==
    /\ pause \in BOOLEAN /\ notified \in BOOLEAN /\ work_restart \in BOOLEAN
    /\ queue_full \in BOOLEAN /\ transition \in BOOLEAN /\ starting_next \in BOOLEAN
    /\ proceed \in BOOLEAN /\ morework \in BOOLEAN /\ disable_called \in BOOLEAN
    /\ watchdog \in BOOLEAN /\ schedule \in BOOLEAN

WorkType ==
    /\ work \in Works \cup {NoWork} /\ next_work \in Works \cup {NoWork}
    /\ prev_work \in Works \cup {NoWork}
    /\ queue \subseteq Works /\ held \subseteq Works /\ lost \subseteq Works

BoundType == commands \in 0 .. MaxCommands /\ failures \in 0 .. MaxFailures

\* The control state of the three loops, and that a driver goes on with a job or with
\* its results only while the transition to the next job is in progress.
TypeOK ==
    /\ PlaceType /\ FlagType /\ WorkType /\ BoundType
    /\ pending # "none" => transition

\* Every work the thread got and has not freed is in one place, from which it will be
\* freed or used, unless job_start_abort dropped it: none leaks and none is freed twice.
WorksAccounted ==
    /\ held = InUse \cup lost /\ InUse \cap lost = {}
    /\ Some(work) \cap (Some(next_work) \cup Some(prev_work) \cup queue) = {}
    /\ Some(next_work) \cap (Some(prev_work) \cup queue) = {}
    /\ Some(prev_work) \cap queue = {}

\* The work a job would be started with is there.
JobReady == IF starting_next THEN next_work # NoWork ELSE work # NoWork

\* A job is started only with the work prepared for it, and a processor stands disabled
\* only without a job and with nothing left to do for its driver.
DisabledIsIdle ==
    /\ pc = "starting" => JobReady
    /\ loop # "scanhash" /\ disable_called =>
         work = NoWork /\ queue = {} /\ ~transition /\ pending = "none"

\* A processor that is disabled, too hot, failed or paused stops.
Stops == ~Enabled ~> (disable_called \/ Enabled \/ pc = "exited")

\* A processor that is enabled works again, unless its thread has ended.
Running == (loop = "scanhash" /\ pc \in {"scan", "scanned"}) \/ work # NoWork \/ queue # {}
Runs == Enabled ~> ((Running /\ ~disable_called) \/ ~Enabled \/ pc = "exited")

\* A processor that goes on working drops or renews its work when it is told to restart.
RestartHeeded == work_restart ~> (~work_restart \/ ~Enabled \/ pc = "exited")
=============================================================================
