-------------------------- MODULE DeviceLoopProofs --------------------------
(***************************************************************************)
(* Safety of the mining loops, for any number of works, commands and       *)
(* failures: the invariants of DeviceLoop follow from which slot of the    *)
(* thread is in use at which point of which loop.                          *)
(***************************************************************************)
EXTENDS DeviceLoop, TLAPS

\* Which slots are empty where the thread is: a loop fills only its own, and asks for
\* a work only when it has none.
SlotsEmpty ==
    /\ loop = "async" => queue = {}
    /\ loop = "queue" => work = NoWork
    /\ pc = "asking" => IF loop = "scanhash" THEN work = NoWork ELSE next_work = NoWork
    /\ loop = "scanhash" /\ pc \in {"begin", "loop"} => work = NoWork
    /\ loop = "queue" /\ pc \in {"fill", "asking"} => ~disable_called

\* What a driver that is busy leaves behind until it goes on.
BusyDriver ==
    /\ pending # "none" => ~morework
    /\ pc = "fetched" => pending = "none"
    /\ pending = "start" /\ pc # "asking" => JobReady
    /\ pending = "results" /\ proceed /\ pc # "asking" => JobReady

\* A transition to a new job, wherever it stands, has a job to end with.
TransitionReady ==
    /\ pc \in {"prepared", "starting"} => JobReady
    /\ pc = "fetched" /\ proceed => JobReady
    /\ loop = "async" /\ pc \in {"asking", "prepared", "fetched", "starting"} =>
         transition /\ ~morework
    /\ loop # "async" => ~transition

IInv == TypeOK /\ WorksAccounted /\ DisabledIsIdle /\ SlotsEmpty /\ BusyDriver /\ TransitionReady

-----------------------------------------------------------------------------
(* The slots of the thread as values: the facts below are about sets only. *)
Accounted(a, b, c, q, h, l) ==
    /\ h = Some(a) \cup Some(b) \cup Some(c) \cup q \cup l
    /\ (Some(a) \cup Some(b) \cup Some(c) \cup q) \cap l = {}
    /\ Some(a) \cap (Some(b) \cup Some(c) \cup q) = {}
    /\ Some(b) \cap (Some(c) \cup q) = {}
    /\ Some(c) \cap q = {}

LEMMA AccountedWorks ==
    WorksAccounted <=> Accounted(work, next_work, prev_work, queue, held, lost)
BY DEF WorksAccounted, Accounted, InUse

\* A work is got into an empty slot ...
LEMMA GetWork ==
    ASSUME NEW a, NEW b, NEW c, NEW q, NEW h, NEW l, Accounted(a, b, c, q, h, l),
           NEW n, n # NoWork, n \notin h
    PROVE  /\ a = NoWork => Accounted(n, b, c, q, h \cup {n}, l)
           /\ b = NoWork => Accounted(a, n, c, q, h \cup {n}, l)
BY DEF Accounted, Some

\* ... and freed ...
LEMMA FreeWork ==
    ASSUME NEW a, NEW b, NEW c, NEW q, NEW h, NEW l, Accounted(a, b, c, q, h, l)
    PROVE  /\ Accounted(NoWork, b, c, q, h \ Some(a), l)
           /\ Accounted(a, NoWork, c, q, h \ Some(b), l)
BY DEF Accounted, Some

\* ... and moved on, what was in the last slot being freed ...
LEMMA ShiftWork ==
    ASSUME NEW a, NEW b, NEW c, NEW q, NEW h, NEW l, Accounted(a, b, c, q, h, l)
    PROVE  /\ Accounted(NoWork, b, a, q, h \ Some(c), l)
           /\ Accounted(b, NoWork, a, q, h \ Some(c), l)
BY DEF Accounted, Some

\* ... or forgotten ...
LEMMA ForgetWork ==
    ASSUME NEW a, NEW b, NEW c, NEW q, NEW h, NEW l, Accounted(a, b, c, q, h, l)
    PROVE  Accounted(NoWork, b, c, q, h, l \cup Some(a))
BY DEF Accounted, Some

\* ... or handed to the device and taken back from it.
LEMMA QueueWork ==
    ASSUME NEW a, NEW b, NEW c, NEW q, NEW h, NEW l, Accounted(a, b, c, q, h, l)
    PROVE  /\ b # NoWork => Accounted(a, NoWork, c, q \cup {b}, h, l)
           /\ Accounted(a, NoWork, c, {}, h \ (q \cup Some(b)), l)
           /\ \A w \in q : w # NoWork => Accounted(a, b, c, q \ {w}, h \ Some(w), l)
BY DEF Accounted, Some

-----------------------------------------------------------------------------
(* Steps that move works.                                                   *)

LEMMA ScanSlots ==
    ASSUME IInv, Scan PROVE WorkType' /\ WorksAccounted'
<1>1. Accounted(work, next_work, prev_work, queue, held, lost)
  BY AccountedWorks DEF IInv
<1>2. Accounted(NoWork, next_work, prev_work, queue, held \ Some(work), lost)
  BY <1>1, FreeWork
<1>3. UNCHANGED <<next_work, prev_work, queue, lost>>
  BY DEF Scan, jobVars, queueVars
<1>4. \/ (work' = NoWork /\ held' = held \ Some(work))
     \/ UNCHANGED <<work, held>>
  BY DEF Scan, Free
<1>5. Accounted(work', next_work', prev_work', queue', held', lost')
  BY <1>1, <1>2, <1>3, <1>4
<1>6. WorkType'
  BY <1>3, <1>4 DEF IInv, TypeOK, WorkType, Some
<1> QED BY <1>5, <1>6 DEF WorksAccounted, Accounted, InUse

LEMMA AbandonSlots ==
    ASSUME IInv, Abandon PROVE WorkType' /\ WorksAccounted'
<1>1. Accounted(work, next_work, prev_work, queue, held, lost)
  BY AccountedWorks DEF IInv
<1>2. Accounted(NoWork, next_work, prev_work, queue, held \ Some(work), lost)
  BY <1>1, FreeWork
<1>3. UNCHANGED <<next_work, prev_work, queue, lost>>
  BY DEF Abandon, jobVars, queueVars
<1>4. (work' = NoWork /\ held' = held \ Some(work))
  BY DEF Abandon, Free
<1>5. Accounted(work', next_work', prev_work', queue', held', lost')
  BY <1>1, <1>2, <1>3, <1>4
<1>6. WorkType'
  BY <1>3, <1>4 DEF IInv, TypeOK, WorkType, Some
<1> QED BY <1>5, <1>6 DEF WorksAccounted, Accounted, InUse

LEMMA PrepareJobSlots ==
    ASSUME IInv, PrepareJob PROVE WorkType' /\ WorksAccounted'
<1>1. Accounted(work, next_work, prev_work, queue, held, lost)
  BY AccountedWorks DEF IInv
<1>2. Accounted(work, NoWork, prev_work, queue, held \ Some(next_work), lost)
  BY <1>1, FreeWork
<1>3. UNCHANGED <<work, prev_work, queue, lost>>
  BY DEF PrepareJob, jobVars, queueVars
<1>4. \/ (next_work' = NoWork /\ held' = held \ Some(next_work))
     \/ UNCHANGED <<next_work, held>>
  BY DEF PrepareJob, Free
<1>5. Accounted(work', next_work', prev_work', queue', held', lost')
  BY <1>1, <1>2, <1>3, <1>4
<1>6. WorkType'
  BY <1>3, <1>4 DEF IInv, TypeOK, WorkType, Some
<1> QED BY <1>5, <1>6 DEF WorksAccounted, Accounted, InUse

LEMMA StopJobSlots ==
    ASSUME IInv, StopJob PROVE WorkType' /\ WorksAccounted'
<1>1. Accounted(work, next_work, prev_work, queue, held, lost)
  BY AccountedWorks DEF IInv
<1>2. Accounted(NoWork, next_work, work, queue, held \ Some(prev_work), lost)
  BY <1>1, ShiftWork
<1>3. UNCHANGED <<next_work, queue, lost>>
  BY DEF StopJob, jobVars, queueVars
<1>4. \/ (work' = NoWork /\ prev_work' = work /\ held' = held \ Some(prev_work))
     \/ UNCHANGED <<work, prev_work, held>>
  BY DEF StopJob, DisableStart, Free
<1>5. Accounted(work', next_work', prev_work', queue', held', lost')
  BY <1>1, <1>2, <1>3, <1>4
<1>6. WorkType'
  BY <1>3, <1>4 DEF IInv, TypeOK, WorkType, Some
<1> QED BY <1>5, <1>6 DEF WorksAccounted, Accounted, InUse

LEMMA FetchedSlots ==
    ASSUME IInv, Fetched PROVE WorkType' /\ WorksAccounted'
<1>1. Accounted(work, next_work, prev_work, queue, held, lost)
  BY AccountedWorks DEF IInv
<1>2. Accounted(NoWork, next_work, work, queue, held \ Some(prev_work), lost)
  BY <1>1, ShiftWork
<1>3. UNCHANGED <<next_work, queue, lost>>
  BY DEF Fetched, jobVars, queueVars
<1>4. \/ (work' = NoWork /\ prev_work' = work /\ held' = held \ Some(prev_work))
     \/ UNCHANGED <<work, prev_work, held>>
  BY DEF Fetched, DisableStart, Free
<1>5. Accounted(work', next_work', prev_work', queue', held', lost')
  BY <1>1, <1>2, <1>3, <1>4
<1>6. WorkType'
  BY <1>3, <1>4 DEF IInv, TypeOK, WorkType, Some
<1> QED BY <1>5, <1>6 DEF WorksAccounted, Accounted, InUse

LEMMA JobRanOutSlots ==
    ASSUME IInv, JobRanOut PROVE WorkType' /\ WorksAccounted'
<1>1. Accounted(work, next_work, prev_work, queue, held, lost)
  BY AccountedWorks DEF IInv
<1>2. Accounted(NoWork, next_work, work, queue, held \ Some(prev_work), lost)
  BY <1>1, ShiftWork
<1>3. UNCHANGED <<next_work, queue, lost>>
  BY DEF JobRanOut, jobVars, queueVars
<1>4. (work' = NoWork /\ prev_work' = work /\ held' = held \ Some(prev_work))
  BY DEF JobRanOut, DisableStart, Free
<1>5. Accounted(work', next_work', prev_work', queue', held', lost')
  BY <1>1, <1>2, <1>3, <1>4
<1>6. WorkType'
  BY <1>3, <1>4 DEF IInv, TypeOK, WorkType, Some
<1> QED BY <1>5, <1>6 DEF WorksAccounted, Accounted, InUse

LEMMA JobStartedSlots ==
    ASSUME IInv, JobStarted PROVE WorkType' /\ WorksAccounted'
<1>1. Accounted(work, next_work, prev_work, queue, held, lost)
  BY AccountedWorks DEF IInv
<1>2. Accounted(next_work, NoWork, work, queue, held \ Some(prev_work), lost)
  BY <1>1, ShiftWork
<1>3. UNCHANGED <<queue, lost>>
  BY DEF JobStarted, jobVars, queueVars
<1>4. \/ (work' = next_work /\ next_work' = NoWork /\ prev_work' = work /\ held' = held \ Some(prev_work))
     \/ UNCHANGED <<work, next_work, prev_work, held>>
  BY DEF JobStarted, Free
<1>5. Accounted(work', next_work', prev_work', queue', held', lost')
  BY <1>1, <1>2, <1>3, <1>4
<1>6. WorkType'
  BY <1>3, <1>4 DEF IInv, TypeOK, WorkType, Some
<1> QED BY <1>5, <1>6 DEF WorksAccounted, Accounted, InUse

LEMMA JobAbortedSlots ==
    ASSUME IInv, JobAborted PROVE WorkType' /\ WorksAccounted'
<1>1. Accounted(work, next_work, prev_work, queue, held, lost)
  BY AccountedWorks DEF IInv
<1>2. Accounted(NoWork, next_work, prev_work, queue, held, lost \cup Some(work))
  BY <1>1, ForgetWork
<1>3. UNCHANGED <<next_work, prev_work, queue, held>>
  BY DEF JobAborted, jobVars, queueVars
<1>4. (work' = NoWork /\ lost' = lost \cup Some(work))
  BY DEF JobAborted
<1>5. Accounted(work', next_work', prev_work', queue', held', lost')
  BY <1>1, <1>2, <1>3, <1>4
<1>6. WorkType'
  BY <1>3, <1>4 DEF IInv, TypeOK, WorkType, Some
<1> QED BY <1>5, <1>6 DEF WorksAccounted, Accounted, InUse

LEMMA QueueEnabledSlots ==
    ASSUME IInv, QueueEnabled PROVE WorkType' /\ WorksAccounted'
<1>1. Accounted(work, next_work, prev_work, queue, held, lost)
  BY AccountedWorks DEF IInv
<1>2. Accounted(work, NoWork, prev_work, {}, held \ (queue \cup Some(next_work)), lost)
  BY <1>1, QueueWork
<1>3. UNCHANGED <<work, prev_work, lost>>
  BY DEF QueueEnabled, jobVars, queueVars
<1>4. \/ (queue' = {} /\ next_work' = NoWork /\ held' = held \ (queue \cup Some(next_work)))
     \/ UNCHANGED <<queue, next_work, held>>
  BY DEF QueueEnabled, Flush
<1>5. Accounted(work', next_work', prev_work', queue', held', lost')
  BY <1>1, <1>2, <1>3, <1>4
<1>6. WorkType'
  BY <1>3, <1>4 DEF IInv, TypeOK, WorkType, Some
<1> QED BY <1>5, <1>6 DEF WorksAccounted, Accounted, InUse

LEMMA QueueDisabledSlots ==
    ASSUME IInv, QueueDisabled PROVE WorkType' /\ WorksAccounted'
<1>1. Accounted(work, next_work, prev_work, queue, held, lost)
  BY AccountedWorks DEF IInv
<1>2. Accounted(work, NoWork, prev_work, {}, held \ (queue \cup Some(next_work)), lost)
  BY <1>1, QueueWork
<1>3. UNCHANGED <<work, prev_work, lost>>
  BY DEF QueueDisabled, jobVars, queueVars
<1>4. (queue' = {} /\ next_work' = NoWork /\ held' = held \ (queue \cup Some(next_work)))
  BY DEF QueueDisabled, Flush
<1>5. Accounted(work', next_work', prev_work', queue', held', lost')
  BY <1>1, <1>2, <1>3, <1>4
<1>6. WorkType'
  BY <1>3, <1>4 DEF IInv, TypeOK, WorkType, Some
<1> QED BY <1>5, <1>6 DEF WorksAccounted, Accounted, InUse

\* get_work returns a work that is not in use.
LEMMA NewWorkIsNew ==
    ASSUME GotWork PROVE NewWork \in Works /\ NewWork \notin held /\ NewWork # NoWork
BY DeviceAssumption DEF GotWork, NewWork, NoWork

LEMMA GotWorkSlots ==
    ASSUME IInv, GotWork PROVE WorkType' /\ WorksAccounted'
<1>1. NewWork \in Works /\ NewWork \notin held /\ NewWork # NoWork
  BY NewWorkIsNew
<1>2. Accounted(work, next_work, prev_work, queue, held, lost)
  BY AccountedWorks DEF IInv
<1>3. /\ work = NoWork => Accounted(NewWork, next_work, prev_work, queue, held \cup {NewWork}, lost)
      /\ next_work = NoWork => Accounted(work, NewWork, prev_work, queue, held \cup {NewWork}, lost)
  BY <1>1, <1>2, GetWork
<1>4. held' = held \cup {NewWork} /\ UNCHANGED <<prev_work, queue, lost>>
  BY DEF GotWork, queueVars
<1>5. \/ work = NoWork /\ work' = NewWork /\ UNCHANGED next_work
      \/ next_work = NoWork /\ next_work' = NewWork /\ UNCHANGED work
  BY DEF GotWork, At, IInv, SlotsEmpty
<1>6. Accounted(work', next_work', prev_work', queue', held', lost')
  BY <1>3, <1>4, <1>5
<1>7. WorkType'
  BY <1>1, <1>4, <1>5 DEF IInv, TypeOK, WorkType
<1> QED BY <1>6, <1>7 DEF WorksAccounted, Accounted, InUse

LEMMA FillSlots ==
    ASSUME IInv, Fill PROVE WorkType' /\ WorksAccounted'
<1>1. Accounted(work, next_work, prev_work, queue, held, lost)
  BY AccountedWorks DEF IInv
<1>2. next_work # NoWork =>
        Accounted(work, NoWork, prev_work, queue \cup {next_work}, held, lost)
  BY <1>1, QueueWork
<1>3. UNCHANGED <<work, prev_work, held, lost>>
  BY DEF Fill, jobVars
<1>4. \/ next_work # NoWork /\ queue' = queue \cup {next_work} /\ next_work' = NoWork
      \/ UNCHANGED <<queue, next_work>>
  BY DEF Fill
<1>5. Accounted(work', next_work', prev_work', queue', held', lost')
  BY <1>1, <1>2, <1>3, <1>4
<1>6. WorkType'
  BY <1>3, <1>4 DEF IInv, TypeOK, WorkType
<1> QED BY <1>5, <1>6 DEF WorksAccounted, Accounted, InUse

LEMMA WorkDoneSlots ==
    ASSUME IInv, WorkDone PROVE WorkType' /\ WorksAccounted'
<1>1. PICK w \in queue : queue' = queue \ {w} /\ held' = held \ Some(w)
  BY DEF WorkDone, Free
<1>2. Accounted(work, next_work, prev_work, queue, held, lost)
  BY AccountedWorks DEF IInv
<1>3. w # NoWork
  BY DeviceAssumption DEF IInv, TypeOK, WorkType
<1>4. Accounted(work, next_work, prev_work, queue \ {w}, held \ Some(w), lost)
  BY <1>2, <1>3, QueueWork
<1>5. UNCHANGED <<work, next_work, prev_work, lost>>
  BY DEF WorkDone, jobVars
<1>6. Accounted(work', next_work', prev_work', queue', held', lost')
  BY <1>1, <1>4, <1>5
<1>7. WorkType'
  BY <1>1, <1>5 DEF IInv, TypeOK, WorkType
<1> QED BY <1>6, <1>7 DEF WorksAccounted, Accounted, InUse

\* The other steps move none.
LEMMA SlotsKept ==
    ASSUME IInv, Next PROVE WorkType' /\ WorksAccounted'
<1> DEFINE Same == UNCHANGED <<work, next_work, prev_work, queue, held, lost>>
<1>a. Same => WorkType' /\ WorksAccounted'
  BY DEF IInv, TypeOK, WorkType, WorksAccounted, InUse
<1>1. CASE BeginLoop
  BY <1>1, <1>a DEF BeginLoop, jobVars, queueVars
<1>2. CASE GotWork  BY <1>2, GotWorkSlots
<1>3. CASE PrepareFails
  BY <1>3, <1>a DEF PrepareFails, jobVars, queueVars
<1>4. CASE AskToScan
  BY <1>4, <1>a DEF AskToScan, jobVars, queueVars
<1>5. CASE Scan  BY <1>5, ScanSlots
<1>6. CASE ScanOn
  BY <1>6, <1>a DEF ScanOn, jobVars, queueVars
<1>7. CASE Abandon  BY <1>7, AbandonSlots
<1>8. CASE Wake
  BY <1>8, <1>a DEF Wake, jobVars, queueVars
<1>9. CASE ExitThread
  BY <1>9, <1>a DEF ExitThread, jobVars, queueVars
<1>10. CASE StartJob  BY <1>10, PrepareJobSlots DEF StartJob
<1>11. CASE NextJob  BY <1>11, PrepareJobSlots DEF NextJob
<1>12. CASE Prepared
  BY <1>12, <1>a DEF Prepared, jobVars, queueVars
<1>13. CASE StopJob  BY <1>13, StopJobSlots
<1>14. CASE Fetched  BY <1>14, FetchedSlots
<1>15. CASE JobStarted  BY <1>15, JobStartedSlots
<1>16. CASE JobBusy
  BY <1>16, <1>a DEF JobBusy, jobVars, queueVars
<1>17. CASE JobAborted  BY <1>17, JobAbortedSlots
<1>18. CASE Poll
  BY <1>18, <1>a DEF Poll, jobVars, queueVars
<1>19. CASE JobRanOut  BY <1>19, JobRanOutSlots
<1>20. CASE QueueEnabled  BY <1>20, QueueEnabledSlots
<1>21. CASE Fill  BY <1>21, FillSlots
<1>22. CASE QueueDisabled  BY <1>22, QueueDisabledSlots
<1>23. CASE WorkDone  BY <1>23, WorkDoneSlots
<1>24. CASE Enable
  BY <1>24, <1>a DEF Enable, jobVars, queueVars, controlled
<1>25. CASE Disable
  BY <1>25, <1>a DEF Disable, jobVars, queueVars, controlled
<1>26. CASE SchedulePause
  BY <1>26, <1>a DEF SchedulePause, jobVars, queueVars, controlled
<1>27. CASE ScheduleResume
  BY <1>27, <1>a DEF ScheduleResume, jobVars, queueVars, controlled
<1>28. CASE ScheduleEnable
  BY <1>28, <1>a DEF ScheduleEnable, jobVars, queueVars, controlled
<1>29. CASE Overheat
  BY <1>29, <1>a DEF Overheat, jobVars, queueVars, controlled
<1>30. CASE WatchdogLooks
  BY <1>30, <1>a DEF WatchdogLooks, jobVars, queueVars, controlled
<1>31. CASE WatchdogEnables
  BY <1>31, <1>a DEF WatchdogEnables, jobVars, queueVars, controlled
<1>32. CASE Restart
  BY <1>32, <1>a DEF Restart, jobVars, queueVars, controlled
<1> QED
  BY <1>1, <1>2, <1>3, <1>4, <1>5, <1>6, <1>7, <1>8, <1>9, <1>10, <1>11, <1>12,
     <1>13, <1>14, <1>15, <1>16, <1>17, <1>18, <1>19, <1>20, <1>21, <1>22,
     <1>23, <1>24, <1>25, <1>26, <1>27, <1>28, <1>29, <1>30, <1>31, <1>32
  DEF Next, ThreadStep, ScanhashStep, AsyncStep, QueueStep, ControlStep

-----------------------------------------------------------------------------
(* Types of the control state.                                              *)

LEMMA PlacesKept ==
    ASSUME IInv, Next PROVE PlaceType' /\ BoundType'
<1> USE DEF IInv, TypeOK, PlaceType, Places, BoundType, outsideVars, jobVars, queueVars
<1>1. CASE BeginLoop
  BY <1>1, DeviceAssumption DEF At, BeginLoop
<1>2. CASE GotWork
  BY <1>2, DeviceAssumption DEF At, GotWork
<1>3. CASE PrepareFails
  BY <1>3, DeviceAssumption DEF At, PrepareFails, DeviceFails
<1>4. CASE AskToScan
  BY <1>4, DeviceAssumption DEF At, AskToScan
<1>5. CASE Scan
  BY <1>5, DeviceAssumption DEF At, Scan, DeviceFails, DeviceWorks, Free
<1>6. CASE ScanOn
  BY <1>6, DeviceAssumption DEF At, ScanOn
<1>7. CASE Abandon
  BY <1>7, DeviceAssumption DEF At, Abandon, Free
<1>8. CASE Wake
  BY <1>8, DeviceAssumption DEF At, Wake
<1>9. CASE ExitThread
  BY <1>9, DeviceAssumption DEF At, ExitThread
<1>10. CASE StartJob
  BY <1>10, DeviceAssumption DEF At, StartJob, PrepareJob, Free
<1>11. CASE NextJob
  BY <1>11, DeviceAssumption DEF At, NextJob, PrepareJob, Free
<1>12. CASE Prepared
  BY <1>12, DeviceAssumption DEF At, Prepared, GetResults
<1>13. CASE StopJob
  BY <1>13, DeviceAssumption DEF At, StopJob, ToStop, GetResults, DisableStart, Free
<1>14. CASE Fetched
  BY <1>14, DeviceAssumption DEF At, Fetched, DisableStart, Free, DeviceWorks, DeviceFails
<1>15. CASE JobStarted
  BY <1>15, DeviceAssumption DEF At, JobStarted, Free, DeviceWorks, DeviceFails
<1>16. CASE JobBusy
  BY <1>16, DeviceAssumption DEF At, JobBusy
<1>17. CASE JobAborted
  BY <1>17, DeviceAssumption DEF At, JobAborted, DeviceFails
<1>18. CASE Poll
  BY <1>18, DeviceAssumption DEF At, Poll
<1>19. CASE JobRanOut
  BY <1>19, DeviceAssumption DEF At, JobRanOut, DisableStart, Free
<1>20. CASE QueueEnabled
  BY <1>20, DeviceAssumption DEF At, QueueEnabled, Flush
<1>21. CASE Fill
  BY <1>21, DeviceAssumption DEF At, Fill
<1>22. CASE QueueDisabled
  BY <1>22, DeviceAssumption DEF At, QueueDisabled, Flush
<1>23. CASE WorkDone
  BY <1>23, DeviceAssumption DEF At, WorkDone, Free
<1>24. CASE Enable
  BY <1>24, DeviceAssumption DEF Enable, Command, ProcEnable, controlled
<1>25. CASE Disable
  BY <1>25, DeviceAssumption DEF Disable, Command, ProcEnable, controlled
<1>26. CASE SchedulePause
  BY <1>26, DeviceAssumption DEF SchedulePause, Command, ProcEnable, controlled
<1>27. CASE ScheduleResume
  BY <1>27, DeviceAssumption DEF ScheduleResume, Command, ProcEnable, controlled
<1>28. CASE ScheduleEnable
  BY <1>28, DeviceAssumption DEF ScheduleEnable, Command, ProcEnable, controlled
<1>29. CASE Overheat
  BY <1>29, DeviceAssumption DEF Overheat, Command, ProcEnable, controlled
<1>30. CASE WatchdogLooks
  BY <1>30, DeviceAssumption DEF WatchdogLooks, Command, ProcEnable, controlled
<1>31. CASE WatchdogEnables
  BY <1>31, DeviceAssumption DEF WatchdogEnables, Command, ProcEnable, controlled
<1>32. CASE Restart
  BY <1>32, DeviceAssumption DEF Restart, Command, ProcEnable, controlled
<1> QED
  BY <1>1, <1>2, <1>3, <1>4, <1>5, <1>6, <1>7, <1>8, <1>9, <1>10, <1>11, <1>12,
     <1>13, <1>14, <1>15, <1>16, <1>17, <1>18, <1>19, <1>20, <1>21, <1>22,
     <1>23, <1>24, <1>25, <1>26, <1>27, <1>28, <1>29, <1>30, <1>31, <1>32
  DEF Next, ThreadStep, ScanhashStep, AsyncStep, QueueStep, ControlStep

LEMMA FlagsKept ==
    ASSUME IInv, Next PROVE FlagType'
<1> USE DEF IInv, TypeOK, FlagType, outsideVars, jobVars, queueVars
<1>1. CASE BeginLoop
  BY <1>1, Zenon DEF At, BeginLoop
<1>2. CASE GotWork
  BY <1>2, Zenon DEF At, GotWork
<1>3. CASE PrepareFails
  BY <1>3, Zenon DEF At, PrepareFails, DeviceFails
<1>4. CASE AskToScan
  BY <1>4, Zenon DEF At, AskToScan
<1>5. CASE Scan
  BY <1>5, Zenon DEF At, Scan, DeviceFails, DeviceWorks, Free
<1>6. CASE ScanOn
  BY <1>6, Zenon DEF At, ScanOn
<1>7. CASE Abandon
  BY <1>7, Zenon DEF At, Abandon, Free
<1>8. CASE Wake
  BY <1>8, Zenon DEF At, Wake
<1>9. CASE ExitThread
  BY <1>9, Zenon DEF At, ExitThread
<1>10. CASE StartJob
  BY <1>10, Zenon DEF At, StartJob, PrepareJob, Free
<1>11. CASE NextJob
  BY <1>11, Zenon DEF At, NextJob, PrepareJob, Free
<1>12. CASE Prepared
  BY <1>12, Zenon DEF At, Prepared, GetResults
<1>13. CASE StopJob
  BY <1>13, Zenon DEF At, StopJob, ToStop, GetResults, DisableStart, Free
<1>14. CASE Fetched
  BY <1>14, Zenon DEF At, Fetched, DisableStart, Free, DeviceWorks, DeviceFails
<1>15. CASE JobStarted
  BY <1>15, Zenon DEF At, JobStarted, Free, DeviceWorks, DeviceFails
<1>16. CASE JobBusy
  BY <1>16, Zenon DEF At, JobBusy
<1>17. CASE JobAborted
  BY <1>17, Zenon DEF At, JobAborted, DeviceFails
<1>18. CASE Poll
  BY <1>18, Zenon DEF At, Poll
<1>19. CASE JobRanOut
  BY <1>19, Zenon DEF At, JobRanOut, DisableStart, Free
<1>20. CASE QueueEnabled
  BY <1>20, Zenon DEF At, QueueEnabled, Flush
<1>21. CASE Fill
  BY <1>21, Zenon DEF At, Fill
<1>22. CASE QueueDisabled
  BY <1>22, Zenon DEF At, QueueDisabled, Flush
<1>23. CASE WorkDone
  BY <1>23, Zenon DEF At, WorkDone, Free
<1>24. CASE Enable
  BY <1>24, Zenon DEF Enable, Command, ProcEnable, controlled
<1>25. CASE Disable
  BY <1>25, Zenon DEF Disable, Command, ProcEnable, controlled
<1>26. CASE SchedulePause
  BY <1>26, Zenon DEF SchedulePause, Command, ProcEnable, controlled
<1>27. CASE ScheduleResume
  BY <1>27, Zenon DEF ScheduleResume, Command, ProcEnable, controlled
<1>28. CASE ScheduleEnable
  BY <1>28, Zenon DEF ScheduleEnable, Command, ProcEnable, controlled
<1>29. CASE Overheat
  BY <1>29, Zenon DEF Overheat, Command, ProcEnable, controlled
<1>30. CASE WatchdogLooks
  BY <1>30, Zenon DEF WatchdogLooks, Command, ProcEnable, controlled
<1>31. CASE WatchdogEnables
  BY <1>31, Zenon DEF WatchdogEnables, Command, ProcEnable, controlled
<1>32. CASE Restart
  BY <1>32, Zenon DEF Restart, Command, ProcEnable, controlled
<1> QED
  BY <1>1, <1>2, <1>3, <1>4, <1>5, <1>6, <1>7, <1>8, <1>9, <1>10, <1>11, <1>12,
     <1>13, <1>14, <1>15, <1>16, <1>17, <1>18, <1>19, <1>20, <1>21, <1>22,
     <1>23, <1>24, <1>25, <1>26, <1>27, <1>28, <1>29, <1>30, <1>31, <1>32
  DEF Next, ThreadStep, ScanhashStep, AsyncStep, QueueStep, ControlStep

-----------------------------------------------------------------------------
(* The order of the steps of a loop.                                       *)

OrderInv ==
    /\ DisabledIsIdle /\ SlotsEmpty /\ BusyDriver /\ TransitionReady
    /\ pending # "none" => transition

\* The job is handed to the driver when the results of the last one are in.
LEMMA PreparedOrder ==
    ASSUME IInv, Prepared PROVE OrderInv'
<1>1. /\ pc = "prepared" /\ loop = "async"
      /\ UNCHANGED <<loop, work, next_work, queue, starting_next, morework, disable_called>>
  BY DEF Prepared, At, outsideVars, queueVars
<1>2. JobReady /\ transition /\ ~morework
  BY <1>1 DEF IInv, TransitionReady
<1>3. JobReady'
  BY <1>1, <1>2 DEF JobReady
<1>4. ~disable_called
  BY <1>1, <1>2 DEF IInv, DisabledIsIdle
<1>5. \/ transition' /\ pc' = "fetched" /\ pending' = "none"
      \/ transition' /\ pc' = "loop" /\ pending' = "results"
      \/ pc' = "starting" /\ UNCHANGED <<transition, pending>>
  BY DEF Prepared, GetResults
<1>6. DisabledIsIdle' /\ SlotsEmpty'
  BY <1>1, <1>3, <1>4, <1>5 DEF DisabledIsIdle, SlotsEmpty, IInv
<1>7. BusyDriver' /\ TransitionReady' /\ (pending # "none" => transition)'
  BY <1>1, <1>2, <1>3, <1>5 DEF BusyDriver, TransitionReady
<1> QED BY <1>6, <1>7 DEF OrderInv

\* With the results in, the job is started or the processor stands disabled.
LEMMA FetchedOrder ==
    ASSUME IInv, Fetched PROVE OrderInv'
<1>1. /\ pc = "fetched" /\ loop = "async"
      /\ UNCHANGED <<loop, next_work, queue, starting_next, morework, pending, proceed>>
  BY DEF Fetched, At, outsideVars, queueVars
<1>2. transition /\ ~morework /\ pending = "none" /\ queue = {}
  BY <1>1 DEF IInv, TransitionReady, BusyDriver, SlotsEmpty
<1>3. ~disable_called
  BY <1>1, <1>2 DEF IInv, DisabledIsIdle
<1>4. CASE proceed
  <2>1. pc' = "starting" /\ UNCHANGED <<work, transition, disable_called>>
    BY <1>4 DEF Fetched
  <2>2. JobReady'
    BY <1>1, <1>4, <2>1 DEF IInv, TransitionReady, JobReady
  <2> QED
    BY <1>1, <1>2, <1>3, <2>1, <2>2
    DEF OrderInv, DisabledIsIdle, SlotsEmpty, BusyDriver, TransitionReady
<1>5. CASE ~proceed
  <2>1. pc' = "loop" /\ work' = NoWork /\ transition' = FALSE
    BY <1>5 DEF Fetched, DisableStart
  <2> QED
    BY <1>1, <1>2, <2>1
    DEF OrderInv, DisabledIsIdle, SlotsEmpty, BusyDriver, TransitionReady
<1> QED BY <1>4, <1>5

LEMMA OrderKept ==
    ASSUME IInv, Next PROVE OrderInv'
<1> DEFINE Same == UNCHANGED <<loop, pc, work, next_work, queue, disable_called, transition,
                                starting_next, proceed, morework, pending>>
<1>a. Same => OrderInv'
  BY DEF IInv, TypeOK, OrderInv, DisabledIsIdle, SlotsEmpty, BusyDriver, TransitionReady, JobReady
<1>1. CASE BeginLoop
  <2> USE DEF At, BeginLoop, outsideVars, jobVars, queueVars
  <2>1. DisabledIsIdle' /\ SlotsEmpty'
    BY <1>1 DEF IInv, TypeOK, PlaceType, WorkType, DisabledIsIdle, SlotsEmpty,
       TransitionReady, JobReady, BusyDriver, NoWork
  <2>2. BusyDriver' /\ TransitionReady' /\ (pending # "none" => transition)'
    BY <1>1 DEF IInv, TypeOK, PlaceType, WorkType, DisabledIsIdle, SlotsEmpty,
       BusyDriver, TransitionReady, JobReady, NoWork
  <2> QED BY <2>1, <2>2 DEF OrderInv
<1>2. CASE GotWork
  <2>1. NewWork # NoWork  BY <1>2, NewWorkIsNew
  <2> USE DEF At, GotWork, outsideVars, jobVars, queueVars
  <2>2. DisabledIsIdle' /\ SlotsEmpty'
    BY <1>2 DEF IInv, TypeOK, PlaceType, WorkType, DisabledIsIdle, SlotsEmpty,
       TransitionReady, JobReady, BusyDriver, NoWork
  <2>3. BusyDriver' /\ TransitionReady' /\ (pending # "none" => transition)'
    BY <1>2, <2>1 DEF IInv, TypeOK, PlaceType, WorkType, DisabledIsIdle, SlotsEmpty,
       BusyDriver, TransitionReady, JobReady, NoWork
  <2> QED BY <2>2, <2>3 DEF OrderInv
<1>3. CASE PrepareFails
  <2> USE DEF At, PrepareFails, DeviceFails, outsideVars, jobVars, queueVars
  <2>1. DisabledIsIdle' /\ SlotsEmpty'
    BY <1>3 DEF IInv, TypeOK, PlaceType, WorkType, DisabledIsIdle, SlotsEmpty,
       TransitionReady, JobReady, BusyDriver, NoWork
  <2>2. BusyDriver' /\ TransitionReady' /\ (pending # "none" => transition)'
    BY <1>3 DEF IInv, TypeOK, PlaceType, WorkType, DisabledIsIdle, SlotsEmpty,
       BusyDriver, TransitionReady, JobReady, NoWork
  <2> QED BY <2>1, <2>2 DEF OrderInv
<1>4. CASE AskToScan
  <2> USE DEF At, AskToScan, outsideVars, jobVars, queueVars
  <2>1. DisabledIsIdle' /\ SlotsEmpty'
    BY <1>4 DEF IInv, TypeOK, PlaceType, WorkType, DisabledIsIdle, SlotsEmpty,
       TransitionReady, JobReady, BusyDriver, NoWork
  <2>2. BusyDriver' /\ TransitionReady' /\ (pending # "none" => transition)'
    BY <1>4 DEF IInv, TypeOK, PlaceType, WorkType, DisabledIsIdle, SlotsEmpty,
       BusyDriver, TransitionReady, JobReady, NoWork
  <2> QED BY <2>1, <2>2 DEF OrderInv
<1>5. CASE Scan
  <2> USE DEF At, Scan, DeviceFails, DeviceWorks, Free, outsideVars, jobVars, queueVars
  <2>1. DisabledIsIdle' /\ SlotsEmpty'
    BY <1>5 DEF IInv, TypeOK, PlaceType, WorkType, DisabledIsIdle, SlotsEmpty,
       TransitionReady, JobReady, BusyDriver, NoWork
  <2>2. BusyDriver' /\ TransitionReady' /\ (pending # "none" => transition)'
    BY <1>5 DEF IInv, TypeOK, PlaceType, WorkType, DisabledIsIdle, SlotsEmpty,
       BusyDriver, TransitionReady, JobReady, NoWork
  <2> QED BY <2>1, <2>2 DEF OrderInv
<1>6. CASE ScanOn
  <2> USE DEF At, ScanOn, outsideVars, jobVars, queueVars
  <2>1. DisabledIsIdle' /\ SlotsEmpty'
    BY <1>6 DEF IInv, TypeOK, PlaceType, WorkType, DisabledIsIdle, SlotsEmpty,
       TransitionReady, JobReady, BusyDriver, NoWork
  <2>2. BusyDriver' /\ TransitionReady' /\ (pending # "none" => transition)'
    BY <1>6 DEF IInv, TypeOK, PlaceType, WorkType, DisabledIsIdle, SlotsEmpty,
       BusyDriver, TransitionReady, JobReady, NoWork
  <2> QED BY <2>1, <2>2 DEF OrderInv
<1>7. CASE Abandon
  <2> USE DEF At, Abandon, Free, outsideVars, jobVars, queueVars
  <2>1. DisabledIsIdle' /\ SlotsEmpty'
    BY <1>7 DEF IInv, TypeOK, PlaceType, WorkType, DisabledIsIdle, SlotsEmpty,
       TransitionReady, JobReady, BusyDriver, NoWork
  <2>2. BusyDriver' /\ TransitionReady' /\ (pending # "none" => transition)'
    BY <1>7 DEF IInv, TypeOK, PlaceType, WorkType, DisabledIsIdle, SlotsEmpty,
       BusyDriver, TransitionReady, JobReady, NoWork
  <2> QED BY <2>1, <2>2 DEF OrderInv
<1>8. CASE Wake
  <2> USE DEF At, Wake, outsideVars, jobVars, queueVars
  <2>1. DisabledIsIdle' /\ SlotsEmpty'
    BY <1>8 DEF IInv, TypeOK, PlaceType, WorkType, DisabledIsIdle, SlotsEmpty,
       TransitionReady, JobReady, BusyDriver, NoWork
  <2>2. BusyDriver' /\ TransitionReady' /\ (pending # "none" => transition)'
    BY <1>8 DEF IInv, TypeOK, PlaceType, WorkType, DisabledIsIdle, SlotsEmpty,
       BusyDriver, TransitionReady, JobReady, NoWork
  <2> QED BY <2>1, <2>2 DEF OrderInv
<1>9. CASE ExitThread
  <2> USE DEF At, ExitThread, outsideVars, jobVars, queueVars
  <2>1. DisabledIsIdle' /\ SlotsEmpty'
    BY <1>9 DEF IInv, TypeOK, PlaceType, WorkType, DisabledIsIdle, SlotsEmpty,
       TransitionReady, JobReady, BusyDriver, NoWork
  <2>2. BusyDriver' /\ TransitionReady' /\ (pending # "none" => transition)'
    BY <1>9 DEF IInv, TypeOK, PlaceType, WorkType, DisabledIsIdle, SlotsEmpty,
       BusyDriver, TransitionReady, JobReady, NoWork
  <2> QED BY <2>1, <2>2 DEF OrderInv
<1>10. CASE StartJob
  <2> USE DEF At, StartJob, PrepareJob, Free, outsideVars, jobVars, queueVars
  <2>1. DisabledIsIdle' /\ SlotsEmpty'
    BY <1>10 DEF IInv, TypeOK, PlaceType, WorkType, DisabledIsIdle, SlotsEmpty,
       TransitionReady, JobReady, BusyDriver, NoWork
  <2>2. BusyDriver' /\ TransitionReady' /\ (pending # "none" => transition)'
    BY <1>10 DEF IInv, TypeOK, PlaceType, WorkType, DisabledIsIdle, SlotsEmpty,
       BusyDriver, TransitionReady, JobReady, NoWork
  <2> QED BY <2>1, <2>2 DEF OrderInv
<1>11. CASE NextJob
  <2> USE DEF At, NextJob, PrepareJob, Free, outsideVars, jobVars, queueVars
  <2>1. DisabledIsIdle' /\ SlotsEmpty'
    BY <1>11 DEF IInv, TypeOK, PlaceType, WorkType, DisabledIsIdle, SlotsEmpty,
       TransitionReady, JobReady, BusyDriver, NoWork
  <2>2. BusyDriver' /\ TransitionReady' /\ (pending # "none" => transition)'
    BY <1>11 DEF IInv, TypeOK, PlaceType, WorkType, DisabledIsIdle, SlotsEmpty,
       BusyDriver, TransitionReady, JobReady, NoWork
  <2> QED BY <2>1, <2>2 DEF OrderInv
<1>12. CASE Prepared  BY <1>12, PreparedOrder
<1>13. CASE StopJob
  <2> USE DEF At, StopJob, ToStop, GetResults, DisableStart, Free, outsideVars, jobVars, queueVars
  <2>1. DisabledIsIdle' /\ SlotsEmpty'
    BY <1>13 DEF IInv, TypeOK, PlaceType, WorkType, DisabledIsIdle, SlotsEmpty,
       TransitionReady, JobReady, BusyDriver, NoWork
  <2>2. BusyDriver' /\ TransitionReady' /\ (pending # "none" => transition)'
    BY <1>13 DEF IInv, TypeOK, PlaceType, WorkType, DisabledIsIdle, SlotsEmpty,
       BusyDriver, TransitionReady, JobReady, NoWork
  <2> QED BY <2>1, <2>2 DEF OrderInv
<1>14. CASE Fetched  BY <1>14, FetchedOrder
<1>15. CASE JobStarted
  <2> USE DEF At, JobStarted, Free, DeviceWorks, DeviceFails, outsideVars, jobVars, queueVars
  <2>1. DisabledIsIdle' /\ SlotsEmpty'
    BY <1>15 DEF IInv, TypeOK, PlaceType, WorkType, DisabledIsIdle, SlotsEmpty,
       TransitionReady, JobReady, BusyDriver, NoWork
  <2>2. BusyDriver' /\ TransitionReady' /\ (pending # "none" => transition)'
    BY <1>15 DEF IInv, TypeOK, PlaceType, WorkType, DisabledIsIdle, SlotsEmpty,
       BusyDriver, TransitionReady, JobReady, NoWork
  <2> QED BY <2>1, <2>2 DEF OrderInv
<1>16. CASE JobBusy
  <2> USE DEF At, JobBusy, outsideVars, jobVars, queueVars
  <2>1. DisabledIsIdle' /\ SlotsEmpty'
    BY <1>16 DEF IInv, TypeOK, PlaceType, WorkType, DisabledIsIdle, SlotsEmpty,
       TransitionReady, JobReady, BusyDriver, NoWork
  <2>2. BusyDriver' /\ TransitionReady' /\ (pending # "none" => transition)'
    BY <1>16 DEF IInv, TypeOK, PlaceType, WorkType, DisabledIsIdle, SlotsEmpty,
       BusyDriver, TransitionReady, JobReady, NoWork
  <2> QED BY <2>1, <2>2 DEF OrderInv
<1>17. CASE JobAborted
  <2> USE DEF At, JobAborted, DeviceFails, outsideVars, jobVars, queueVars
  <2>1. DisabledIsIdle' /\ SlotsEmpty'
    BY <1>17 DEF IInv, TypeOK, PlaceType, WorkType, DisabledIsIdle, SlotsEmpty,
       TransitionReady, JobReady, BusyDriver, NoWork
  <2>2. BusyDriver' /\ TransitionReady' /\ (pending # "none" => transition)'
    BY <1>17 DEF IInv, TypeOK, PlaceType, WorkType, DisabledIsIdle, SlotsEmpty,
       BusyDriver, TransitionReady, JobReady, NoWork
  <2> QED BY <2>1, <2>2 DEF OrderInv
<1>18. CASE Poll
  <2> USE DEF At, Poll, outsideVars, jobVars, queueVars
  <2>1. DisabledIsIdle' /\ SlotsEmpty'
    BY <1>18 DEF IInv, TypeOK, PlaceType, WorkType, DisabledIsIdle, SlotsEmpty,
       TransitionReady, JobReady, BusyDriver, NoWork
  <2>2. BusyDriver' /\ TransitionReady' /\ (pending # "none" => transition)'
    BY <1>18 DEF IInv, TypeOK, PlaceType, WorkType, DisabledIsIdle, SlotsEmpty,
       BusyDriver, TransitionReady, JobReady, NoWork
  <2> QED BY <2>1, <2>2 DEF OrderInv
<1>19. CASE JobRanOut
  <2> USE DEF At, JobRanOut, DisableStart, Free, outsideVars, jobVars, queueVars
  <2>1. DisabledIsIdle' /\ SlotsEmpty'
    BY <1>19 DEF IInv, TypeOK, PlaceType, WorkType, DisabledIsIdle, SlotsEmpty,
       TransitionReady, JobReady, BusyDriver, NoWork
  <2>2. BusyDriver' /\ TransitionReady' /\ (pending # "none" => transition)'
    BY <1>19 DEF IInv, TypeOK, PlaceType, WorkType, DisabledIsIdle, SlotsEmpty,
       BusyDriver, TransitionReady, JobReady, NoWork
  <2> QED BY <2>1, <2>2 DEF OrderInv
<1>20. CASE QueueEnabled
  <2> USE DEF At, QueueEnabled, Flush, outsideVars, jobVars, queueVars
  <2>1. DisabledIsIdle' /\ SlotsEmpty'
    BY <1>20 DEF IInv, TypeOK, PlaceType, WorkType, DisabledIsIdle, SlotsEmpty,
       TransitionReady, JobReady, BusyDriver, NoWork
  <2>2. BusyDriver' /\ TransitionReady' /\ (pending # "none" => transition)'
    BY <1>20 DEF IInv, TypeOK, PlaceType, WorkType, DisabledIsIdle, SlotsEmpty,
       BusyDriver, TransitionReady, JobReady, NoWork
  <2> QED BY <2>1, <2>2 DEF OrderInv
<1>21. CASE Fill
  <2> USE DEF At, Fill, outsideVars, jobVars, queueVars
  <2>1. DisabledIsIdle' /\ SlotsEmpty'
    BY <1>21 DEF IInv, TypeOK, PlaceType, WorkType, DisabledIsIdle, SlotsEmpty,
       TransitionReady, JobReady, BusyDriver, NoWork
  <2>2. BusyDriver' /\ TransitionReady' /\ (pending # "none" => transition)'
    BY <1>21 DEF IInv, TypeOK, PlaceType, WorkType, DisabledIsIdle, SlotsEmpty,
       BusyDriver, TransitionReady, JobReady, NoWork
  <2> QED BY <2>1, <2>2 DEF OrderInv
<1>22. CASE QueueDisabled
  <2> USE DEF At, QueueDisabled, Flush, outsideVars, jobVars, queueVars
  <2>1. DisabledIsIdle' /\ SlotsEmpty'
    BY <1>22 DEF IInv, TypeOK, PlaceType, WorkType, DisabledIsIdle, SlotsEmpty,
       TransitionReady, JobReady, BusyDriver, NoWork
  <2>2. BusyDriver' /\ TransitionReady' /\ (pending # "none" => transition)'
    BY <1>22 DEF IInv, TypeOK, PlaceType, WorkType, DisabledIsIdle, SlotsEmpty,
       BusyDriver, TransitionReady, JobReady, NoWork
  <2> QED BY <2>1, <2>2 DEF OrderInv
<1>23. CASE WorkDone
  <2> USE DEF At, WorkDone, Free, outsideVars, jobVars, queueVars
  <2>1. DisabledIsIdle' /\ SlotsEmpty'
    BY <1>23 DEF IInv, TypeOK, PlaceType, WorkType, DisabledIsIdle, SlotsEmpty,
       TransitionReady, JobReady, BusyDriver, NoWork
  <2>2. BusyDriver' /\ TransitionReady' /\ (pending # "none" => transition)'
    BY <1>23 DEF IInv, TypeOK, PlaceType, WorkType, DisabledIsIdle, SlotsEmpty,
       BusyDriver, TransitionReady, JobReady, NoWork
  <2> QED BY <2>1, <2>2 DEF OrderInv
<1>24. CASE Enable
  BY <1>24, <1>a DEF Enable, controlled, jobVars, queueVars
<1>25. CASE Disable
  BY <1>25, <1>a DEF Disable, controlled, jobVars, queueVars
<1>26. CASE SchedulePause
  BY <1>26, <1>a DEF SchedulePause, controlled, jobVars, queueVars
<1>27. CASE ScheduleResume
  BY <1>27, <1>a DEF ScheduleResume, controlled, jobVars, queueVars
<1>28. CASE ScheduleEnable
  BY <1>28, <1>a DEF ScheduleEnable, controlled, jobVars, queueVars
<1>29. CASE Overheat
  BY <1>29, <1>a DEF Overheat, controlled, jobVars, queueVars
<1>30. CASE WatchdogLooks
  BY <1>30, <1>a DEF WatchdogLooks, controlled, jobVars, queueVars
<1>31. CASE WatchdogEnables
  BY <1>31, <1>a DEF WatchdogEnables, controlled, jobVars, queueVars
<1>32. CASE Restart
  BY <1>32, <1>a DEF Restart, controlled, jobVars, queueVars
<1> QED
  BY <1>1, <1>2, <1>3, <1>4, <1>5, <1>6, <1>7, <1>8, <1>9, <1>10, <1>11, <1>12,
     <1>13, <1>14, <1>15, <1>16, <1>17, <1>18, <1>19, <1>20, <1>21, <1>22,
     <1>23, <1>24, <1>25, <1>26, <1>27, <1>28, <1>29, <1>30, <1>31, <1>32
  DEF Next, ThreadStep, ScanhashStep, AsyncStep, QueueStep, ControlStep

-----------------------------------------------------------------------------

LEMMA InitIInv == Init => IInv
<1> SUFFICES ASSUME Init PROVE IInv
  OBVIOUS
<1>1. PlaceType /\ WorkType /\ BoundType
  BY DeviceAssumption DEF Init, PlaceType, Places, WorkType, BoundType
<1>2. FlagType
  BY Zenon DEF Init, FlagType
<1>3. WorksAccounted
  BY DEF Init, WorksAccounted, InUse, Some, NoWork
<1>4. DisabledIsIdle /\ SlotsEmpty /\ BusyDriver /\ TransitionReady
  BY DEF Init, DisabledIsIdle, SlotsEmpty, BusyDriver, TransitionReady
<1> QED BY <1>1, <1>2, <1>3, <1>4 DEF IInv, TypeOK, Init

LEMMA NextIInv == IInv /\ [Next]_vars => IInv'
<1> SUFFICES ASSUME IInv, [Next]_vars PROVE IInv'
  OBVIOUS
<1>1. CASE Next
  BY <1>1, SlotsKept, PlacesKept, FlagsKept, OrderKept DEF IInv, TypeOK, OrderInv
<1>2. CASE UNCHANGED vars
  BY <1>2 DEF vars, outsideVars, jobVars, queueVars, IInv, TypeOK, PlaceType, FlagType,
     WorkType, BoundType, WorksAccounted, InUse, DisabledIsIdle, SlotsEmpty, BusyDriver,
     TransitionReady, JobReady
<1> QED BY <1>1, <1>2

LEMMA Inductive == Spec => []IInv
BY InitIInv, NextIInv, PTL DEF Spec

\* The three loops keep their control state, and drivers are busy only within a transition.
THEOREM LoopTypeCorrect == Spec => []TypeOK
<1>1. IInv => TypeOK  BY DEF IInv
<1> QED BY <1>1, Inductive, PTL

\* minerloop_async, minerloop_queue and minerloop_scanhash neither leak a work nor free
\* one twice, but for what job_start_abort drops (deviceapi.c:444-455).
THEOREM WorksCorrect == Spec => []WorksAccounted
<1>1. IInv => WorksAccounted  BY DEF IInv
<1> QED BY <1>1, Inductive, PTL

\* No driver is asked to start a job without a work, and a processor that stands
\* disabled has given back its works (mt_disable_start__async, do_queue_flush).
THEOREM DisabledCorrect == Spec => []DisabledIsIdle
<1>1. IInv => DisabledIsIdle  BY DEF IInv
<1> QED BY <1>1, Inductive, PTL
=============================================================================
