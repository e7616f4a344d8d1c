--------------------------- MODULE ReplayScheduler ---------------------------
(***************************************************************************)
(* The scheduler of the replay client (R4/clients/Replay/replayscheduler). *)
(*                                                                         *)
(* It holds the schedule of a recorded (and possibly reordered) execution  *)
(* and decides, each time the shared timer of WebKit ticks, which of the   *)
(* event actions waiting in the event action register runs next.  It is    *)
(* single threaded, but it is not free of interleavings: the page's        *)
(* handlers can spin a nested Qt event loop (a dialog, a synchronous       *)
(* request), in which the two timeouts of the scheduler fire while an      *)
(* event action is still running.                                          *)
(*                                                                         *)
(* The schedule is fixed once it is read; "next" points at the item the    *)
(* code finds with m_schedule->last() on the reversed vector, and the      *)
(* backlog holds line numbers.  The mode copies of the time, random and    *)
(* network providers are set in the same statements as m_mode and are      *)
(* represented by it.  The register is seen through its waiting names; the *)
(* module EventActionRegister models it in full.                           *)
(***************************************************************************)
EXTENDS Integers, Sequences, SequencesExt

CONSTANTS
    Schedules,      \* the schedules a run may be given
    Names,          \* the descriptors of event actions, recorded or replayed
    OriginalIds,    \* event action ids of the recorded execution
    UrlScore(_, _), \* FuzzyUrlMatcher::score
    UINT_MAX,       \* the best score
    FirstId,        \* the id allocated by the constructor
    MaxWaiting,     \* bound: handlers waiting under one descriptor
    MaxId           \* bound: ids up to which resize events are considered

-----------------------------------------------------------------------------
(* Descriptors and schedules. *)

\* EventActionDescriptor::null, the <relax> and <change> lines of a schedule.
NullDescriptor == [type |-> "null", url |-> "none", seq |-> 0, parent |-> 0]

\* The types whose provider (QWebPagePrivate::userEventProvider,
\* QWebFramePrivate::autoEventProvider) accepts every descriptor.
ProviderTypes == {"UserEvent", "AUTO"}

\* The types for which the best effort mode tries a fuzzy match.
FuzzyTypes ==
    {"Network", "HTMLDocumentParser", "DOMTimer", "BrowserLoadUrl", "ScriptRunner"}

\* A register key: the type, the URL of parameter 0, the parameters a fuzzy
\* match compares, and the parent event action of a DOM timer (0: none).
IsDescriptor(d) ==
    /\ DOMAIN d = {"type", "url", "seq", "parent"}
    /\ d.seq \in Nat
    /\ d.parent \in Nat
    /\ d.type # "DOMTimer" => d.parent = 0

\* A line of a schedule file: the original id and the descriptor.
IsScheduleItem(item) ==
    /\ DOMAIN item = {"id", "name"}
    /\ IF item.name = NullDescriptor
       THEN item.id = 0
       ELSE item.id \in OriginalIds /\ IsDescriptor(item.name) /\ item.name.type # "null"

\* Recorded ids are unique within a schedule: a schedule is a permutation of
\* the event actions of one recording with relax tokens in between.
IsSchedule(s) ==
    /\ s \in Seq([id : OriginalIds \cup {0}, name : Names \cup {NullDescriptor}])
    /\ \A i \in 1..Len(s) : IsScheduleItem(s[i])
    /\ \A i, j \in 1..Len(s) : s[i].id = s[j].id /\ s[i].id # 0 => i = j

ASSUME SchedulesAssumption == \A s \in Schedules : IsSchedule(s)
ASSUME NamesAssumption == \A d \in Names : IsDescriptor(d) /\ d.type # "null"
ASSUME ScoreAssumption ==
    \A d, e \in Names : UrlScore(d.url, e.url) \in 0..UINT_MAX
ASSUME BoundsAssumption ==
    /\ OriginalIds \subseteq Nat \ {0}
    /\ UINT_MAX \in Nat
    /\ FirstId \in Nat \ {0}
    /\ MaxWaiting \in Nat
    /\ MaxId \in Nat

-----------------------------------------------------------------------------
VARIABLES
    schedule,           \* the schedule read by the constructor; never changes
    next,               \* the line m_schedule->last() stands for
    backlog,            \* m_schedule_backlog: the lines skipped so far
    patch,              \* line -> the patched parent id, or Unpatched
    mode,               \* m_mode
    state,              \* m_state
    doneEmitted,        \* m_doneEmitted
    skipAfterNextTry,   \* m_skipAfterNextTry
    timeoutTimer,       \* m_eventActionTimeoutTimer.isActive()
    nextEventActionId,  \* m_nextEventActionId
    hbNextId,           \* EventActionsHB::m_nextEventActionId
    idMap,              \* m_originalToNewEventActionIdMap; 0: no entry
    strictMode,         \* strict_mode of ActionLogReport.cpp
    waiting,            \* register: descriptor -> number of handlers queued
    pc,                 \* "idle", "loop", "run" or "exit": where the thread is
    running,            \* the event action being executed when pc = "run"
    history,            \* m_dispatchHistory, with the line and how it matched
    status,             \* the result slSchedulerDone wrote, "none" before
    globalTimer         \* the single-shot timer of the -timeout option

schedulerVars == <<next, backlog, patch, skipAfterNextTry, nextEventActionId, hbNextId, idMap>>
stopVars == <<mode, state, doneEmitted, status>>
vars == <<schedule, schedulerVars, stopVars, timeoutTimer, strictMode, waiting,
          pc, running, history, globalTimer>>

Modes == {"STRICT", "BEST_EFFORT_NOND", "BEST_EFFORT", "STOP"}
States == {"RUNNING", "TIMEOUT", "FINISHED", "ERROR"}
Unpatched == -1
NoAction == [src |-> "none", index |-> 0, name |-> NullDescriptor]
Lines == 1..Len(schedule)

-----------------------------------------------------------------------------
(* Matching a schedule line with what the register has to offer. *)

\* m_schedule->isEmpty()
IsEmpty == next > Len(schedule)

\* EventActionRegister::translateOldIdToNew
TranslateOldIdToNew(oldId) ==
    IF oldId \in OriginalIds THEN (IF idMap[oldId] = 0 THEN oldId ELSE idMap[oldId])
                             ELSE oldId

\* Mutant: the patch keeps the recorded parent id.
PatchLineUntranslated(l) ==
    IF schedule[l].name.type = "DOMTimer" /\ patch[l] = Unpatched
    THEN [patch EXCEPT ![l] = schedule[l].name.parent]
    ELSE patch

\* A DOM timer line is patched the first time it is tried, and never again.
PatchLine(l) ==
    IF schedule[l].name.type = "DOMTimer" /\ patch[l] = Unpatched
    THEN [patch EXCEPT ![l] = TranslateOldIdToNew(schedule[l].name.parent)]
    ELSE patch

\* The descriptor of line l under the patches p.
DescriptorOf(l, p) ==
    IF p[l] = Unpatched THEN schedule[l].name
                        ELSE [schedule[l].name EXCEPT !.parent = p[l]]

WaitingNames == {n \in Names : waiting[n] > 0}

\* runEventAction succeeds: a provider takes it or a handler waits for it.
CanRunExactly(d) == d.type \in ProviderTypes \/ d \in WaitingNames

\* The score of a waiting descriptor n for the scheduled descriptor d.
FuzzyScore(d, n) ==
    IF d.parent = 0
    THEN UrlScore(d.url, n.url)
    ELSE UrlScore(d.url, n.url) \div 2
         + (IF d.parent = n.parent THEN UINT_MAX \div 2 ELSE 0)

FuzzyCandidates(d) ==
    {n \in WaitingNames :
        n.type = d.type /\ n.seq = d.seq /\ FuzzyScore(d, n) > 0}

\* The candidates with the best score.  The code takes the first of them in
\* string order; which one that is, is left open.
BestFuzzyMatches(d) ==
    {n \in FuzzyCandidates(d) :
        \A m \in FuzzyCandidates(d) : FuzzyScore(d, m) <= FuzzyScore(d, n)}

\* The names tryExecuteEventActionDescriptor may run for descriptor d.
Matches(d) ==
    IF CanRunExactly(d) THEN {d}
    ELSE IF skipAfterNextTry /\ mode = "BEST_EFFORT" /\ d.type \in FuzzyTypes
    THEN BestFuzzyMatches(d)
    ELSE {}

\* The backlog entries that would run now.
RunnableBacklog ==
    {i \in 1..Len(backlog) : Matches(DescriptorOf(backlog[i], patch)) # {}}

-----------------------------------------------------------------------------
Init ==
    /\ schedule \in Schedules
    /\ next = 1
    /\ backlog = <<>>
    /\ patch = [l \in Lines |-> Unpatched]
    /\ mode = "STRICT"
    /\ state = "RUNNING"
    /\ doneEmitted = FALSE
    /\ skipAfterNextTry = FALSE
    /\ timeoutTimer = FALSE
    /\ nextEventActionId = FirstId
    /\ hbNextId = FirstId + 1
    /\ idMap = [i \in OriginalIds |-> 0]
    /\ strictMode \in BOOLEAN   \* FALSE when Frame::init left its ghost action open
    /\ waiting = [n \in Names |-> 0]
    /\ pc = "idle"
    /\ running = NoAction
    /\ history = <<>>
    /\ status = "none"
    /\ globalTimer \in BOOLEAN

\* Mutant: stop() without the test of m_doneEmitted.
StopAgain(newState) ==
    /\ state' = newState
    /\ doneEmitted' = TRUE
    /\ mode' = "STOP"
    /\ status' = IF status = "none" THEN newState ELSE status
    /\ strictMode' = FALSE

\* ReplayScheduler::stop(state) and the slot slSchedulerDone it signals.
Stop(newState) ==
    IF doneEmitted
    THEN UNCHANGED <<stopVars, strictMode>>
    ELSE /\ state' = newState
         /\ doneEmitted' = TRUE
         /\ mode' = "STOP"
         /\ status' = IF status = "none" THEN newState ELSE status
         /\ strictMode' = FALSE

\* ActionLogStrictMode(true) after the failed attempts on the backlog.
AfterBacklog == strictMode' = (IF backlog = <<>> THEN strictMode ELSE TRUE)

-----------------------------------------------------------------------------
(* Calls from ThreadTimers. *)

\* A timer is due: its handler is registered and the scheduler is told.
EventActionScheduled(n) ==
    /\ pc = "idle"
    /\ waiting[n] < MaxWaiting
    /\ waiting' = [waiting EXCEPT ![n] = @ + 1]
    /\ pc' = "loop"
    /\ UNCHANGED <<schedule, schedulerVars, stopVars, timeoutTimer, strictMode,
                   running, history, globalTimer>>

\* A tick of the shared timer with nothing new to register.
ExecuteDelayedEventActions ==
    /\ pc = "idle"
    /\ pc' = "loop"
    /\ UNCHANGED <<schedule, schedulerVars, stopVars, timeoutTimer, strictMode,
                   waiting, running, history, globalTimer>>

\* Mutant: the handler that is running is deregistered as well.
EventActionDescheduledRunning(n) ==
    /\ pc \in {"idle", "run"}
    /\ waiting[n] > 0
    /\ waiting' = [waiting EXCEPT ![n] = 0]
    /\ UNCHANGED <<schedule, schedulerVars, stopVars, timeoutTimer, strictMode,
                   pc, running, history, globalTimer>>

\* A timer in the register is stopped, by a running event action or by a timer
\* without a descriptor: every handler under its key is gone.
EventActionDescheduled(n) ==
    /\ pc \in {"idle", "run"}
    /\ running.name # n
    /\ waiting[n] > 0
    /\ waiting' = [waiting EXCEPT ![n] = 0]
    /\ UNCHANGED <<schedule, schedulerVars, stopVars, timeoutTimer, strictMode,
                   pc, running, history, globalTimer>>

-----------------------------------------------------------------------------
(* executeDelayedEventAction, one action per way through it. *)

\* Nothing left to schedule, or stopped: report and leave the loop.
FinishSchedule ==
    /\ pc = "loop"
    /\ IsEmpty \/ mode = "STOP"
    /\ Stop("FINISHED")
    /\ pc' = "idle"
    /\ UNCHANGED <<schedule, schedulerVars, timeoutTimer, waiting, running, history,
                   globalTimer>>

\* runEventAction enters the handler of name n for the given line.
Dispatch(line, n, src, index) ==
    /\ pc' = "run"
    /\ running' = [src |-> src, index |-> index, name |-> n]
    /\ idMap' = [idMap EXCEPT ![schedule[line].id] =
                    IF @ = 0 THEN nextEventActionId ELSE @]
    /\ history' = Append(history,
                    [line |-> line, id |-> nextEventActionId, src |-> src, name |-> n])
    /\ UNCHANGED <<schedule, next, backlog, skipAfterNextTry, nextEventActionId,
                   hbNextId, stopVars, timeoutTimer, waiting, globalTimer>>

\* The first entry of the backlog that matches something runs.
ExecuteFromBacklog ==
    /\ pc = "loop"
    /\ ~IsEmpty /\ mode # "STOP"
    /\ \E i \in RunnableBacklog :
         /\ \A j \in RunnableBacklog : i <= j
         /\ \E n \in Matches(DescriptorOf(backlog[i], patch)) :
              Dispatch(backlog[i], n, "backlog", i)
    /\ strictMode' = FALSE
    /\ patch' = patch

\* Mutant: the loop goes on although the scheduler was stopped.
TryNextWhenStopped ==
    /\ pc = "loop"
    /\ ~IsEmpty
    /\ RunnableBacklog = {}
    /\ AfterBacklog

\* No entry of the backlog can run: the next line of the schedule is tried.
TryNext ==
    /\ pc = "loop"
    /\ ~IsEmpty /\ mode # "STOP"
    /\ RunnableBacklog = {}
    /\ AfterBacklog

NextIsToken == schedule[next].name = NullDescriptor

\* What the next line can run with, its patch included.
NextMatches == Matches(DescriptorOf(next, PatchLine(next)))

\* Mutant: the first token already relaxes the order.
RelaxModeAtOnce(m) == "BEST_EFFORT"

\* The mode after a relax token.
RelaxMode(m) == IF m = "STRICT" THEN "BEST_EFFORT_NOND" ELSE "BEST_EFFORT"

\* A relax token changes the mode and is consumed like an executed line.
ConsumeToken ==
    /\ TryNext
    /\ NextIsToken
    /\ mode' = RelaxMode(mode)
    /\ next' = next + 1
    /\ skipAfterNextTry' = FALSE
    /\ timeoutTimer' = FALSE
    /\ UNCHANGED <<schedule, backlog, patch, nextEventActionId, hbNextId, idMap,
                   state, doneEmitted, status, waiting, pc, running, history,
                   globalTimer>>

ExecuteNext ==
    /\ TryNext
    /\ ~NextIsToken
    /\ \E n \in NextMatches : Dispatch(next, n, "schedule", 0)
    /\ patch' = PatchLine(next)

\* The timeout of this line has passed: put it aside and go on with the next.
SkipNext ==
    /\ TryNext
    /\ ~NextIsToken
    /\ NextMatches = {}
    /\ skipAfterNextTry
    /\ backlog' = Append(backlog, next)
    /\ next' = next + 1
    /\ patch' = PatchLine(next)
    /\ UNCHANGED <<schedule, skipAfterNextTry, nextEventActionId, hbNextId, idMap,
                   stopVars, timeoutTimer, waiting, pc, running, history, globalTimer>>

\* Mutant: the timeout is not started.
StartTimeoutNever == timeoutTimer' = timeoutTimer

\* m_eventActionTimeoutTimer.start, unless it is already running.
StartTimeout == timeoutTimer' = TRUE

\* Wait for the line to become available, at most until the timeout.
AwaitNext ==
    /\ TryNext
    /\ ~NextIsToken
    /\ NextMatches = {}
    /\ ~skipAfterNextTry
    /\ StartTimeout
    /\ pc' = "idle"
    /\ patch' = PatchLine(next)
    /\ UNCHANGED <<schedule, next, backlog, skipAfterNextTry, nextEventActionId,
                   hbNextId, idMap, stopVars, waiting, running, history, globalTimer>>

\* The register pops the handler that has run; a provider stays.
PopHandler ==
    waiting' = IF running.name.type \in ProviderTypes THEN waiting
               ELSE [waiting EXCEPT ![running.name] = @ - 1]

\* Mutant: the id is used again.
AllocateNextIdNot == nextEventActionId' = nextEventActionId /\ hbNextId' = hbNextId + 1

\* allocateEventActionId for the event action after this one.
AllocateNextId == nextEventActionId' = hbNextId /\ hbNextId' = hbNextId + 1

\* Mutant: an executed backlog entry is not removed.
LeaveBacklogNot == backlog' = backlog

\* m_schedule_backlog.remove(i)
LeaveBacklog == backlog' = RemoveAt(backlog, running.index)

\* The handler returns: the register pops it, a new id is allocated, and the
\* line leaves the schedule or the backlog.
EventActionReturns ==
    /\ pc = "run"
    /\ PopHandler
    /\ AllocateNextId
    /\ IF running.src = "schedule"
       THEN /\ next' = next + 1
            /\ skipAfterNextTry' = FALSE
            /\ timeoutTimer' = FALSE
            /\ UNCHANGED <<backlog, strictMode>>
       ELSE /\ LeaveBacklog
            /\ strictMode' = TRUE
            /\ UNCHANGED <<next, skipAfterNextTry, timeoutTimer>>
    /\ pc' = "loop"
    /\ running' = NoAction
    /\ UNCHANGED <<schedule, patch, idMap, stopVars, history, globalTimer>>

-----------------------------------------------------------------------------
(* Qt events: between two ticks, or in a nested event loop of a handler. *)

\* Mutant: a missing line is skipped between the two tokens as well.
SkipInsteadOfError ==
    skipAfterNextTry' = TRUE /\ UNCHANGED <<stopVars, strictMode>>

\* Between the tokens a missing event action is an error.
MissingIsError == Stop("ERROR") /\ UNCHANGED skipAfterNextTry

\* slEventActionTimeout: the next line was not executed in time.
EventActionTimeout ==
    /\ pc \in {"idle", "run"}
    /\ timeoutTimer
    /\ timeoutTimer' = FALSE    \* single shot
    /\ \/ /\ IsEmpty \/ mode = "STOP"
          /\ UNCHANGED <<stopVars, strictMode, skipAfterNextTry, pc>>
       \/ /\ ~IsEmpty /\ mode = "STRICT"
          /\ pc' = "exit"       \* std::exit(1)
          /\ UNCHANGED <<stopVars, strictMode, skipAfterNextTry>>
       \/ /\ ~IsEmpty /\ mode = "BEST_EFFORT_NOND"
          /\ MissingIsError
          /\ UNCHANGED pc
       \/ /\ ~IsEmpty /\ mode = "BEST_EFFORT"
          /\ skipAfterNextTry' = TRUE
          /\ UNCHANGED <<stopVars, strictMode, pc>>
    /\ UNCHANGED <<schedule, next, backlog, patch, nextEventActionId, hbNextId, idMap,
                   waiting, running, history, globalTimer>>

\* slTimeout: the time given with -timeout is over.
Timeout ==
    /\ pc \in {"idle", "run"}
    /\ globalTimer
    /\ globalTimer' = FALSE
    /\ Stop("TIMEOUT")
    /\ UNCHANGED <<schedule, schedulerVars, timeoutTimer, waiting, pc, running, history>>

\* QWebView::resizeEvent: a ghost event action takes an id and leaves the
\* strict mode switched on.
ResizeEvent ==
    /\ pc \in {"idle", "run"}
    /\ hbNextId < MaxId
    /\ hbNextId' = hbNextId + 1
    /\ strictMode' = TRUE
    /\ UNCHANGED <<schedule, next, backlog, patch, skipAfterNextTry, nextEventActionId,
                   idMap, stopVars, timeoutTimer, waiting, pc, running, history,
                   globalTimer>>

-----------------------------------------------------------------------------
ExecuteDelayedEventAction ==
    \/ FinishSchedule
    \/ ExecuteFromBacklog
    \/ ConsumeToken
    \/ ExecuteNext
    \/ SkipNext
    \/ AwaitNext

Next ==
    \/ \E n \in Names : EventActionScheduled(n) \/ EventActionDescheduled(n)
    \/ ExecuteDelayedEventActions
    \/ ExecuteDelayedEventAction
    \/ EventActionReturns
    \/ EventActionTimeout
    \/ Timeout
    \/ ResizeEvent

Spec == Init /\ [][Next]_vars

\* updateSharedTimer re-arms the shared timer at every tick (at most a second
\* ahead), the loop runs to its end, handlers return.  An expired QTimer is
\* delivered the next time its event loop is reached, whatever ran in between,
\* so its fairness is strong.
Fairness ==
    /\ WF_vars(ExecuteDelayedEventActions)
    /\ WF_vars(ExecuteDelayedEventAction)
    /\ WF_vars(EventActionReturns)
    /\ SF_vars(EventActionTimeout)

FairSpec == Spec /\ Fairness
-----------------------------------------------------------------------------
(* Properties. *)

Activities ==
    [src : {"none", "schedule", "backlog"}, index : Nat, name : Names \cup {NullDescriptor}]

HistoryEntries ==
    [line : Lines, id : Nat \ {0}, src : {"schedule", "backlog"}, name : Names]

TypeOK ==
    /\ IsSchedule(schedule)
    /\ next \in 1..(Len(schedule) + 1)
    /\ backlog \in Seq(Lines)
    /\ patch \in [Lines -> Nat \cup {Unpatched}]
    /\ mode \in Modes
    /\ state \in States
    /\ doneEmitted \in BOOLEAN
    /\ skipAfterNextTry \in BOOLEAN
    /\ timeoutTimer \in BOOLEAN
    /\ nextEventActionId \in Nat \ {0}
    /\ hbNextId \in Nat \ {0}
    /\ idMap \in [OriginalIds -> Nat]
    /\ strictMode \in BOOLEAN
    /\ waiting \in [Names -> Nat]
    /\ pc \in {"idle", "loop", "run", "exit"}
    /\ running \in Activities
    /\ history \in Seq(HistoryEntries)
    /\ status \in States \cup {"none"}
    /\ globalTimer \in BOOLEAN

\* The relax tokens in front of line l.
TokensBefore(l) == {i \in 1..(l - 1) : schedule[i].name = NullDescriptor}

\* At least two tokens lie in front of line l: it may be skipped and matched
\* fuzzily.
Relaxed(l) == \E i, j \in TokensBefore(l) : i # j

\* The lines whose event action has been started.
StartedLines == {history[k].line : k \in 1..Len(history)}

\* The lines waiting in the backlog, without the one being executed.
AsideLines ==
    {backlog[i] : i \in {j \in 1..Len(backlog) :
                            ~(running.src = "backlog" /\ running.index = j)}}

\* The lines passed by the scheduler, the one being executed included.
PassedLines == 1..(IF running.src = "schedule" THEN next ELSE next - 1)

\* Where the thread is agrees with what it is doing: outside a handler nothing
\* is marked as running, and inside one the line it runs for is still in place
\* and its handler still queued, whatever the nested event loop did.
ControlInv ==
    /\ pc \in {"idle", "loop"} => running = NoAction
    /\ pc = "run" => running.src # "none"
    /\ running.src = "none" => running = NoAction
    /\ running.src = "schedule" => ~IsEmpty /\ ~NextIsToken
    /\ running.src = "backlog" => running.index \in 1..Len(backlog)
    /\ running.src # "none" => running.name \in Names
    /\ (pc = "run" /\ running.name.type \notin ProviderTypes) => waiting[running.name] > 0

\* Only DOM timers are patched, and tokens never enter the backlog.
LineInv ==
    /\ \A l \in Lines : patch[l] # Unpatched => schedule[l].name.type = "DOMTimer"
    /\ \A i \in 1..Len(backlog) : schedule[backlog[i]].name # NullDescriptor

\* No line is lost and none runs twice: every event action the scheduler has
\* passed was started exactly once or is still in the backlog, whatever
\* timeouts, skips and late arrivals happened on the way.
EachLineOnce ==
    /\ \A l \in PassedLines :
         schedule[l].name # NullDescriptor =>
            (l \in StartedLines) # (l \in AsideLines)
    /\ StartedLines \cup AsideLines \subseteq PassedLines
    /\ \A j, k \in 1..Len(history) : history[j].line = history[k].line => j = k
    /\ \A j, k \in 1..Len(backlog) : backlog[j] = backlog[k] => j = k

\* Only behind the second relax token may an event action be run out of order,
\* be run late from the backlog, or be replaced by a fuzzy match.
StrictUntilRelaxed ==
    \A k \in 1..Len(history) :
        ~Relaxed(history[k].line) =>
            /\ history[k].src = "schedule"
            /\ history[k].name = DescriptorOf(history[k].line, patch)
            /\ \A j \in 1..(k - 1) : history[j].line < history[k].line

\* The verdict written to status.data is the state the scheduler keeps, a late
\* tick or timeout never overwrites it, and FINISHED is only reported when no
\* line of the schedule is left.
VerdictStands ==
    /\ status = (IF doneEmitted THEN state ELSE "none")
    /\ doneEmitted <=> mode = "STOP"
    /\ state = "FINISHED" => IsEmpty

\* New ids are handed out in the order in which event actions start, and the
\* translation from recorded to new ids is the one the history shows.
IdsFollowHistory ==
    /\ \A j, k \in 1..Len(history) : j < k => history[j].id < history[k].id
    /\ \A k \in 1..Len(history) :
         /\ history[k].id < (IF running = NoAction THEN nextEventActionId ELSE hbNextId)
         /\ idMap[schedule[history[k].line].id] = history[k].id

\* A DOM timer line that must be replayed strictly waits for the timer set by
\* the replayed parent: once patched, it carries the parent's new id.
StrictTimersFollowParent ==
    \A l \in Lines :
        LET parent == schedule[l].name.parent
        IN  (/\ patch[l] # Unpatched
             /\ ~Relaxed(l)
             /\ \E i \in 1..(l - 1) : schedule[i].id = parent /\ parent # 0)
            => patch[l] = idMap[parent] /\ idMap[parent] # 0

\* Once sigDone has been emitted no further event action is started, even if
\* the stop came from a timer firing inside a running event action.
NothingStartsAfterDone ==
    [][doneEmitted => history' = history /\ state' = state /\ doneEmitted']_vars

\* Every replay ends: with a verdict, or by leaving the process.
ReplayEnds == <>(doneEmitted \/ pc = "exit")

-----------------------------------------------------------------------------
(* The scheduler implements the promise of ReplayPromise. *)

TokensPassed == IF Relaxed(next) THEN 2 ELSE IF TokensBefore(next) # {} THEN 1 ELSE 0

FirstPending == IF running.src = "schedule" THEN next + 1 ELSE next

IdsOf(lines) == [i \in 1..Len(lines) |-> schedule[lines[i]].id]

\* The id sequences of the schedules a run may be given.
Orders == {[i \in 1..Len(s) |-> s[i].id] : s \in Schedules}

Promise == INSTANCE ReplayPromise WITH
    todo    <- [i \in 1..(Len(schedule) + 1 - FirstPending) |->
                    schedule[FirstPending + i - 1].id],
    late    <- IF running.src = "backlog"
               THEN IdsOf(RemoveAt(backlog, running.index))
               ELSE IdsOf(backlog),
    started <- [k \in 1..Len(history) |-> schedule[history[k].line].id],
    tokens  <- TokensPassed,
    verdict <- IF pc = "exit" THEN "EXIT" ELSE state

\* Every run of the scheduler is a run the promise allows.
KeepsPromise == Promise!PromiseSpec
=============================================================================
