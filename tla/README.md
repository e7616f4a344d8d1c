# A TLA+ model of WebERA's record and replay

R4 (WebERA) explores races in web pages. A patched WebKit *records* an execution
of a page as a sequence of *event actions* with their happens-before relation; an
external tool, EventRacer, reorders that schedule; the *replay* client executes the
reordered schedule on a fresh browser and reports whether it could. This directory
models the code that decides which event action runs when, what it sees of the
network and the clock, what is logged about it, what the clients report, and the parts
of WebKit that were made asynchronous for it: the HTML parser, the script runner, the
load event, the network reply handler and the queue of document events.

## 1. Inventory

| Component | State | Operations | Talks to |
|---|---|---|---|
| Replay scheduler (`R4/clients/Replay/replayscheduler.*`) | schedule, backlog, mode, state, skip flag, timeout timer, next id | `eventActionScheduled`, `executeDelayedEventActions`, `slEventActionTimeout`, `timeout`, `stop` | called by ThreadTimers and Qt timers; calls the register; sets the modes of the data providers; signals the client |
| Fuzzy URLs (`fuzzyurl.*`) | none | `score` | replay scheduler, network replay |
| Event action register (`WebCore/platform/schedule/EventActionRegister.*`) | handlers per descriptor, providers per type, history, id translation, dispatching flag | register, deregister, run, ghost and immediate event actions | calls handlers and providers, happens-before |
| Happens-before (`EventActionHappensBefore*`) | next id, current, last and last UI action, arcs | allocate, enter, exit, arcs, joins | action log |
| Action log (`WTF/wtf/ActionLog*`) | arcs, strict mode, open operation, commands | add arc, enter, exit, log command | written to a file |
| Timers (`Timer.*`, `ThreadTimers.*`) | heap, firing flag; per timer: descriptor, register flag, starter | start, stop, tick, fire, nested loop | register, scheduler |
| Default scheduler | stopped | runs everything at once | record client |
| Network record and replay (`R4/clients/Replay/network.*`, the controllable replies in `QNetworkReplyHandler.*`) | snapshots per URL, numbers of replies, signals waiting in a reply | construct, forward a signal, read, abort, write to the log | scheduler sets its mode; register |
| Time and random logs (`datalog.*`) | values per event action | get a value | scheduler sets their mode |
| Automatic exploration (`autoexplorer.*`) | loading frames, three timers, counters | explore, keep alive, stop | signals of the page, immediate event actions, record client |
| Network reply handler (`QNetworkReplyHandler.*`) | queue of calls, wrapper, redirections, deferral | signals of the reply, flush, abort, defer, redirect | a resource client, timers |
| HTML parser (`HTMLDocumentParser.*`, `HTMLParserScheduler.*`, `HTMLScriptRunner.*`) | input, scripts waiting, timer, last parse action | append, finish, resume, execute scripts | timers, script and style loads, happens-before |
| Script runner (`ScriptRunner.*`) | scripts in order, asynchronous scripts, a timer each | queue, notify, suspend, resume, fire | timers, happens-before |
| Load event (`FrameLoader.*`, `Document.*`) | delay count, completeness, two timers, joins | check, implicit close | parser, script runner |
| Document event queue (`DocumentEventQueue.*`) | list of events, list of sources, timer | enqueue, cancel, fire, close, suspend | timers, happens-before |
| Specification scheduler (`Record/specificationscheduler.*`) | three queues, active network jobs | schedule, deschedule, execute | nobody: its construction is commented out |

Everything runs in one thread. What makes it hard is re-entrancy and order: page code
runs inside handlers and can start, stop and destroy timers, write into the document,
abort the load that calls it; a modal dialog or a synchronous request runs a nested Qt
event loop inside a handler; event actions arrive late, never, or under another URL; ids
are taken before it is known what they are for; what was one call in WebKit is now a
timer, and the state it checked may be another when the timer fires. `PROJECT.json` lists
these hazards at their lines.

What makes the parts correct:

* the replay scheduler neither loses nor repeats a line, deviates from the order only
  where the schedule says so, ends, and reports one verdict that is true;
* the register offers exactly what can be run, and its history and id translation show
  what has been run;
* the happens-before log has no arc missing and its consistency checks never fail;
* a timer that was started fires unless it is stopped, and does not fire afterwards;
* a page that is replayed strictly sees what it saw when it was recorded, and its
  replay can be replayed again;
* a load tells its client everything, in order, and ends;
* a document is what it would be without yielding, its event actions are ordered in the
  log as they depend on each other, and its load event fires once;
* a recording session ends and is saved once;
* a fuzzy match is the best of the candidates.

## 2. Modules

```
ReplayPromise <- ReplayScheduler <- MCReplayScheduler
HappensBefore <- EventActionRegister <- MCEventActionRegister
                                     <- ThreadTimers <- MCThreadTimers
NetworkReplies, DataLog <- RecordReplay <- MCRecordReplay
PageTimer <- FrameLoader <- ScriptRunner <- HTMLDocumentParser <- PageLoad <- MCPageLoad
NetworkReplyHandler <- MCNetworkReplyHandler
FuzzyUrl <- MCFuzzyUrl
AutoExplorer
DocumentEventQueue

ReplayScheduler <- ReplayScheduler_proofs
EventActionRegister, ThreadTimers <- EventActionRegister_proofs, ThreadTimers_proofs
NetworkReplyHandler, RecordReplay, PageLoad, FuzzyUrl, AutoExplorer <- one *_proofs module each
```

### Scheduling

**ReplayPromise** is the abstract specification of a replay: event actions still to
start, put aside, and started; the number of relax tokens passed; a verdict.

**ReplayScheduler** is the scheduler itself. `schedule` never changes and `next` stands
for `m_schedule->last()`; the backlog holds line numbers. `pc` says where the thread is:
outside the scheduler, in its loop, in a handler, or gone. One way through
`executeDelayedEventAction` is one action: `FinishSchedule`, `ExecuteFromBacklog`,
`ConsumeToken`, `ExecuteNext`, `SkipNext`, `AwaitNext`. Running an event action is split
in two, start and `EventActionReturns`, because the timeouts (`EventActionTimeout`,
`Timeout`), cancellations and resizes can happen in between. The register appears as the
number of handlers per descriptor. Providers of user events accept everything, as those in
`qwebpage.cpp` and `qwebframe.cpp` do. Which of several equally good fuzzy matches is
taken is left open here; `FuzzyUrl` models the choice. A running handler is not
deregistered by another timer with the same descriptor; `ThreadTimers` is about that.

**HappensBefore** has the state of `EventActionsHB` and of the action log as one record
and its operations as functions on it; an operation that calls `CRASH()` marks the record.

**EventActionRegister** is the register in full. A dispatch is two steps for a handler,
and one more for each provider that refuses; `calls` is the stack of what has not
returned. In the code a dispatch holds a reference to the queue of the handler; if the
queue is erased meanwhile, the frame dangles and its return is `undefined`. The main frame
is created before the scheduler, and its ghost event action stays open: `Frame::init`
tests for a valid event action a second time when the ghost has made it valid.

**ThreadTimers** extends it by the timers and the tick. Timer clients are arbitrary:
between and inside callbacks they start, stop, destroy and rename timers. The register is
not made for all of that: the repository's clients do start a timer again while it waits
there (`FrameLoader::checkCompleted`) and do give two timers one name (asynchronous scripts
of one URL). The history variable `stray` remembers the timers that were started or renamed
while they waited and those that had a name in common with another; the properties of the
replay are about all other timers, those of the record client about every timer. With
`Preallocate` the scheduler is the replay scheduler, abstracted to "any waiting event action
may run".

**FuzzyUrl** is `score` and the loop over the waiting names, one candidate a step.

### Inputs

**NetworkReplies** is the network side of both clients: `Live` and `Replayed` make a
controllable reply, numbered per URL; `ConstructExact`, `ConstructFuzzy` and
`ConstructUnmatched` are the ways through the construction of a reply in a replay;
`updateSnapshot` is the event action that hands the next signal to WebKit. The lists of
the replay are filled once, in the order of the file, and used from their fronts, so a
list is the set of its members and its front the smallest. Bytes are counted; a reply is
told from another by its recorded reply.

**DataLog** is the log of times, with `inLog` read from the file and `outLog` to be
written. The two random logs have the same code.

**RecordReplay** composes them over two processes. The page does, in event actions, what
it likes: requests, reads, aborts, looks at the clock; `script` keeps what it did and
saw. `Restart` ends the process, writes and reads the files and forgets everything else. It
may happen in the middle of an event action: its line is appended to the schedule before its
handler runs (`EventActionRegister.h:132`), and a new URL ends the recording from within the
handler (`urlChanged`, `differentUrl`, `done`, `snapshotState`). The last event action of the
recording is then `cut`. In a replay the page repeats its script as long as it has seen the
same inputs (it is deterministic); beyond the cut (`AtCut`) and after `Relax` it does anything.
`TimeOutside` is a script that asks for the time when no event action is current: it ends the
process in every mode but `STOP` (`datalog.cpp:56-62`).

### Pages

**NetworkReplyHandler** is one load through `QNetworkReplyHandler`,
`QNetworkReplyHandlerCallQueue` and `QNetworkReplyWrapper`. A call of the queue is one action,
since the client's callback inside it may defer, abort, leave or delete (`Reactions`). The end
of a reply may bring bytes that no signal announced; a wrapper that reads already may lose
those. The status code is chosen where it is looked at (`shouldIgnoreHttpError`), and a
synchronous load has any size and may fail. `AbortsUnstarted` and `LateErrors` widen what the
client and Qt may do beyond what WebKit and Qt do; both are `FALSE` in the run.

**PageTimer** is a timer as its client sees it: in the heap, fires waiting in the register,
and the event action that started it. **FrameLoader**, **ScriptRunner** and
**HTMLDocumentParser** are functions from one document record to the next, one per
method, so that they compose as the methods call each other. **PageLoad** has the record
as its state, and one action per event action: data, the end of data, a script or a style
sheet arrives or fails, a timer becomes due or fires, page code adds a script, a dialog suspends
the document and ends. An event action carries a set of labels, those of all event actions
that the log orders before it; ordering properties speak about that set. A page is a
constant: its chunks, the kind of each token, what scripts write and add, which scripts fail
or are denied by access control, what the handlers of `DOMContentLoaded` and of the last
`readystatechange` add, and what page code may add at any time (`late`). The parser may
yield after each token: the time it takes is not modelled, so that each yield is one of the
outcomes. Scripts and style sheets that the preload scanner meets are requested then and may
have been loaded when the parser reaches them.

Three fields are history. `misfired` has the scripts for which `inOrderTimerFired` failed an
assertion, `strayed` says that the in-order timer was started while the document was suspended,
and `addedSince` has the scripts added after `checkCompleted` last found nothing outstanding.

The pump of the parser and the scripts it runs call each other to any depth. What a method
does after such a call is left on a stack (`calls`, filled by `later`); `step` takes the top
of it and `run` goes on until it is empty, so an event action of `PageLoad` is still one
step (`Performs`). `MaxCalls` bounds the calls of one event action.

**DocumentEventQueue** is that queue, with the list of sources beside the list of events.

**AutoExplorer** is a recording session: the frames' loads as `ProgressTracker` and
`FrameLoaderClientQt` count them, three Qt timers, the page's URL, its move to another page and
the user. A load of a frame that loads starts only after that load has ended:
`continueLoadAfterNavigationPolicy` calls `stopAllLoaders` (`FrameLoader.cpp:2804`) before
`prepareForLoadStart`, so that the originating frame never starts a second load.

## 3. Runs

| Run | Question | Result | Distinct states |
|---|---|---|---|
| `replay` | Is the scheduler correct under every order of arrivals, cancellations, timeouts and resizes, does it implement `ReplayPromise`, and does every replay end? | yes | 349,000 |
| `inputs` | Does a strict replay see what the recording saw, can its own logs be replayed, and does a relaxed one keep replies apart? | yes | 4,390,000 |
| `page_load` | Do yielding, timers and suspension leave the document, its scripts and its load event what they were, and is the logged order complete? | yes, if no script is added after parsing and none is denied; the properties say what is left then | 428,000 |
| `register_record` | Do ghost, immediate and scheduled event actions keep the log consistent? | yes, with ids taken in order | 124,000 |
| `timers_record` | Are timers reliable under DefaultScheduler, with arbitrary clients? | yes, until the recording is stopped | 938,000 |
| `timers_replay` | Are they when their fires wait, and do refusals leave traces? | yes, but for stray timers; no | 2,215,000 |
| `timers_nested` | Do the register's tables agree when modal dialogs nest dispatches? | yes | 629,000 |
| `reply_handler` | Does a load tell its client everything in order, whatever the client does in its callbacks? | yes | 68,000 |
| `recording` | Does the exploration count loads correctly, and does a session end? | yes | 28,500 |
| `fuzzy` | Is the best candidate found, and do the weights decide as intended? | yes | 47,000 |

Two further runs show that the code does not do what a comment in it says:

| Run | What happens |
|---|---|
| `load_event` | `checkCompleted` starts a timer and its conditions are not tested again. A script that page code adds before the timer fires, or that a handler of the `readystatechange` the timer dispatches adds (`FrameLoader.cpp:761`), makes `checkCallImplicitClose` return, and `m_isComplete` keeps every later call from dispatching the load event. |
| `document_events` | `m_queuedEvents.remove(0)` looks for an event that is null. The first event stays and is dispatched by each later timer, in an event action with an arc from another event's source. |

### Bounds

* `replay`: schedules of four event actions and up to two tokens, in four arrangements: no
  token, tokens first, tokens in between. A timer line depends on the id of another line,
  two network lines resemble each other, a user event is always available. Three possible
  parents of the timer make right and wrong translations possible. One handler per
  descriptor suffices, since the scheduler only asks whether there is one. `MaxId` bounds
  resizes: one to two ids are taken out of order.
* `inputs`: two URLs that resemble each other, two replies of at most two signals, three
  event actions, three steps of the page. So two requests for one URL, an exact match beside a
  fuzzy one, a reply used up and a request without any all happen. The replay is relaxed
  after at most one event action, and the page then does two things of its own. The URLs
  are symmetric.
* Register: up to five ids, so that a chain of UI actions, a ghost between them, and a join of two
  threads fit. Two handlers in a queue where queues matter.
* Timers: two timers, two descriptors in `timers_replay`, so that a waiting timer can be
  renamed, one in the others, where the timers still share it; three or four ids: a timer is
  started in one event action, waits while another runs, and fires. One recorded id in
  `timers_replay`: an attempt that is refused can be made again. `timers_record` and
  `timers_replay` use symmetry of the timers.
* `reply_handler`: three redirections (ten in the code) reach the limit; three bytes against
  a sniffing size of two give data before, at and after the decision; three deferrals.
* `page_load`: seven pages of two chunks; between them every kind of token, a script that
  writes a blocking script, one that writes a style sheet and an inline script, scripts that
  add scripts, one of them twice, scripts that fail, an in-order and an asynchronous script
  that are denied, a handler of `DOMContentLoaded`; one suspension at any point. `MaxCalls` is 60, more than any event action of
  these pages needs (40 and 100 give the same states); one that needed more would not be
  taken.
* `recording`: three frames, so that a load starts while the originating one is in progress
  and outlives it; four loads; four events; limits of three and two for 128 and 10.
  `MaxUnsigned` is 5: the counters wrap around.
* `fuzzy`: twelve URLs that differ in one place each, 255 as largest number. Two candidates
  suffice to compare any two, and the loop keeps nothing but the best.

Deadlock checking is off: a replay, a load and a session end, and bounds stop the others.

### Fairness

* `ReplayEnds` assumes weak fairness of the tick (`updateSharedTimer` re-arms the shared timer
  each time, at most a second ahead), of the scheduler's loop and of the return of handlers,
  and strong fairness of the timeout of a line: ticks disable it for moments only, and Qt
  delivers an expired timer when its event loop is next reached. Nothing is assumed of the page:
  event actions may never arrive. A handler that never returns would stop any replay.
* `LoadEventFires` assumes that something of the load happens as long as something can: the
  network delivers or fails, timers fire, dialogs are closed. It does not say which. The
  page's code need not do anything. `Turn` is the same as `Progress` and stated because TLC can
  evaluate when it is enabled.
* `LoadEnds` assumes that a flush goes on, that Qt delivers posted events and the end of a
  reply, and that a deferral is taken back.
* `SessionEnds` assumes that the two single-shot timers and the event that ends the
  application are delivered. Loads need not end. It holds with both timeouts set, which is
  the clients' default.

### What the model also shows

These have no run; each was seen on a variant of a run or follows from the model.

* Replay scheduler: a timer line that is tried before its parent has run is patched with the
  recorded id and not again (`replayscheduler.cpp:209`), so it can only match fuzzily. A
  replay that ends with lines in the backlog is reported as executed (`main.cpp:341`).
* Register: in a replay, a timer started in a ghost event action runs under a smaller id, and
  the arc ends the program (`EventActionRegister.cpp:184`); the recording has no such case.
  After a refusal the providers of later types are asked. A modal dialog makes dispatches
  overlap, against the assertion in `eventActionDispatchStart`.
* Timers: one stopped while it waits in the register stays active (`Timer.cpp:231`). One that is
  renamed while it waits cannot be stopped and may run after it was destroyed, one that is
  started again there fires twice, and of two with one name the wrong one may be taken out:
  these are the stray timers that the properties of the replay except.
* Inputs: a strict replay ends its process when a script asks for the time, or for a random
  number, outside of event actions (`datalog.cpp:56-62`), and when the page goes on with an
  event action beyond the place at which the recording was saved.
* Fuzzy URLs: paths of equal length match whatever their fragments are, and a timer of the
  same parent whatever its URL is, more than the comments say.
* Reply handler: an error reported after the data was forwarded (`LateErrors`) breaks the order
  of callbacks, and aborting a load before it starts (`AbortsUnstarted`) an assertion. Neither
  Qt nor WebKit does so.
* Page load: no arc leads from a style sheet that was loaded already to the script after it,
  nor from the load of a preloaded asynchronous script to its run. Inline scripts that
  scripts write run without waiting for style sheets, and so do deferred scripts
  (`HTMLScriptRunner.cpp:227` asks only whether the script is loaded); `ScriptsSeeStyles` is
  about the scripts that the parser waits for. Asynchronous scripts are not
  suspended, and two of one URL share a descriptor. One that runs in a suspended document and adds
  a loaded in-order script starts the in-order timer there, `resume` starts it again for the same
  script, and the second fire takes the first of an empty `m_scriptsToExecuteInOrder`. A script that
  access control denies (`ScriptElement.cpp:326`) is never ready: it stays with the script runner
  and delays the load event for ever; an in-order one is taken for ready by the timer of the next
  one, and the assertion at `ScriptRunner.cpp:267` fails. Handlers of error events are not
  modelled on their own: what they add is added by `PageCodeAddsScript`.
* Document events: cancelling the only event takes the first of an empty list; the timer is
  not started again by a cancellation that leaves events.
* Recording: only the originating frame's loads are signalled, not each frame's as
  `autoexplorer.cpp:44` says. A load of the main frame during the exploration starts the
  pre-exploration timer, which then ends the session. `stop` stops no timer, so the exploration
  can go on between the snapshot and the end, and the count of events left can wrap.
  With both timeouts 0 a session need not end.

## 4. Proofs

The theorems hold for every value of the constants that satisfies the named assumptions of
the modules (schedules have unique ids, descriptors have parents only if they are timers,
bounds are numbers, scores are in range, page code adds asynchronous and in-order scripts only). The
runs evaluate the assumptions on their instances and check, on them, the properties that the
theorems state. Where a theorem has a hypothesis on a switch of the model, a run has the same
value of it.

**Replay scheduler** (`ReplayScheduler_proofs`). `TypeCorrect` shows `TypeOK`, `ControlInv`
and `LineInv` together. None is inductive alone: that a returning handler finds a handler to
pop and a line to remove needs `ControlInv` (during the run of an event action nothing in
the nested event loop moves `next`, shortens the backlog or takes the handler away), and that
a backlog line runs a known descriptor needs `LineInv`. `VerdictCorrect` shows
`VerdictStands`, and `DoneIsFinal` that nothing starts after `sigDone`, since every path that
starts an event action needs a mode other than `STOP`. `LinesOnce` shows `EachLineOnce`: the
history, the backlog, the lines passed over and those to come partition the schedule.
`IdsCorrect` (`IdsFollowHistory`) needs that ids are given out in the order of the history.
`StrictOrder` (`StrictUntilRelaxed`) and `TimersFollowParent` (`StrictTimersFollowParent`)
need that before the first relax token the backlog is empty and the history is a prefix of
the schedule, so that the parent of a line already has its new id.

**The promise** (same module). `SchedulerKeepsPromise` is the refinement: initial
states map to initial states of `ReplayPromise`, and each step to one of its steps or to none,
using all the invariants above.

**Register** (`EventActionRegister_proofs`). Without nested loops: no consistency check of the
log fails (`RegisterSound`), user actions are a chain (`UserActionsChained`), and a join comes
after the threads it joins (`JoinsAfterThreads`). The invariant relates the stack of calls to
the open operation of the log, and every id in the log to the next id. Reachability along
arcs is a recursive function; where the proofs need induction over it they take the least
counterexample, which exists because the natural numbers are well-founded.

**Timers** (`ThreadTimers_proofs`).

| Theorems | Properties | Hypothesis |
|---|---|---|
| `TableConsistent`, `AbortsLeaveNoTrace` | `RegistryConsistent`, `HistoryIsTranslation` | `Modal`: where loops nest, ids are not taken ahead and there are no providers, as in the record client |
| `ArcsReachTheLog`, `TimersDoNotCrash` | `NoLostArc`, `NoCrash` | `IdsGrow`: one loop; in the replay neither ghosts nor refusing providers |
| `StoppedStaySilent`, `NoTimerIsLost`, `TimersStayDefined` | `StoppedTimersStaySilent`, `NoLostTimer`, `StaysDefined` | `PlainLoop`: one loop, and no providers in the record client |
| `CallbackAfterStarter` | `FiredAfterStarter` | `OneLoop`: one loop; in the replay no ghosts |

`IdsGrow` is no convenience. In a replay an id is held for the next event action. A ghost
takes a later one, so that an event action after it runs under an older id than its cause; a
provider that refuses leaves the id in the log, and the next event action gets an arc from
itself to itself. The comment at `EventActionRegister.cpp:110` knows of the first. None of
the theorems restricts the clients. `NoLostArc` has no run of its own, it is only proved. What the invariants add to the properties is where a
timer that did not go astray can be: in the heap, in the queue of its descriptor alone and
with its flag set, or running; and that no other timer has its name or a handler under it, so
that whatever is done to the others, stray or not, does not reach it. In the record client
the register calls a timer at once, so that there the same holds of all timers.

**Reply handler** (`NetworkReplyHandler_proofs`). `HandlerAssertions` (`AssertionsHold`),
`CallbackOrder` (`CallbacksInOrder`) and `BytesForwarded` (`NoByteLost`), for loads that are
not aborted before they start, the second without errors after the data was forwarded. How
far the wrapper is with its reply determines what may stand in the queue, and both what the
client has been told. The parts of the invariant take the state as parameters, because a
callback changes it in mid-call.

**Inputs** (`RecordReplay_proofs`). `OneReader` (`OneReaderPerReply`) in all modes: the queue of
an open reply is what is left of its recorded reply, and its next number is the number of
signals that were released. `RepliesChained` (`RepliesAreOrdered`) as long as the replay is compared
with the recording: URL and number identify a reply, the descriptors in the trace are
those of signals that were released, and the arcs lead from one to the next.

`ReplayRepeats` (`StrictReplayRepeats`), `ReplayGoesOn` (`StrictReplayGoesOn`) and
`ReplayReplayed` (`ReplayCanBeReplayed`) rest on `PlayInv`, which says in which state the
recording was at each place of its script. A view is what the page can tell apart: of each
reply how many signals were released, how far it was read and whether it is open; the cookies;
and the times read by the event action. There is one view per event action and step, and a
view and a step with its result determine the next view. In the recording the views follow the
trace, the replies and the cookies are those of the last view, and the log of an event action
holds the times of its last view. In a strict replay the page
has the view of the recording at the same place; the store is the recorded replies without
those matched, and each log is split into what was read and what is left. A restart turns the
first statement into the second at the first place. Since what is left is what the recording
consumed from that place on, no reply is missing and no log runs dry before the end of the
script, and the replay's own recording is the recording. `StrictReplayGoesOn` says when a
strict replay may exit all the same: outside of event actions, and beyond the cut of the last
one, of which the logs know nothing. Facts about flattened sequences, which would be inductions over
data, are proved by taking the least counterexample. The three theorems have no hypothesis
beyond the assumptions of the module.

**Page load** (`PageLoad_proofs`). For every set of pages and every number of calls:

| Theorem | Property |
|---|---|
| `AssertionsNeverFail` | `AssertionsHold`: no assertion of the parser, the script runner or the loader fails, except that those of `inOrderTimerFired` may fail for a denied script, and for others once the timer was started in a suspended document |
| `CompleteOnlyWhenDone` | `CompleteMeansDone`: when a document becomes complete it has been parsed, and nothing of it is outstanding but scripts added since `checkCompleted` found nothing outstanding |
| `RunnerScriptsOrdered` | `ScriptsOrdered`: the log orders in-order scripts after the earlier ones, and a script of the script runner after the load its element heard of, with the exceptions of the first theorem |
| `IdleAlways` | between event actions the invariant below holds, with no call left |

The invariant describes the document in the middle of an event action, where the assertions
are. The stack of calls is well formed: it says which method may be called from which, and the
counters of the code (script nesting, pump sessions, insertion points of the input) are the
numbers of such calls on it. For each kind of call there is what holds before it, for
instance that a pump starts unpaused and that an ended parser is never pumped. Between event
actions the stack is empty, and what is left is the phase of the parser and, in each
phase, which of its pending parts may be set. Each script of the script runner delays the load
event; unless the in-order timer has strayed, it is only pending for a script that has been
loaded, and while the timer that completes the document is pending nothing is outstanding but
what was added since. The last is preserved because nothing but that timer sets `isComplete`.

A second part of the invariant (`Logged`) is about the log. A label belongs to an event action if
it is in the action's set, or if the set has the label of the event action under way and that
one has it (`Has`): the end of an event action turns the second into the first. The event
action of a script that is loaded (`eventActionToFinish`) and the one that started the timer of
an asynchronous script have heard of the load, and `lastInOrder` has the label of each
in-order script executed. The label of a script is kept by every method of the parser because
they only join event actions, and a loaded script at the head of the vector that was not denied
has an event action, so that `inOrderTimerFired` need not assert for it unless the timer strayed.

No theorem restricts the pages or their code any further than the assumption that page code adds
asynchronous and in-order scripts only. Where the code falls short,
the property names the case instead: `strayed` (an asynchronous script of a suspended document
adds a loaded in-order script), `denied` (a script that access control refuses), and `addedSince`
(the conditions of `checkCompleted` are not tested again). `TwicePage` and `DeniedPages` of
`page_load` reach the first two, and `load_event` the third.

**Fuzzy URLs** (`FuzzyUrl_proofs`): `PathAlwaysDecides` and `SameParentWins`, by bounds on the
weighted sum. **Recording sessions** (`AutoExplorer_proofs`): `CountCorrect` (`CountReturns`), and
`SavedOnce`, the part of `SessionEnds` that is not liveness: a session is saved exactly when it ends.

Only model-checked:

* `ReplayEnds`, `LoadEventFires`, `LoadEnds` and `SessionEnds`: liveness under fairness is out of
  the prover's reach;
* `YieldingChangesNothing`: it compares the document with one that a recursive reference
  definition builds, so a proof is an induction over data;
* `ScriptsSeeStyles`, `InputOrdered` and `LoadEventOrdered`: they hold of pages whose tokens are
  distinct only, and nothing in the invariant says where each token of a page is.

## 5. Not modelled

* Fire times, heap order and the lengths of timeouts: any timer in the heap may be due, and
  any timeout may pass. `augmentFireInterval` changes a time only.
* The text formats of schedules, descriptors and logs.
* Logged memory accesses, scopes and trigger arcs of the action log.
* The specification scheduler: nothing constructs it (`Record/main.cpp:86` and `106` are
  comments).
* Tokenizing and tree construction beyond tokens; `document.open`, navigation, child frames of a
  document that loads; request bodies and upload progress.
* The queue of deferred user events in the Qt interface.
* The cookies that `-cookie` sets before a recording (`Record/main.cpp:136-142`) and a replay does
  not have: the jar holds what replies wrote.
* Other options, windows, screenshots, warnings and scripts. EventRacer is not in the repository.
* The rest of WebKit. The repository contains all of it, two million lines for several ports; the
  record and replay logic is a few thousand, and the map covers a small share of the whole
  for that reason.

## 6. Plan

1. (done) Replay scheduler, promise, first proofs; happens-before; register; timers; fuzzy URLs.
2. (done) Network replay and data logs over two processes; reply handler; parser, script
   runner and load event composed; document events; recording sessions.
3. (done) Proofs of the scheduler's order properties and of its promise, of the register, the
   timers, the reply handler, the fuzzy search and the recording sessions; of the replies'
   readers and order, and that a strict replay repeats the recording; of the page load's
   assertions, of its completeness and of the order of its scripts.
4. The queue of deferred user events; commands and trigger arcs of the action log.
