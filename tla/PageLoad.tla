------------------------------ MODULE PageLoad ------------------------------
(***************************************************************************)
(* The load of a page in the instrumented WebKit: the document comes in    *)
(* chunks from the network, the parser builds it token by token, scripts   *)
(* and style sheets arrive in any order, scripts write into the document   *)
(* and add scripts to it, a dialog suspends the document, and at the end   *)
(* the load event is dispatched.  Each step is one event action (or the    *)
(* step that makes a timer due).                                           *)
(***************************************************************************)
EXTENDS HTMLDocumentParser

CONSTANTS
    Pages,          \* the pages, see PagesAssumption
    LateScripts,    \* TRUE: page code may add scripts to a parsed document
    MaxSuspends,    \* how often the document is suspended
    MaxCalls        \* how many calls the parser makes in an event action

Kinds == {"text", "eof", "sheet", "inline", "external", "defer", "async", "inOrder"}

\* A page has the chunks it comes in, a kind for each token, what a script
\* writes and which scripts it adds, the scripts whose load fails or is denied
\* by access control, the scripts that handlers of DOMContentLoaded and of the
\* last readystatechange add, and those other page code (timers, events) adds.
\* External scripts that code adds are asynchronous or in order: prepareScript
\* hands only those of the parser to the parser.  A token that is added twice
\* stands for two elements with the same script.
ASSUME PagesAssumption ==
    /\ LateScripts \in BOOLEAN /\ MaxSuspends \in Nat /\ MaxCalls \in Nat
    /\ \A page \in Pages :
         LET tokens == DOMAIN page.kind
             addable == {t \in tokens : page.kind[t] \in {"async", "inOrder"}}
         IN  /\ IsFiniteSet(tokens) /\ NoToken \notin tokens
             /\ page.kind \in [tokens -> Kinds]
             /\ "eof" \in tokens /\ page.kind["eof"] = "eof"
             /\ page.chunks \in Seq(Seq(tokens))
             /\ page.writes \in [tokens -> Seq(tokens)]
             /\ page.inserts \in [tokens -> Seq(addable)]
             /\ page.late \subseteq addable
             /\ page.failing \subseteq {t \in tokens : page.kind[t] # "inline"}
             /\ page.denied \subseteq addable
             /\ page.onContentLoaded \in Seq(addable)
             /\ page.onComplete \in Seq(addable)

VARIABLES
    doc,        \* the document and what belongs to it
    turn        \* changes with every step of Progress, see Fairness

vars == <<doc, turn>>

Init ==
    \E page \in Pages :
        /\ doc = [page |-> page,
               now |-> {},                  \* the current (last) event action
               chunks |-> 0,                \* the chunks the network has delivered
               finished |-> FALSE,          \* finish has been called
               \* HTMLDocumentParser and HTMLScriptRunner
               state |-> "parsing",         \* DocumentParser::m_state
               input |-> << <<>> >>,        \* m_input
               paused |-> FALSE,            \* HTMLTreeBuilder::m_isPaused
               script |-> NoToken,          \* m_scriptToProcess
               blocking |-> NoToken,        \* m_parsingBlockingScript
               waitsForSheets |-> FALSE,    \* m_hasScriptsWaitingForStylesheets
               afterParsing |-> <<>>,       \* m_scriptsToExecuteAfterParsing
               watching |-> {},             \* scripts with the parser as client
               nesting |-> 0,               \* m_scriptNestingLevel
               pumps |-> 0,                 \* m_pumpSessionNestingLevel
               endDelayed |-> FALSE,        \* m_endWasDelayed
               parserTimer |-> NewTimer,    \* m_continueNextChunkTimer
               parserSuspended |-> FALSE,   \* m_isSuspendedWithActiveTimer
               calls |-> <<>>,              \* what the parser has still to do
               lastParse |-> {},            \* m_lastParseEventAction
               lastNonInserted |-> {},      \* m_lastNonInsertedParseEventAction
               inputJoin |-> {},            \* m_modifiedInputJoin
               \* ScriptRunner
               inOrder |-> <<>>,            \* m_scriptsToExecuteInOrder
               async |-> {},                \* m_pendingAsyncScripts
               asyncTimers |-> [s \in DOMAIN page.kind |-> NewTimer],
               inOrderTimer |-> NewTimer,   \* m_inOrderTimer
               runnerSuspended |-> FALSE,   \* m_suspended
               lastInOrder |-> {},          \* m_inOrderLastEventAction
               eventActionToFinish |-> [s \in DOMAIN page.kind |-> {}],
               suspendJoin |-> {}, resumeJoin |-> {},
               \* Document, resources and FrameLoader
               sheets |-> {},               \* m_pendingStylesheets
               requested |-> {}, requests |-> {}, loaded |-> {},
               loadAction |-> [s \in DOMAIN page.kind |-> {}],
               parsing |-> TRUE,            \* m_bParsing
               delayCount |-> 0,            \* m_loadEventDelayCount
               delayTimer |-> NewTimer,     \* m_loadEventDelayTimer
               parsingJoin |-> {}, requestJoin |-> {}, delayJoin |-> {},
               isComplete |-> FALSE, didCallImplicitClose |-> FALSE,
               loadedTimer |-> NewTimer,    \* m_documentLoadedTimer
               loadEvents |-> 0,            \* load events dispatched
               suspended |-> FALSE,         \* m_scheduledTasksAreSuspended
               suspends |-> 0,
               late |-> page.late,          \* scripts page code may still add
               tree |-> <<>>,               \* tokens built and scripts executed by the parser
               ran |-> <<>>,                \* scripts executed by the script runner
               failed |-> FALSE,            \* an assertion has failed
               misfired |-> {},             \* ... in inOrderTimerFired, for these scripts
               strayed |-> FALSE,           \* m_inOrderTimer was started in a suspended document
               addedSince |-> {}]           \* scripts added since checkCompleted last succeeded
        /\ turn = 0

\* At the end of an event action what refers to it is given its labels.
Settled(d) ==
    LET past == d.now \ Now
        settle(action) == IF Now \subseteq action THEN (action \ Now) \cup past ELSE action
        settleTimer(t) == [t EXCEPT !.starter = settle(@)]
    IN  [d EXCEPT !.now = past,
                  !.lastParse = settle(@), !.lastNonInserted = settle(@),
                  !.inputJoin = settle(@), !.parsingJoin = settle(@),
                  !.requestJoin = settle(@), !.delayJoin = settle(@),
                  !.suspendJoin = settle(@), !.resumeJoin = settle(@),
                  !.lastInOrder = settle(@),
                  !.loadAction = [s \in DOMAIN @ |-> settle(@[s])],
                  !.eventActionToFinish = [s \in DOMAIN @ |-> settle(@[s])],
                  !.asyncTimers = [s \in DOMAIN @ |-> settleTimer(@[s])],
                  !.parserTimer = settleTimer(@), !.inOrderTimer = settleTimer(@),
                  !.loadedTimer = settleTimer(@), !.delayTimer = settleTimer(@)]

\* The event action that begins with d is carried out to its end.
Performs(d) ==
    LET done == run(d, MaxCalls)
    IN  done.calls = <<>> /\ doc' = Settled(done)

\* An event action starts with its own label.
Entered(label) == [doc EXCEPT !.now = {label}]

\* A timer's event action comes after the one that started it.
EnteredByTimer(t) == [doc EXCEPT !.now = t.starter]

-----------------------------------------------------------------------------
(* The network.  While the document is suspended its page defers loading.  *)

\* DocumentWriter::addData
ReceiveData ==
    /\ ~doc.suspended
    /\ doc.chunks < Len(doc.page.chunks)
    /\ LET n == doc.chunks + 1
       IN  Performs(append([Entered(<<"append", n>>) EXCEPT !.chunks = n], doc.page.chunks[n]))

\* DocumentWriter::end
FinishLoading ==
    /\ ~doc.suspended
    /\ doc.chunks = Len(doc.page.chunks) /\ ~doc.finished
    /\ Performs(finish([Entered(<<"append", doc.chunks + 1>>) EXCEPT !.finished = TRUE], "eof"))

\* SubresourceLoader::didFinishLoading and didFail of a script.
ScriptLoaded(s) ==
    /\ ~doc.suspended
    /\ s \in doc.requests /\ doc.page.kind[s] # "sheet"
    /\ LET got == later([Entered(<<"loaded", s>>)
                            EXCEPT !.loaded = @ \cup {s}, !.loadAction[s] = Now],
                        "releaseResources", s)
           heard == IF s \in doc.async \/ s \in {doc.inOrder[k] : k \in 1..Len(doc.inOrder)}
                    THEN scriptFinished(got, s)
                    ELSE got
       IN  Performs(IF s \in doc.watching THEN notifyFinished(heard, s) ELSE heard)

\* ... of a style sheet: Document::removePendingSheet, unless no element has
\* asked for it yet.
SheetLoaded(s) ==
    /\ ~doc.suspended
    /\ s \in doc.requests /\ doc.page.kind[s] = "sheet"
    /\ LET got == later([Entered(<<"loaded", s>>)
                            EXCEPT !.loaded = @ \cup {s}, !.sheets = @ \ {s}],
                        "releaseResources", s)
       IN  Performs(IF s \in doc.sheets /\ got.sheets = {} /\ ~isStopped(got)
                    THEN executeScriptsWaitingForStylesheets(got)
                    ELSE got)

-----------------------------------------------------------------------------
(* The timers: each is first due, and fires when the scheduler says so. *)

ParserTimerDue ==
    /\ doc.parserTimer.inHeap
    /\ doc' = [doc EXCEPT !.parserTimer = timerDue(@)]

ParserTimerFires ==
    /\ doc.parserTimer.queued > 0
    /\ Performs(resumeParsingAfterYield(
                 [EnteredByTimer(doc.parserTimer) EXCEPT !.parserTimer = timerFired(@)]))

InOrderTimerDue ==
    /\ doc.inOrderTimer.inHeap
    /\ doc' = [doc EXCEPT !.inOrderTimer = timerDue(@)]

InOrderTimerFires ==
    /\ doc.inOrderTimer.queued > 0
    /\ doc' = Settled(inOrderTimerFired(
                 [EnteredByTimer(doc.inOrderTimer) EXCEPT !.inOrderTimer = timerFired(@)]))

AsyncTimerDue(s) ==
    /\ doc.asyncTimers[s].inHeap
    /\ doc' = [doc EXCEPT !.asyncTimers[s] = timerDue(@)]

AsyncTimerFires(s) ==
    /\ doc.asyncTimers[s].queued > 0
    /\ doc' = Settled(asyncTimerFired(
                 [EnteredByTimer(doc.asyncTimers[s]) EXCEPT !.asyncTimers[s] = timerFired(@)], s))

LoadedTimerDue ==
    /\ doc.loadedTimer.inHeap
    /\ doc' = [doc EXCEPT !.loadedTimer = timerDue(@)]

\* documentLoadedTimerFired: the page's code hears of the last change of the
\* ready state before the load event is dispatched.
documentLoadedTimerFired(d) ==
    checkCallImplicitClose(insertScripts(becomeComplete(d), d.page.onComplete))

LoadedTimerFires ==
    /\ doc.loadedTimer.queued > 0
    /\ doc' = Settled(documentLoadedTimerFired(
                 [EnteredByTimer(doc.loadedTimer) EXCEPT !.loadedTimer = timerFired(@)]))

\* loadEventDelayTimerFired: the timer has no descriptor, it fires when it is
\* due, in no event action.
DelayTimerFires ==
    /\ doc.delayTimer.inHeap
    /\ doc' = Settled(checkCompleted(
                 [doc EXCEPT !.now = {}, !.delayTimer = timerFired(timerDue(@))]))

-----------------------------------------------------------------------------
(* Other code of the page. *)

\* A callback of the page adds a script to the document.
PageCodeAddsScript(s) ==
    /\ ~doc.suspended
    /\ s \in doc.late
    /\ LateScripts \/ doc.parsing
    /\ doc' = Settled(queueScriptForExecution(
                 [Entered(<<"added", s>>) EXCEPT !.late = @ \ {s}], s))

\* PageGroupLoadDeferrer: Document::suspendScheduledTasks
SuspendScheduledTasks ==
    /\ ~doc.suspended
    /\ doc.suspends < MaxSuspends
    /\ doc' = Settled([suspendParser(suspendRunner(Entered(<<"suspend", doc.suspends>>)))
                          EXCEPT !.suspended = TRUE, !.suspends = @ + 1])

\* ~PageGroupLoadDeferrer: Document::resumeScheduledTasks
ResumeScheduledTasks ==
    /\ doc.suspended
    /\ doc' = Settled([resumeRunner(resumeParser(Entered(<<"resume", doc.suspends>>)))
                          EXCEPT !.suspended = FALSE])

Progress ==
    \/ ReceiveData
    \/ FinishLoading
    \/ \E s \in doc.requests : ScriptLoaded(s) \/ SheetLoaded(s)
    \/ ParserTimerDue
    \/ ParserTimerFires
    \/ InOrderTimerDue
    \/ InOrderTimerFires
    \/ \E s \in DOMAIN doc.page.kind : AsyncTimerDue(s) \/ AsyncTimerFires(s)
    \/ LoadedTimerDue
    \/ LoadedTimerFires
    \/ DelayTimerFires
    \/ ResumeScheduledTasks

Next ==
    \/ Progress /\ turn' = 1 - turn
    \/ (\E s \in DOMAIN doc.page.kind : PageCodeAddsScript(s)) /\ UNCHANGED turn
    \/ SuspendScheduledTasks /\ UNCHANGED turn

\* The condition under which Progress is enabled.
TimerPending(t) == t.inHeap \/ t.queued > 0
CanProgress ==
    \/ doc.suspended \/ ~doc.finished \/ doc.requests # {}
    \/ \E t \in {doc.parserTimer, doc.inOrderTimer, doc.loadedTimer, doc.delayTimer} :
          TimerPending(t)
    \/ \E s \in DOMAIN doc.page.kind : TimerPending(doc.asyncTimers[s])

\* The network delivers or fails, timers fire, and dialogs are closed: no step
\* of a load is put off for ever.  Turn is what Progress does to turn, so that
\* weak fairness of Turn is weak fairness of Progress; its ENABLED, unlike that
\* of Progress, is one TLC can evaluate.
Turn == CanProgress /\ turn' = 1 - turn
Spec == Init /\ [][Next]_vars /\ WF_turn(Turn)

-----------------------------------------------------------------------------
(* Properties. *)

Elements(seq) == {seq[k] : k \in 1..Len(seq)}

\* The style sheets in what the network delivers of the page.
NetworkSheets(page) ==
    {t \in UNION {Elements(page.chunks[n]) : n \in 1..Len(page.chunks)} : page.kind[t] = "sheet"}

\* What a parser that never yields and never waits makes of the page: a
\* script is executed where it stands, or its error event is dispatched there
\* if its load failed, what it writes is parsed next, and deferred scripts are
\* executed at the end.
Parsed(page, tokens) ==
    LET parsed[rest \in Seq(DOMAIN page.kind)] ==
          IF rest = <<>> THEN <<>>
          ELSE LET t == Head(rest)
                   written == IF t \in page.failing THEN <<>> ELSE parsed[page.writes[t]]
               IN  <<t>> \o (IF page.kind[t] \in {"inline", "external"} THEN <<t>> \o written ELSE <<>>)
                        \o parsed[Tail(rest)]
    IN  parsed[tokens]

Flattened(seqs) ==
    LET flat[n \in 0..Len(seqs)] == IF n = 0 THEN <<>> ELSE flat[n - 1] \o seqs[n]
    IN  flat[Len(seqs)]

Reference(page) ==
    LET tokens == Parsed(page, Append(Flattened(page.chunks), "eof"))
    IN  tokens \o SelectSeq(tokens, LAMBDA t : page.kind[t] = "defer")

\* However the data arrives, wherever the parser yields and whatever suspends
\* it: the tokens it builds and the scripts it executes are a prefix of what a
\* parser without any of that does, and all of it once the document is parsed.
YieldingChangesNothing ==
    LET whole == Reference(doc.page)
    IN  /\ Len(doc.tree) <= Len(whole)
        /\ doc.tree = SubSeq(whole, 1, Len(doc.tree))
        /\ ~doc.parsing => Len(doc.tree) = Len(whole)

\* No assertion of the parser, its scripts and the counters fails; those of
\* inOrderTimerFired fail for scripts that were denied by access control, and
\* for others only if the timer was started while the document was suspended.
AssertionsHold ==
    /\ ~doc.failed
    /\ doc.misfired \subseteq doc.page.denied \/ doc.strayed

\* The script runner executes a script in an event action that comes after the
\* one in which its element heard of its load, unless it was denied or the
\* timer was started while the document was suspended, and a script to be
\* executed in order in any case after those that executed the earlier ones.
ScriptsOrdered ==
    [][\A k \in (Len(doc.ran) + 1)..Len(doc'.ran) :
          /\ \/ <<"ready", doc'.ran[k]>> \in doc'.now
             \/ doc'.ran[k] \in doc.page.denied
             \/ doc'.strayed
          /\ doc.page.kind[doc'.ran[k]] = "inOrder" =>
                \A j \in 1..(k - 1) : doc.page.kind[doc'.ran[j]] = "inOrder" =>
                                        <<"ran", doc'.ran[j]>> \in doc'.now]_vars

\* A script for which the parser waits finds the style sheets before it in the
\* document that came from the network loaded, whichever of them and of the
\* rest of the document arrived first.
ScriptsSeeStyles ==
    LET sheets == NetworkSheets(doc.page)
    IN  \A j, k, m \in 1..Len(doc.tree) :
            /\ j < k /\ k < m /\ doc.tree[k] = doc.tree[m]
            /\ doc.tree[j] \in sheets /\ doc.page.kind[doc.tree[k]] \in {"inline", "external"}
            => doc.tree[j] \in doc.loaded

\* When the document becomes complete it has been parsed, and whatever is
\* outstanding was added after checkCompleted last found nothing outstanding:
\* requests for those scripts, and what delays the load event.
CompleteMeansDone ==
    [][(doc'.isComplete /\ ~doc.isComplete) =>
          /\ ~doc.parsing
          /\ doc.requests \subseteq doc.addedSince
          /\ doc.addedSince = {} => doc.delayCount = 0]_vars

\* A token is built in an event action that comes after the one that delivered
\* it and after those that built the tokens and executed the scripts before it.
InputOrdered ==
    [][\A k \in (Len(doc.tree) + 1)..Len(doc'.tree) :
          /\ \A j \in 1..(k - 1) : \/ <<"built", doc'.tree[j]>> \in doc'.now
                                   \/ <<"ran", doc'.tree[j]>> \in doc'.now
          /\ \A n \in 1..Len(doc.page.chunks) :
                doc'.tree[k] \in Elements(doc.page.chunks[n]) => <<"append", n>> \in doc'.now]_vars

\* The load event is dispatched in an event action that comes after all that
\* built the document, executed its scripts and loaded its resources.
LoadEventOrdered ==
    [][doc'.loadEvents > doc.loadEvents =>
          /\ \A t \in Elements(doc.tree) : <<"built", t>> \in doc'.now
          /\ \A s \in Elements(doc.ran) : <<"ran", s>> \in doc'.now
          /\ \A s \in doc.loaded : <<"loaded", s>> \in doc'.now]_vars

\* The load event is dispatched, once, unless a script that was denied is left
\* with the script runner, which delays the load event for it for ever.
LoadEventFires ==
    <>[](\/ doc.loadEvents = 1
         \/ doc.page.denied \cap (doc.async \cup Elements(doc.inOrder)) # {})
=============================================================================
