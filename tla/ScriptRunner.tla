---------------------------- MODULE ScriptRunner ----------------------------
(***************************************************************************)
(* The scripts of a document that do not block its parser: scripts to be   *)
(* executed in order and asynchronous scripts, each executed by a timer of *)
(* its own event action.                                                   *)
(***************************************************************************)
EXTENDS FrameLoader

NoToken == "none"

\* What the token kinds of PageLoad say of a script.
IsAsync(d, script) == d.page.kind[script] = "async"

\* Mutant: whichever script is ready is executed.
updateInOrderTimerEagerly(d) ==
    IF d.inOrder = <<>> \/ isActive(d.inOrderTimer) THEN d
    ELSE [d EXCEPT !.inOrderTimer = startOneShot(@), !.strayed = @ \/ d.suspended]

\* updateInOrderTimer: it does not ask whether the document is suspended.
updateInOrderTimer(d) ==
    IF d.inOrder = <<>> \/ Head(d.inOrder) \notin d.loaded \/ isActive(d.inOrderTimer)
    THEN d
    ELSE [d EXCEPT !.inOrderTimer = startOneShot(@), !.strayed = @ \/ d.suspended]

\* The end of ScriptElement::notifyFinished, and notifyScriptReady
notifyScriptReady(d, script) ==
    LET ready == [d EXCEPT !.eventActionToFinish[script] = Now,
                           !.now = @ \cup {<<"ready", script>>}]
    IN  IF IsAsync(d, script)
        THEN [check(ready, script \in d.async)
                EXCEPT !.async = @ \ {script}, !.asyncTimers[script] = startOneShot(NewTimer)]
        ELSE updateInOrderTimer(check(ready, d.inOrder # <<>>))

\* ScriptElement::notifyFinished: a script that is denied by access control is
\* not made ready, and stays where it is.
scriptFinished(d, script) ==
    IF script \in d.page.denied THEN d ELSE notifyScriptReady(d, script)

\* queueScriptForExecution, and the end of prepareScript: the element of a
\* script that has been loaded already hears of it at once.
queueScriptForExecution(d, script) ==
    LET counted == [request(d, {script}) EXCEPT !.delayCount = @ + 1,
                                                !.addedSince = @ \cup {script}]
        queued == IF IsAsync(d, script)
                  THEN [counted EXCEPT !.async = @ \cup {script}]
                  ELSE [counted EXCEPT !.inOrder = Append(@, script)]
    IN  IF script \in d.loaded THEN scriptFinished(queued, script) ELSE queued

\* The page's code adds script elements to the document.
insertScripts(d, scripts) ==
    LET inserted[n \in 0..Len(scripts)] ==
          IF n = 0 THEN d ELSE queueScriptForExecution(inserted[n - 1], scripts[n])
    IN  inserted[Len(scripts)]

\* ScriptElement::execute: what the script writes is ignored; a script whose
\* load has failed only has its error event dispatched.
executeQueued(d, script) ==
    LET begun == [d EXCEPT !.ran = Append(@, script), !.now = @ \cup {<<"ran", script>>}]
    IN  IF script \in d.page.failing THEN begun
        ELSE insertScripts(begun, d.page.inserts[script])

\* inOrderTimerFired: it takes for granted that there is a script, and asserts
\* that its element has heard of its load; misfired keeps the scripts for which
\* it has not.
inOrderTimerFired(d) ==
    LET script == Head(d.inOrder)
        done == decrementLoadEventDelayCount(
                    executeQueued([d EXCEPT !.inOrder = Tail(@)], script))
        action == d.eventActionToFinish[script]
        heard == [done EXCEPT !.misfired = IF action = {} THEN @ \cup {script} ELSE @]
        arcs == addArc(heard, d.lastInOrder \cup action \cup d.resumeJoin)
    IN  IF d.inOrder = <<>> THEN [d EXCEPT !.misfired = @ \cup {NoToken}]
        ELSE updateInOrderTimer([arcs EXCEPT !.lastInOrder = Now, !.resumeJoin = {}])

\* DeferAsyncScriptExecution::timerFired
asyncTimerFired(d, script) == decrementLoadEventDelayCount(executeQueued(d, script))

\* suspend
suspendRunner(d) ==
    LET ended == [d EXCEPT !.suspendJoin = @ \cup Now]
    IN  IF isActive(d.inOrderTimer)
        THEN [ended EXCEPT !.runnerSuspended = TRUE, !.inOrderTimer = stopTimer(@)]
        ELSE ended

\* resume
resumeRunner(d) ==
    LET joined == [addArc(d, d.suspendJoin) EXCEPT !.suspendJoin = {}, !.resumeJoin = @ \cup Now]
    IN  IF d.runnerSuspended
        THEN [joined EXCEPT !.runnerSuspended = FALSE, !.inOrderTimer = startOneShot(@)]
        ELSE joined
=============================================================================
