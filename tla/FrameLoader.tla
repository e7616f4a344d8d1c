---------------------------- MODULE FrameLoader ----------------------------
(***************************************************************************)
(* When a document is complete: the count of outstanding requests, the     *)
(* count that delays the load event, and the load event itself, which      *)
(* WebERA moved to a timer of its own.                                     *)
(*                                                                         *)
(* A document is a record.  The operations are functions from record to    *)
(* record, because one event action runs many of them; see PageLoad for    *)
(* the fields.                                                             *)
(***************************************************************************)
EXTENDS PageTimer, FiniteSets

\* HBAddExplicitArc(earlier, HBCurrentEventAction()), and joinAction.
addArc(d, earlier) == [d EXCEPT !.now = @ \cup earlier]

\* ASSERT
check(d, holds) == [d EXCEPT !.failed = @ \/ ~holds]

\* Mutant: the delay count is not looked at.
checkCompletedDelayed(d) ==
    IF d.isComplete \/ d.parsing \/ d.requests # {} THEN d
    ELSE [d EXCEPT !.loadedTimer = startOneShot(@), !.addedSince = {}]

\* checkCompleted: what is checked here is not checked again by the timer.
checkCompleted(d) ==
    IF d.isComplete \/ d.parsing \/ d.requests # {} \/ d.delayCount # 0 THEN d
    ELSE [d EXCEPT !.loadedTimer = startOneShot(@), !.addedSince = {}]

\* implicitClose: the parser is detached and the load event dispatched.
implicitClose(d) ==
    [d EXCEPT !.state = "detached", !.parserTimer = stopTimer(@),
              !.loadEvents = @ + 1]

\* checkCallImplicitClose
checkCallImplicitClose(d) ==
    IF d.didCallImplicitClose \/ d.parsing \/ d.delayCount # 0 THEN d
    ELSE implicitClose([d EXCEPT !.didCallImplicitClose = TRUE])

\* Mutant: the load event is not ordered after the requests.
becomeCompleteUnjoined(d) ==
    [addArc(d, d.parsingJoin \cup d.delayJoin) EXCEPT !.isComplete = TRUE]

\* documentLoadedTimerFired, until the ready state is set: m_isComplete is.
becomeComplete(d) ==
    [addArc(d, d.parsingJoin \cup d.requestJoin \cup d.delayJoin) EXCEPT !.isComplete = TRUE]

\* Mutant: the end of a delay is not followed by a check.
decrementLoadEventDelayCountQuietly(d) ==
    [d EXCEPT !.delayCount = @ - 1, !.delayJoin = @ \cup Now]

\* decrementLoadEventDelayCount
decrementLoadEventDelayCount(d) ==
    LET left == [check(d, d.delayCount > 0) EXCEPT !.delayCount = @ - 1,
                                                   !.delayJoin = @ \cup Now]
    IN  IF left.delayCount = 0 /\ ~isActive(d.delayTimer)
        THEN [left EXCEPT !.delayTimer = startOneShot(@)]
        ELSE left

\* CachedResourceLoader::requestScript and the like: a resource is requested
\* once, by its user or by the preload scanner.
request(d, resources) ==
    [d EXCEPT !.requests = @ \cup (resources \ d.requested),
              !.requested = @ \cup resources]

\* SubresourceLoader::releaseResources
releaseResources(d, resource) ==
    checkCompleted([d EXCEPT !.requests = @ \ {resource}, !.requestJoin = @ \cup Now])
=============================================================================
