---------------------------- MODULE AutoExplorer ----------------------------
(***************************************************************************)
(* A recording session: the frames of the page load, the automatic         *)
(* exploration triggers events on the page while nothing loads, and when   *)
(* it ends, or the user closes the window, the recording is saved and the  *)
(* client ends.  Three Qt timers, the signals of the page and the user     *)
(* decide about the end in any order.                                      *)
(***************************************************************************)
EXTENDS Integers, FiniteSets

CONSTANTS
    Frames,         \* the frames of the page
    Main,           \* its main frame
    NoFrame,
    ExploredLimit,  \* the initial m_numEventActionsExploredLimit, 128
    FailureLimit,   \* 10 in the code
    MaxUnsigned,    \* the largest unsigned int
    MaxLoads,       \* how many loads start
    MaxEvents       \* how many events the page's nodes listen to

ASSUME ExplorerAssumption ==
    /\ Main \in Frames /\ NoFrame \notin Frames
    /\ ExploredLimit \in Nat \ {0} /\ FailureLimit \in Nat \ {0}
    /\ MaxUnsigned \in Nat /\ ExploredLimit < MaxUnsigned
    /\ MaxLoads \in Nat /\ MaxEvents \in Nat

VARIABLES
    loading,        \* the frames being loaded
    loads,          \* how many loads have started
    tracked,        \* ProgressTracker::m_numProgressTrackedFrames
    origin,         \* ProgressTracker::m_originatingProgressFrame
    originating,    \* the frames with FrameLoaderClientQt::m_isOriginatingLoad
    framesLoading,  \* m_numFramesLoading
    preTimer,       \* m_preExplorationTimer is active
    exploreTimer,   \* m_explorationTimer is active
    keepAlive,      \* m_explorationKeepAliveTimer is active
    limit,          \* m_numEventActionsExploredLimit
    failures,       \* m_numFailedExplorationAttempts
    connected,      \* urlChanged is connected to differentUrl
    pageConnected,  \* pageChanged is connected to differentPage
    events,         \* events in the EventAttachLog
    session,        \* "running" (m_running), "closed" (the window is), or "ended"
    saved           \* how often snapshotState has been called

loadVars == <<loading, loads, tracked, origin, originating>>
exploreVars == <<preTimer, exploreTimer, keepAlive, limit, failures, connected, pageConnected>>
vars == <<loadVars, framesLoading, exploreVars, events, session, saved>>

\* explore, in the constructor of RecordClientApplication, with both timeouts.
Init ==
    /\ loading = {} /\ loads = 0 /\ tracked = 0 /\ origin = NoFrame /\ originating = {}
    /\ framesLoading = 0
    /\ preTimer = TRUE /\ exploreTimer = FALSE /\ keepAlive = FALSE
    /\ limit = ExploredLimit /\ failures = 0 /\ connected = FALSE /\ pageConnected = TRUE
    /\ events \in 0..MaxEvents
    /\ session = "running" /\ saved = 0

-----------------------------------------------------------------------------
\* slOnCloseEvent
slOnCloseEvent ==
    IF session # "running" THEN UNCHANGED <<session, saved>>
    ELSE session' = "closed" /\ saved' = saved + 1

\* stop: the main frame's signals are disconnected, no timer is stopped.
stop == connected' = FALSE /\ pageConnected' = FALSE /\ slOnCloseEvent

\* Mutant: the exploration is not limited in time.
startAutoExplorationUntimed ==
    /\ connected' = TRUE
    /\ keepAlive' = TRUE /\ preTimer' = FALSE
    /\ UNCHANGED exploreTimer

\* startAutoExploration
startAutoExploration ==
    /\ connected' = TRUE
    /\ keepAlive' = TRUE /\ exploreTimer' = TRUE /\ preTimer' = FALSE

-----------------------------------------------------------------------------
(* The page. *)

\* FrameLoader::prepareForLoadStart: ProgressTracker::progressStarted,
\* emitLoadStarted, frameLoadStarted, and for the main frame the start of the
\* pre-exploration timer.  A frame that navigates while it loads has ended that
\* load before: continueLoadAfterNavigationPolicy calls stopAllLoaders, and with
\* it progressCompleted and emitLoadFinished, before it prepares the next one.
LoadStarts(frame) ==
    LET originates == tracked = 0 \/ origin = frame
    IN  /\ session # "ended"
        /\ loads < MaxLoads /\ frame \notin loading
        /\ loads' = loads + 1
        /\ loading' = loading \cup {frame}
        /\ tracked' = IF originates THEN 1 ELSE tracked + 1
        /\ origin' = IF originates THEN frame ELSE origin
        /\ originating' = IF originates THEN originating \cup {frame} ELSE originating
        /\ framesLoading' = IF frame \in originating' THEN framesLoading + 1 ELSE framesLoading
        /\ preTimer' = (preTimer \/ frame = Main)
        /\ UNCHANGED <<exploreTimer, keepAlive, limit, failures, connected, pageConnected, events,
                       session, saved>>

\* Mutant: a load that ends does not clear the flag.
emitLoadFinishedKeeping(frame) == UNCHANGED originating

\* emitLoadFinished
emitLoadFinished(frame) == originating' = originating \ {frame}

\* checkLoadCompleteForThisFrame: ProgressTracker::progressCompleted,
\* emitLoadFinished and frameLoadFinished.  A frame completes after its
\* children.
LoadFinishes(frame) ==
    LET final == tracked <= 1 \/ origin = frame
        left == IF framesLoading > 0 THEN framesLoading - 1 ELSE 0
    IN  /\ session # "ended"
        /\ frame \in loading
        /\ frame = Main => loading = {Main}
        /\ loading' = loading \ {frame}
        /\ tracked' = IF final THEN 0 ELSE tracked - 1
        /\ origin' = IF final THEN NoFrame ELSE origin
        /\ emitLoadFinished(frame)
        /\ framesLoading' = IF frame \in originating THEN left ELSE framesLoading
        /\ IF frame \in originating /\ left = 0 /\ ~exploreTimer
           THEN startAutoExploration
           ELSE UNCHANGED <<preTimer, exploreTimer, keepAlive, connected>>
        /\ UNCHANGED <<loads, limit, failures, pageConnected, events, session, saved>>

\* The main frame's URL changes: differentUrl, once exploration has started.
UrlChanges ==
    /\ session # "ended" /\ connected
    /\ stop
    /\ UNCHANGED <<loadVars, framesLoading, preTimer, exploreTimer, keepAlive, limit, failures,
                   events>>

\* The main frame is moved to another page: differentPage, also before
\* exploration has started.
PageChanges ==
    /\ session # "ended" /\ pageConnected
    /\ stop
    /\ UNCHANGED <<loadVars, framesLoading, preTimer, exploreTimer, keepAlive, limit, failures,
                   events>>

-----------------------------------------------------------------------------
(* The timers and the user. *)

PreExplorationTimeout ==
    /\ session # "ended" /\ preTimer
    /\ preTimer' = FALSE
    /\ stop
    /\ UNCHANGED <<loadVars, framesLoading, exploreTimer, keepAlive, limit, failures, events>>

ExplorationTimeout ==
    /\ session # "ended" /\ exploreTimer
    /\ exploreTimer' = FALSE
    /\ stop
    /\ UNCHANGED <<loadVars, framesLoading, preTimer, keepAlive, limit, failures, events>>

\* explorationKeepAlive and runAutomaticExploration
explorationKeepAlive ==
    /\ session # "ended" /\ keepAlive
    /\ IF framesLoading # 0
       THEN UNCHANGED <<events, limit, failures, connected, pageConnected, session, saved>>
       ELSE /\ IF events > 0
               THEN /\ events' = events - 1
                    /\ failures' = 0
                    /\ limit' = IF limit = 0 THEN MaxUnsigned ELSE limit - 1
               ELSE /\ failures' = IF failures = MaxUnsigned THEN 0 ELSE failures + 1
                    /\ UNCHANGED <<events, limit>>
            /\ IF limit' = 0 \/ failures' = FailureLimit
               THEN stop
               ELSE UNCHANGED <<connected, pageConnected, session, saved>>
    /\ UNCHANGED <<loadVars, framesLoading, preTimer, exploreTimer, keepAlive>>

\* BaseWindow::closeEvent
UserClosesWindow ==
    /\ session = "running"
    /\ slOnCloseEvent
    /\ UNCHANGED <<loadVars, framesLoading, exploreVars, events>>

\* The last window has been closed, the application ends.
Quit ==
    /\ session = "closed"
    /\ session' = "ended"
    /\ UNCHANGED <<loadVars, framesLoading, exploreVars, events, saved>>

Next ==
    \/ \E frame \in Frames : LoadStarts(frame)
    \/ \E frame \in Frames : LoadFinishes(frame)
    \/ UrlChanges
    \/ PageChanges
    \/ PreExplorationTimeout
    \/ ExplorationTimeout
    \/ explorationKeepAlive
    \/ UserClosesWindow
    \/ Quit

\* Qt's timers fire, and the application processes the event that ends it.  A
\* load need not end.
Spec ==
    /\ Init /\ [][Next]_vars
    /\ WF_vars(PreExplorationTimeout) /\ WF_vars(ExplorationTimeout) /\ WF_vars(Quit)

-----------------------------------------------------------------------------
\* The exploration waits for loads that are in progress and for no other: a
\* load that ends in any way takes back what it added to the count.
CountReturns ==
    /\ framesLoading = Cardinality(originating)
    /\ originating \subseteq loading

\* The session ends, even when a load never does, and the recording is saved
\* once, whichever of the timers, the page and the user end the session, and
\* however many of them do.
SessionEnds == <>[](session = "ended" /\ saved = 1)
=============================================================================
