------------------------- MODULE AutoExplorer_proofs -------------------------
(***************************************************************************)
(* Theorems about a recording session, for every set of frames, finite or  *)
(* not, and all limits.                                                    *)
(***************************************************************************)
EXTENDS AutoExplorer, FiniteSetTheorems, TLAPS

\* The count is compared with a cardinality, so the set has to stay finite.
CountInv == CountReturns /\ IsFiniteSet(originating)

\* The steps that touch the loads or the count.
LEMMA LoadsUntouched ==
    ASSUME [Next]_vars,
           ~(\E frame \in Frames : LoadStarts(frame) \/ LoadFinishes(frame))
    PROVE  UNCHANGED <<loading, originating, framesLoading>>
BY DEF Next, vars, loadVars, UrlChanges, PageChanges, PreExplorationTimeout, ExplorationTimeout,
       explorationKeepAlive, UserClosesWindow, Quit

LEMMA CountStep == ASSUME CountInv, [Next]_vars PROVE CountInv'
<1>0. /\ originating \subseteq loading /\ IsFiniteSet(originating)
      /\ framesLoading = Cardinality(originating) /\ Cardinality(originating) \in Nat
  BY FS_CardinalityType DEF CountInv, CountReturns
<1>1. ASSUME NEW frame \in Frames, LoadStarts(frame) PROVE CountInv'
  <2>1. frame \notin originating /\ loading' = loading \cup {frame}
    BY <1>0, <1>1 DEF LoadStarts
  <2>2. CASE tracked = 0 \/ origin = frame
    <3>1. originating' = originating \cup {frame} /\ framesLoading' = framesLoading + 1
      BY <1>1, <2>2 DEF LoadStarts
    <3>2. /\ IsFiniteSet(originating \cup {frame})
          /\ Cardinality(originating \cup {frame}) = Cardinality(originating) + 1
      BY <1>0, <2>1, FS_AddElement
    <3> QED BY <1>0, <2>1, <3>1, <3>2 DEF CountInv, CountReturns
  <2>3. CASE ~(tracked = 0 \/ origin = frame)
    <3>1. originating' = originating /\ framesLoading' = framesLoading
      BY <1>1, <2>1, <2>3 DEF LoadStarts
    <3> QED BY <1>0, <2>1, <3>1 DEF CountInv, CountReturns
  <2> QED BY <2>2, <2>3
<1>2. ASSUME NEW frame \in Frames, LoadFinishes(frame) PROVE CountInv'
  <2>1. originating' = originating \ {frame} /\ loading' = loading \ {frame}
    BY <1>2 DEF LoadFinishes, emitLoadFinished
  <2>2. /\ IsFiniteSet(originating \ {frame})
        /\ Cardinality(originating \ {frame}) =
              IF frame \in originating THEN Cardinality(originating) - 1
                                       ELSE Cardinality(originating)
    BY <1>0, FS_RemoveElement
  <2>3. framesLoading' = Cardinality(originating')
    <3>1. CASE frame \in originating
      <4>1. Cardinality(originating \ {frame}) \in Nat
        BY <2>2, FS_CardinalityType
      <4>2. framesLoading > 0
        BY <1>0, <2>2, <3>1, <4>1
      <4> QED BY <1>0, <1>2, <2>1, <2>2, <3>1, <4>2 DEF LoadFinishes
    <3>2. CASE frame \notin originating
      BY <1>0, <1>2, <2>1, <2>2, <3>2 DEF LoadFinishes
    <3> QED BY <3>1, <3>2
  <2> QED BY <1>0, <2>1, <2>2, <2>3 DEF CountInv, CountReturns
<1>3. CASE ~(\E frame \in Frames : LoadStarts(frame) \/ LoadFinishes(frame))
  BY <1>3, LoadsUntouched DEF CountInv, CountReturns
<1> QED BY <1>1, <1>2, <1>3

\* However the loads of the frames start and end, nested, repeated or replaced,
\* the exploration waits for loads in progress and for no other.
THEOREM CountCorrect == Spec => []CountReturns
<1>1. Init => CountInv
  BY FS_EmptySet DEF Init, CountInv, CountReturns
<1>2. CountInv /\ [Next]_vars => CountInv'
  BY CountStep
<1>3. CountInv => CountReturns
  BY DEF CountInv
<1> QED BY <1>1, <1>2, <1>3, PTL DEF Spec

\* The safety half of SessionEnds: the recording is written when the session is
\* closed, and a second timeout, URL change or close event does not write again.
THEOREM SavedOnce == Spec => [](saved = IF session = "running" THEN 0 ELSE 1)
<1> DEFINE Inv == saved = IF session = "running" THEN 0 ELSE 1
<1>1. Init => Inv
  BY DEF Init
<1>2. Inv /\ [Next]_vars => Inv'
  <2> SUFFICES ASSUME Inv, [Next]_vars PROVE Inv'
    OBVIOUS
  <2>1. CASE slOnCloseEvent
    BY <2>1 DEF slOnCloseEvent
  <2>2. CASE Quit
    BY <2>2 DEF Quit
  <2>3. CASE UNCHANGED <<session, saved>>
    BY <2>3
  <2> QED BY <2>1, <2>2, <2>3
    DEF Next, vars, LoadStarts, LoadFinishes, UrlChanges, PageChanges, PreExplorationTimeout,
        ExplorationTimeout, explorationKeepAlive, UserClosesWindow, stop
<1> QED BY <1>1, <1>2, PTL DEF Spec
=============================================================================
