-------------------------- MODULE PageLoad_proofs --------------------------
(***************************************************************************)
(* Theorems about PageLoad, for every set of pages and all bounds: which   *)
(* assertions of the parser, its scheduler, the script runner and the load *)
(* counters hold, what may be outstanding when a document becomes          *)
(* complete, and how the log orders the scripts of the script runner.      *)
(***************************************************************************)
EXTENDS PageLoad, FiniteSetTheorems, SequenceTheorems, WellFoundedInduction, TLAPS

-----------------------------------------------------------------------------
(* The stack. *)

Modes == {"AllowYield", "ForceSynchronous"}

\* What the first element of the stack may be, and what may be called from
\* (come after) another one.
Bottom == {"releaseResources", "endIfDelayed", "stopParsing", "endIfNoneDeferred"}
Calls(f, g) ==
    \/ f = "releaseResources"
       /\ g \in {"endIfDelayed", "stopParsing", "endIfNoneDeferred", "resumeUnlessBlocked"}
    \/ f \in {"endIfDelayed", "stopParsing", "endInsert"} /\ g = "endPump"
    \/ f = "endPump" /\ g \in {"takeTokens", "pauseIfBlocked"}
    \/ f = "pauseIfBlocked" /\ g \in {"endRunScript", "nextBlockingScript"}
    \/ f = "resumeUnlessBlocked" /\ g = "nextBlockingScript"
    \/ f = "endIfNoneDeferred" /\ g = "executeScriptsWaitingForParsing"
    \/ f \in {"nextBlockingScript", "executeScriptsWaitingForParsing"} /\ g = "leaveOutermost"
    \/ f \in {"endRunScript", "leaveOutermost"} /\ g = "insertScripts"
    \/ f = "insertScripts" /\ g = "endInsert"

StepNames == {"releaseResources", "endIfDelayed", "stopParsing", "endIfNoneDeferred",
              "resumeUnlessBlocked", "endPump", "takeTokens", "pauseIfBlocked", "endRunScript",
              "nextBlockingScript", "executeScriptsWaitingForParsing", "leaveOutermost",
              "insertScripts", "endInsert"}

\* Elements that stand for a script being executed, for a pump, and for input
\* that has been split; those below which no script is executed; those that
\* begin an event action; those of a pump that may yield.
Nested == {"endRunScript", "leaveOutermost"}
Pumped == {"endPump"}
Split == {"endRunScript", "nextBlockingScript"}
Outermost == {"nextBlockingScript", "executeScriptsWaitingForParsing", "leaveOutermost"}
First == {"endIfDelayed", "stopParsing", "endIfNoneDeferred", "resumeUnlessBlocked"}
Yielding == {"releaseResources", "endIfDelayed", "endPump"}

Frames(tokens) == [name : StepNames, arg : tokens \cup Modes \cup {NoToken}]
Frame(name, arg) == [name |-> name, arg |-> arg]

Names(c) == {c[i].name : i \in 1..Len(c)}
Count(c, names) == Cardinality({i \in 1..Len(c) : c[i].name \in names})
Top(c) == IF c = <<>> THEN "none" ELSE c[Len(c)].name
Popped(c) == SubSeq(c, 1, Len(c) - 1)

\* What may be pushed on the stack c.
Pushable(c, name, arg, tokens) ==
    /\ IF c = <<>> THEN name \in Bottom ELSE Calls(Top(c), name)
    /\ name \in First => Names(c) \subseteq {"releaseResources"}
    /\ name \in {"takeTokens", "pauseIfBlocked"} =>
          arg \in Modes /\ (arg = "AllowYield" => Names(c) \subseteq Yielding)
    /\ name \in Outermost => Names(c) \cap Nested = {}
    /\ name = "insertScripts" => arg \in tokens
    /\ name = "endInsert" => Names(c) \cap Nested # {}

StackOK(c, tokens) ==
    \A i \in 1..Len(c) : Pushable(SubSeq(c, 1, i - 1), c[i].name, c[i].arg, tokens)

LEMMA PushSeq ==
    ASSUME NEW S, NEW c \in Seq(S), NEW f \in S
    PROVE  /\ Append(c, f) \in Seq(S) /\ Append(c, f) # <<>>
           /\ Len(Append(c, f)) = Len(c) + 1 /\ Len(c) \in Nat
           /\ \A i \in 1..Len(c) : Append(c, f)[i] = c[i]
           /\ Append(c, f)[Len(c) + 1] = f
OBVIOUS

LEMMA PopSeq ==
    ASSUME NEW S, NEW c \in Seq(S), c # <<>>
    PROVE  /\ Popped(c) \in Seq(S) /\ c[Len(c)] \in S
           /\ Len(Popped(c)) = Len(c) - 1 /\ Len(c) \in Nat \ {0}
           /\ \A i \in 1..(Len(c) - 1) : Popped(c)[i] = c[i]
           /\ c = Append(Popped(c), c[Len(c)])
<1>1. Len(c) \in Nat \ {0} /\ \A i \in 1..Len(c) : c[i] \in S
  OBVIOUS
<1>2. Popped(c) \in Seq(S) /\ Len(Popped(c)) = Len(c) - 1
      /\ \A i \in 1..(Len(c) - 1) : Popped(c)[i] = c[i]
  <2> DEFINE n == Len(c) - 1
  <2>1. n \in Nat /\ \A i \in 1..n : c[i] \in S
    BY <1>1
  <2> HIDE DEF n
  <2>2. /\ SubSeq(c, 1, n) \in Seq(S)
        /\ Len(SubSeq(c, 1, n)) = IF 1 <= n THEN n - 1 + 1 ELSE 0
        /\ \A i \in 1..(n - 1 + 1) : SubSeq(c, 1, n)[i] = c[1 + i - 1]
    BY <2>1, SubSeqProperties
  <2>3. n - 1 + 1 = n /\ (IF 1 <= n THEN n - 1 + 1 ELSE 0) = n
    BY <2>1
  <2>4. \A i \in 1..n : SubSeq(c, 1, n)[i] = c[i]
    BY <2>1, <2>2, <2>3
  <2> QED BY <2>2, <2>3, <2>4 DEF Popped, n
<1>3. c = Append(Popped(c), c[Len(c)])
  <2> DEFINE e == Append(Popped(c), c[Len(c)])
  <2>1. e \in Seq(S) /\ Len(e) = Len(c)
    BY <1>1, <1>2, PushSeq
  <2>2. \A i \in 1..Len(c) : e[i] = c[i]
    BY <1>1, <1>2, PushSeq
  <2> HIDE DEF e
  <2>3. e = c
    BY <2>1, <2>2, SeqEqual
  <2> QED BY <2>3 DEF e
<1> QED BY <1>1, <1>2, <1>3

LEMMA PushNames ==
    ASSUME NEW S, NEW c \in Seq(S), NEW f \in S
    PROVE  Names(Append(c, f)) = Names(c) \cup {f.name} /\ Top(Append(c, f)) = f.name
<1>1. \A i \in 1..(Len(c) + 1) : Append(c, f)[i] = IF i = Len(c) + 1 THEN f ELSE c[i]
  BY PushSeq
<1>2. Len(Append(c, f)) = Len(c) + 1 /\ Len(c) \in Nat /\ Append(c, f) # <<>>
  BY PushSeq
<1> QED BY <1>1, <1>2 DEF Names, Top

LEMMA CountPush ==
    ASSUME NEW S, NEW c \in Seq(S), NEW f \in S, NEW names
    PROVE  /\ Count(c, names) \in Nat
           /\ Count(Append(c, f), names) = Count(c, names) + (IF f.name \in names THEN 1 ELSE 0)
           /\ Count(c, names) = 0 <=> Names(c) \cap names = {}
<1> DEFINE A == {i \in 1..Len(c) : c[i].name \in names}
           B == {i \in 1..Len(Append(c, f)) : Append(c, f)[i].name \in names}
<1>1. Len(c) \in Nat /\ IsFiniteSet(A)
  BY FS_Interval, FS_Subset
<1>2. B = IF f.name \in names THEN A \cup {Len(c) + 1} ELSE A
  BY <1>1, PushSeq
<1>3. Len(c) + 1 \notin A
  BY <1>1
<1>4. Cardinality(A) \in Nat /\ (Cardinality(A) = 0 <=> A = {})
  BY <1>1, FS_CardinalityType, FS_EmptySet
<1>5. A = {} <=> Names(c) \cap names = {}
  BY DEF Names
<1> HIDE DEF A, B
<1>6. Cardinality(B) = Cardinality(A) + (IF f.name \in names THEN 1 ELSE 0)
  <2>1. CASE f.name \in names
    <3>1. Cardinality(A \cup {Len(c) + 1}) = Cardinality(A) + 1
      BY <1>1, <1>3, FS_AddElement
    <3> QED BY <1>2, <1>4, <2>1, <3>1
  <2>2. CASE f.name \notin names
    <3>1. B = A
      BY <1>2, <2>2
    <3> QED BY <1>4, <2>2, <3>1
  <2> QED BY <2>1, <2>2
<1> QED BY <1>4, <1>5, <1>6 DEF Count, A, B

LEMMA EmptyStack ==
    ASSUME NEW names, NEW tokens
    PROVE  /\ Names(<<>>) = {} /\ Count(<<>>, names) = 0 /\ Top(<<>>) = "none"
           /\ StackOK(<<>>, tokens) /\ <<>> \in Seq(Frames(tokens))
<1>1. Names(<<>>) = {}
  BY DEF Names
<1>2. {i \in 1..Len(<<>>) : <<>>[i].name \in names} = {}
  OBVIOUS
<1>3. Count(<<>>, names) = 0
  BY <1>2, FS_EmptySet DEF Count
<1> QED BY <1>1, <1>3 DEF Top, StackOK

\* A stack is well formed when what is below its last element is, and the last
\* element may be pushed on that.
LEMMA PushOK ==
    ASSUME NEW S, NEW c \in Seq(S), NEW f \in S, NEW tokens
    PROVE  StackOK(Append(c, f), tokens) <=> StackOK(c, tokens) /\ Pushable(c, f.name, f.arg, tokens)
<1> DEFINE e == Append(c, f)
<1>1. Len(c) \in Nat /\ Len(e) = Len(c) + 1
  BY PushSeq
<1>2. \A i \in 1..Len(c) : SubSeq(e, 1, i - 1) = SubSeq(c, 1, i - 1) /\ e[i] = c[i]
  OBVIOUS
<1>3. SubSeq(e, 1, Len(c)) = c /\ e[Len(c) + 1] = f
  OBVIOUS
<1>4. \A i \in 1..Len(e) : i \in 1..Len(c) \/ i = Len(c) + 1
  BY <1>1
<1>5. \A i \in 1..Len(c) : i \in 1..Len(e)
  BY <1>1
<1>6. Len(c) + 1 \in 1..Len(e) /\ (Len(c) + 1) - 1 = Len(c)
  BY <1>1
<1> HIDE DEF e
<1>7. SubSeq(e, 1, (Len(c) + 1) - 1) = c
  BY <1>3, <1>6
<1>8. ASSUME StackOK(e, tokens) PROVE StackOK(c, tokens) /\ Pushable(c, f.name, f.arg, tokens)
  <2>1. Pushable(SubSeq(e, 1, (Len(c) + 1) - 1), e[Len(c) + 1].name, e[Len(c) + 1].arg, tokens)
    BY <1>6, <1>8 DEF StackOK
  <2>2. \A i \in 1..Len(c) : Pushable(SubSeq(e, 1, i - 1), e[i].name, e[i].arg, tokens)
    BY <1>5, <1>8 DEF StackOK
  <2> QED BY <1>2, <1>3, <1>7, <2>1, <2>2 DEF StackOK
<1>9. ASSUME StackOK(c, tokens), Pushable(c, f.name, f.arg, tokens) PROVE StackOK(e, tokens)
  <2>1. \A i \in 1..Len(c) : Pushable(SubSeq(e, 1, i - 1), e[i].name, e[i].arg, tokens)
    BY <1>2, <1>9 DEF StackOK
  <2>2. Pushable(SubSeq(e, 1, (Len(c) + 1) - 1), e[Len(c) + 1].name, e[Len(c) + 1].arg, tokens)
    BY <1>3, <1>7, <1>9
  <2> QED BY <1>4, <2>1, <2>2 DEF StackOK
<1> QED BY <1>8, <1>9 DEF e

\* A stack with one more element.
LEMMA Pushed ==
    ASSUME NEW tokens, NEW c \in Seq(Frames(tokens)),
           NEW name \in StepNames, NEW arg \in tokens \cup Modes \cup {NoToken}
    PROVE  LET e == Append(c, [name |-> name, arg |-> arg])
           IN  /\ e \in Seq(Frames(tokens)) /\ e # <<>>
               /\ Names(e) = Names(c) \cup {name} /\ Top(e) = name
               /\ StackOK(e, tokens) <=> StackOK(c, tokens) /\ Pushable(c, name, arg, tokens)
               /\ \A names : /\ Count(c, names) \in Nat
                             /\ Count(e, names) = Count(c, names) + (IF name \in names THEN 1 ELSE 0)
                             /\ Count(c, names) = 0 <=> Names(c) \cap names = {}
<1> DEFINE f == [name |-> name, arg |-> arg]
<1>1. f \in Frames(tokens) /\ f.name = name /\ f.arg = arg
  BY DEF Frames
<1> HIDE DEF f
<1>2. Append(c, f) \in Seq(Frames(tokens)) /\ Append(c, f) # <<>>
  BY <1>1, PushSeq
<1>3. Names(Append(c, f)) = Names(c) \cup {name} /\ Top(Append(c, f)) = name
  BY <1>1, PushNames
<1>4. StackOK(Append(c, f), tokens) <=> StackOK(c, tokens) /\ Pushable(c, name, arg, tokens)
  BY <1>1, PushOK
<1>5. ASSUME NEW names
      PROVE  /\ Count(c, names) \in Nat
             /\ Count(Append(c, f), names) = Count(c, names) + (IF name \in names THEN 1 ELSE 0)
             /\ Count(c, names) = 0 <=> Names(c) \cap names = {}
  BY <1>1, CountPush
<1> QED BY <1>2, <1>3, <1>4, <1>5 DEF f

\* A stack without its last element.
LEMMA PoppedStack ==
    ASSUME NEW tokens, NEW c \in Seq(Frames(tokens)), c # <<>>, StackOK(c, tokens),
           NEW name, NEW arg, name = c[Len(c)].name, arg = c[Len(c)].arg
    PROVE  /\ Popped(c) \in Seq(Frames(tokens)) /\ StackOK(Popped(c), tokens)
           /\ name \in StepNames /\ arg \in tokens \cup Modes \cup {NoToken}
           /\ Pushable(Popped(c), name, arg, tokens)
           /\ Names(c) = Names(Popped(c)) \cup {name} /\ Top(c) = name
           /\ \A names : /\ Count(Popped(c), names) \in Nat
                         /\ Count(c, names) = Count(Popped(c), names) + (IF name \in names THEN 1 ELSE 0)
                         /\ Count(Popped(c), names) = 0 <=> Names(Popped(c)) \cap names = {}
<1>1. /\ Popped(c) \in Seq(Frames(tokens)) /\ c[Len(c)] \in Frames(tokens)
      /\ c = Append(Popped(c), c[Len(c)])
  BY PopSeq
<1>2. /\ name \in StepNames /\ arg \in tokens \cup Modes \cup {NoToken}
      /\ c[Len(c)] = [name |-> name, arg |-> arg]
  BY <1>1 DEF Frames
<1> DEFINE r == Popped(c)
<1>3. r \in Seq(Frames(tokens)) /\ c = Append(r, [name |-> name, arg |-> arg])
  BY <1>1, <1>2
<1> HIDE DEF r
<1>4. LET e == Append(r, [name |-> name, arg |-> arg])
      IN  /\ e \in Seq(Frames(tokens)) /\ e # <<>>
          /\ Names(e) = Names(r) \cup {name} /\ Top(e) = name
          /\ StackOK(e, tokens) <=> StackOK(r, tokens) /\ Pushable(r, name, arg, tokens)
          /\ \A names : /\ Count(r, names) \in Nat
                        /\ Count(e, names) = Count(r, names) + (IF name \in names THEN 1 ELSE 0)
                        /\ Count(r, names) = 0 <=> Names(r) \cap names = {}
  BY <1>2, <1>3, Pushed
<1>5. /\ Names(c) = Names(r) \cup {name} /\ Top(c) = name
      /\ StackOK(c, tokens) <=> StackOK(r, tokens) /\ Pushable(r, name, arg, tokens)
      /\ \A names : /\ Count(r, names) \in Nat
                    /\ Count(c, names) = Count(r, names) + (IF name \in names THEN 1 ELSE 0)
                    /\ Count(r, names) = 0 <=> Names(r) \cap names = {}
  BY <1>3, <1>4, Zenon
<1> QED BY <1>2, <1>3, <1>5 DEF r

-----------------------------------------------------------------------------
(* The invariant.  A document is a record; each part of the invariant says  *)
(* which fields it is about.                                                *)

\* The fields of a document.
Fields == {"page", "now", "chunks", "finished", "state", "input", "paused", "script",
    "blocking", "waitsForSheets", "afterParsing", "watching", "nesting", "pumps", "endDelayed",
    "parserTimer", "parserSuspended", "calls", "lastParse", "lastNonInserted", "inputJoin",
    "inOrder", "async", "asyncTimers", "inOrderTimer", "runnerSuspended", "lastInOrder",
    "eventActionToFinish", "suspendJoin", "resumeJoin", "sheets", "requested", "requests",
    "loaded", "loadAction", "parsing", "delayCount", "delayTimer", "parsingJoin", "requestJoin",
    "delayJoin", "isComplete", "didCallImplicitClose", "loadedTimer", "loadEvents", "suspended",
    "suspends", "late", "tree", "ran", "failed", "misfired", "strayed", "addedSince"}
IsDoc(d) == Fields \subseteq DOMAIN d

Tokens(d) == DOMAIN d.page.kind
Addable(d) == {t \in Tokens(d) : d.page.kind[t] \in {"async", "inOrder"}}

TimerOK(t) ==
    /\ {"inHeap", "queued", "flag", "starter"} \subseteq DOMAIN t
    /\ t.inHeap \in BOOLEAN /\ t.flag \in BOOLEAN /\ t.queued \in {0, 1}
    /\ t.queued = 1 => t.flag /\ ~t.inHeap

\* The phase the load is in.
ModeOK(d) ==
    /\ d.page \in Pages
    /\ d.state \in {"parsing", "stopping", "detached"}
    /\ d.parsing \in BOOLEAN /\ d.finished \in BOOLEAN /\ d.endDelayed \in BOOLEAN
    /\ d.suspended \in BOOLEAN /\ d.chunks \in Nat /\ d.suspends \in Nat
    /\ d.state = "parsing" => d.parsing
    /\ d.state = "detached" => ~d.parsing
    /\ d.state # "parsing" => d.finished
    /\ d.endDelayed => d.finished /\ d.state = "parsing"
    /\ d.finished => d.chunks = Len(d.page.chunks)
    /\ d.suspended => d.suspends > 0
    /\ d.suspends <= MaxSuspends

\* The scheduler of the parser.
SchedulerOK(d) ==
    /\ d.parserSuspended \in BOOLEAN /\ TimerOK(d.parserTimer)
    /\ d.parserSuspended \/ d.suspended => ~TimerPending(d.parserTimer)

ScriptKinds == {"inline", "external", "defer", "async"}

\* The script the parser is paused for.
PauseOK(d) ==
    /\ d.paused \in BOOLEAN
    /\ d.script # NoToken => d.script \in Tokens(d) /\ d.page.kind[d.script] \in ScriptKinds

\* The scripts the parser waits for.
WaitOK(d) ==
    /\ d.blocking \in Tokens(d) \cup {NoToken}
    /\ d.waitsForSheets \in BOOLEAN /\ (d.waitsForSheets => d.blocking # NoToken)
    /\ d.afterParsing \in Seq(Tokens(d)) /\ (~d.parsing => d.afterParsing = <<>>)
    /\ d.watching \subseteq Tokens(d)

\* The stack, and the counters that agree with it: but for differences that an
\* operation is about to make up for.
StackedBut(d, n, p, s) ==
    /\ d.calls \in Seq(Frames(Tokens(d))) /\ StackOK(d.calls, Tokens(d))
    /\ d.input \in Seq(Seq(Tokens(d))) /\ Len(d.input) > 0
    /\ d.nesting \in Nat /\ d.nesting = Count(d.calls, Nested) + n
    /\ d.pumps \in Nat /\ d.pumps = Count(d.calls, Pumped) + p
    /\ Len(d.input) = 1 + Count(d.calls, Split) + s

\* The parser waits for nothing and has nothing to build but the end.
Quiet(d) ==
    /\ ~d.paused /\ ~isScheduledForResume(d) /\ d.script = NoToken /\ d.blocking = NoToken
    /\ \A k \in 1..Len(d.input[1]) : d.input[1][k] = "eof"

Stops == {"endIfNoneDeferred", "executeScriptsWaitingForParsing"}
StopSteps == {"releaseResources", "endIfNoneDeferred", "executeScriptsWaitingForParsing",
              "leaveOutermost", "insertScripts"}
LastPump == {"releaseResources", "stopParsing", "endPump", "takeTokens"}

\* What may be on the stack.
AdmitsWith(d, names) ==
    /\ d.state = "parsing" => names \cap Stops = {}
    /\ d.state # "parsing" => names \subseteq StopSteps
    /\ ~d.parsing => names \subseteq {"releaseResources"}
    /\ "stopParsing" \in names => d.finished /\ ~d.endDelayed /\ names \subseteq LastPump
    /\ isScheduledForResume(d) => names \subseteq Yielding

QuietOK(d) == (d.state # "parsing" \/ "stopParsing" \in Names(d.calls)) => Quiet(d)

\* Each script of the script runner delays the load event, and so do other more.
PendingAsync(d) == {s \in Tokens(d) : TimerPending(d.asyncTimers[s])}
Delays(d, other) ==
    d.delayCount >= other + Len(d.inOrder) + Cardinality(d.async) + Cardinality(PendingAsync(d))

\* The script runner.  Asynchronous scripts are executed while the document is
\* suspended, too; if one of them adds a script to be executed in order that is
\* loaded already, the timer strays: it is started by updateInOrderTimer in a
\* suspended document, and once more by resume.
RunnerOK(d, other) ==
    /\ d.delayCount \in Nat
    /\ d.inOrder \in Seq(Tokens(d)) /\ (\A k \in 1..Len(d.inOrder) : ~IsAsync(d, d.inOrder[k]))
    /\ d.async \subseteq {t \in Tokens(d) : IsAsync(d, t)}
    /\ DOMAIN d.asyncTimers = Tokens(d)
    /\ \A t \in Tokens(d) : /\ TimerOK(d.asyncTimers[t])
                            /\ TimerPending(d.asyncTimers[t]) => IsAsync(d, t)
    /\ Delays(d, other)
    /\ ~d.strayed =>
          /\ TimerOK(d.inOrderTimer) /\ d.runnerSuspended \in BOOLEAN
          /\ TimerPending(d.inOrderTimer) => d.inOrder # <<>>
          /\ d.runnerSuspended => d.suspended /\ d.inOrder # <<>>
          /\ d.suspended => ~TimerPending(d.inOrderTimer)
          /\ isActive(d.inOrderTimer) => TimerPending(d.inOrderTimer) \/ d.runnerSuspended

\* The timer of the load event is started when nothing is outstanding; until it
\* fires only scripts that are added change that.
LoadOK(d) ==
    /\ d.requests \subseteq Tokens(d)
    /\ d.isComplete \in BOOLEAN
    /\ {"inHeap", "queued", "flag", "starter"} \subseteq DOMAIN d.loadedTimer
    /\ d.isComplete \/ TimerPending(d.loadedTimer) => ~d.parsing
    /\ ~d.isComplete /\ TimerPending(d.loadedTimer) =>
          d.requests \subseteq d.addedSince /\ (d.addedSince = {} => d.delayCount = 0)

Asserted(d) == d.failed = FALSE

\* The label is one of the event action's, or will be when the current event
\* action, with the labels now, is over.
Has(action, now, label) == label \in action \/ (Now \subseteq action /\ label \in now)

\* What the log knows of the scripts of the script runner that are still to be
\* executed, of all loaded ones but some and those that were denied: a script
\* comes after what made it ready.  The timer is started for a script that has
\* been loaded.
Ordered(d, now, but) ==
    /\ DOMAIN d.eventActionToFinish = Tokens(d) /\ DOMAIN d.asyncTimers = Tokens(d)
    /\ d.inOrder \in Seq(Tokens(d))
    /\ \A k \in 1..Len(d.inOrder) : d.page.kind[d.inOrder[k]] = "inOrder"
    /\ \A s \in Tokens(d) :
          /\ d.eventActionToFinish[s] # {} => Has(d.eventActionToFinish[s], now, <<"ready", s>>)
          /\ TimerPending(d.asyncTimers[s]) => Has(d.asyncTimers[s].starter, now, <<"ready", s>>)
    /\ \A k \in 1..Len(d.inOrder) :
          d.inOrder[k] \in (d.loaded \ but) \ d.page.denied =>
              d.eventActionToFinish[d.inOrder[k]] # {}
    /\ ~d.strayed /\ (TimerPending(d.inOrderTimer) \/ d.runnerSuspended) =>
          d.inOrder # <<>> /\ Head(d.inOrder) \in d.loaded

\* ... and of those that have been executed: the next one to be executed in
\* order comes after them.  Only denied ones had not heard of their load.
Executed(d, now) ==
    /\ d.strayed \/ d.misfired \subseteq d.page.denied
    /\ d.ran \in Seq(Tokens(d))
    /\ \A k \in 1..Len(d.ran) :
          d.page.kind[d.ran[k]] = "inOrder" => Has(d.lastInOrder, now, <<"ran", d.ran[k]>>)

Logged(d, now) == Ordered(d, now, {}) /\ Executed(d, now) /\ d.late \subseteq Addable(d)

\* All that Logged looks at.
SameLog(d, e) ==
    /\ e.page = d.page /\ e.loaded = d.loaded /\ e.ran = d.ran /\ e.lastInOrder = d.lastInOrder
    /\ e.eventActionToFinish = d.eventActionToFinish /\ e.asyncTimers = d.asyncTimers
    /\ e.inOrderTimer = d.inOrderTimer /\ e.runnerSuspended = d.runnerSuspended
    /\ e.strayed = d.strayed /\ e.misfired = d.misfired
    /\ e.inOrder = d.inOrder /\ e.late \subseteq d.late

FitsBut(d, n, p, s) ==
    /\ IsDoc(d) /\ ModeOK(d) /\ SchedulerOK(d) /\ PauseOK(d) /\ WaitOK(d)
    /\ StackedBut(d, n, p, s) /\ AdmitsWith(d, Names(d.calls)) /\ QuietOK(d)
    /\ RunnerOK(d, 0) /\ LoadOK(d) /\ Asserted(d)

\* Nothing is left undone: a parser with input is paused or scheduled.
Rests(d) ==
    /\ d.paused \/ isScheduledForResume(d) \/ d.input[1] = <<>>
    /\ IF isScheduledForResume(d)
       THEN d.blocking = NoToken /\ (d.paused <=> d.script # NoToken)
       ELSE d.script = NoToken /\ (d.paused <=> d.blocking # NoToken)

\* The parser is told of the script it waits for.
Watched(d) ==
    \A s \in d.watching : IF d.state = "parsing" THEN s = d.blocking
                          ELSE d.afterParsing # <<>> /\ s = Head(d.afterParsing)

\* What holds when the step name is about to be done.
Before(d, name) ==
    /\ Watched(d)
    /\ d.state # "parsing" /\ name \notin Bottom \cup {"none"} => d.watching = {}
    /\ d.state = "parsing" =>
        /\ name \in Bottom \cup {"none", "endPump"} => Rests(d)
        /\ name = "takeTokens" => /\ d.blocking = NoToken /\ ~isScheduledForResume(d)
                                  /\ d.paused <=> d.script # NoToken
        /\ name \notin Bottom \cup {"none", "endPump", "takeTokens"} =>
              d.script = NoToken /\ ~isScheduledForResume(d)

DocOK(d) == FitsBut(d, 0, 0, 0) /\ Before(d, Top(d.calls))

-----------------------------------------------------------------------------
(* Documents that agree in a part. *)

SameMode(d, e) ==
    /\ e.page = d.page /\ e.state = d.state /\ e.parsing = d.parsing
    /\ e.finished = d.finished /\ e.endDelayed = d.endDelayed /\ e.suspended = d.suspended
    /\ e.chunks = d.chunks /\ e.suspends = d.suspends
SameScheduler(d, e) == e.parserTimer = d.parserTimer /\ e.parserSuspended = d.parserSuspended
SamePause(d, e) == e.paused = d.paused /\ e.script = d.script
SameWait(d, e) ==
    /\ e.blocking = d.blocking /\ e.waitsForSheets = d.waitsForSheets
    /\ e.afterParsing = d.afterParsing /\ e.watching = d.watching
SameStack(d, e) == e.calls = d.calls /\ e.nesting = d.nesting /\ e.pumps = d.pumps
SameRunner(d, e) ==
    /\ e.delayCount = d.delayCount /\ e.inOrder = d.inOrder /\ e.async = d.async
    /\ e.asyncTimers = d.asyncTimers /\ e.inOrderTimer = d.inOrderTimer
    /\ e.runnerSuspended = d.runnerSuspended /\ e.strayed = d.strayed
    /\ e.addedSince = d.addedSince
SameLoad(d, e) == e.isComplete = d.isComplete /\ e.loadedTimer = d.loadedTimer

\* All that the parser's own operations leave alone.
SameOutside(d, e) ==
    /\ IsDoc(e) /\ SameMode(d, e) /\ SameScheduler(d, e) /\ SameRunner(d, e) /\ SameLoad(d, e)

LEMMA PageFacts ==
    ASSUME NEW d, ModeOK(d)
    PROVE  /\ IsFiniteSet(Tokens(d)) /\ NoToken \notin Tokens(d)
           /\ \A t \in Tokens(d) : /\ d.page.kind[t] \in Kinds
                                   /\ d.page.writes[t] \in Seq(Tokens(d))
                                   /\ d.page.inserts[t] \in Seq(Addable(d))
                                   /\ d.page.inserts[t] \in Seq(Tokens(d))
           /\ "eof" \in Tokens(d) /\ d.page.kind["eof"] = "eof"
           /\ d.page.chunks \in Seq(Seq(Tokens(d)))
           /\ d.page.onContentLoaded \in Seq(Tokens(d)) /\ d.page.onContentLoaded \in Seq(Addable(d))
           /\ d.page.onComplete \in Seq(Tokens(d)) /\ d.page.onComplete \in Seq(Addable(d))
<1>1. /\ IsFiniteSet(Tokens(d)) /\ NoToken \notin Tokens(d)
      /\ \A t \in Tokens(d) : /\ d.page.kind[t] \in Kinds
                              /\ d.page.writes[t] \in Seq(Tokens(d))
                              /\ d.page.inserts[t] \in Seq(Addable(d))
      /\ "eof" \in Tokens(d) /\ d.page.kind["eof"] = "eof"
      /\ d.page.chunks \in Seq(Seq(Tokens(d)))
      /\ d.page.onContentLoaded \in Seq(Addable(d)) /\ d.page.onComplete \in Seq(Addable(d))
  BY PagesAssumption DEF ModeOK, Tokens, Addable
<1>2. \A x : x \in Seq(Addable(d)) => x \in Seq(Tokens(d))
  BY DEF Addable
<1> QED BY <1>1, <1>2

LEMMA OutsideKept ==
    ASSUME NEW d, NEW e, SameOutside(d, e), ModeOK(d), SchedulerOK(d)
    PROVE  /\ IsDoc(e) /\ ModeOK(e) /\ SchedulerOK(e) /\ Tokens(e) = Tokens(d)
           /\ isScheduledForResume(e) <=> isScheduledForResume(d)
           /\ \A k : RunnerOK(d, k) => RunnerOK(e, k)
           /\ PauseOK(d) /\ SamePause(d, e) => PauseOK(e)
           /\ WaitOK(d) /\ SameWait(d, e) => WaitOK(e)
           /\ LoadOK(d) /\ e.requests = d.requests => LoadOK(e)
           /\ LoadOK(d) /\ d.parsing /\ e.requests \subseteq Tokens(d) => LoadOK(e)
<1>1. IsDoc(e) /\ ModeOK(e) /\ Tokens(e) = Tokens(d)
  BY DEF SameOutside, SameMode, ModeOK, Tokens
<1>2. SchedulerOK(e) /\ (isScheduledForResume(e) <=> isScheduledForResume(d))
  BY DEF SameOutside, SameMode, SameScheduler, SchedulerOK, isScheduledForResume
<1>3. ASSUME NEW k, RunnerOK(d, k) PROVE RunnerOK(e, k)
  <2>1. \A t : IsAsync(e, t) <=> IsAsync(d, t)
    BY DEF IsAsync, SameOutside, SameMode
  <2>2. PendingAsync(e) = PendingAsync(d)
    BY <1>1 DEF PendingAsync, SameOutside, SameRunner
  <2> QED BY <1>1, <1>3, <2>1, <2>2 DEF RunnerOK, Delays, SameOutside, SameRunner, SameMode
<1>4. PauseOK(d) /\ SamePause(d, e) => PauseOK(e)
  BY <1>1 DEF PauseOK, SamePause, SameOutside, SameMode
<1>5. WaitOK(d) /\ SameWait(d, e) => WaitOK(e)
  BY <1>1 DEF WaitOK, SameWait, SameOutside, SameMode
<1>6. LoadOK(d) /\ e.requests = d.requests => LoadOK(e)
  BY <1>1 DEF LoadOK, SameOutside, SameMode, SameLoad, SameRunner
<1>7. LoadOK(d) /\ d.parsing /\ e.requests \subseteq Tokens(d) => LoadOK(e)
  BY <1>1 DEF LoadOK, SameOutside, SameMode, SameLoad, SameRunner
<1> QED BY <1>1, <1>2, <1>3, <1>4, <1>5, <1>6, <1>7

\* Documents that differ in the labels of event actions only.
SameDoc(d, e) ==
    /\ SameOutside(d, e) /\ SamePause(d, e) /\ SameWait(d, e) /\ SameStack(d, e)
    /\ e.input = d.input /\ e.requests = d.requests /\ (Asserted(d) => Asserted(e))

LEMMA SameFits ==
    ASSUME NEW d, NEW e, SameDoc(d, e), NEW n, NEW p, NEW s, FitsBut(d, n, p, s)
    PROVE  FitsBut(e, n, p, s) /\ (\A name : Before(d, name) => Before(e, name))
<1>1. /\ IsDoc(e) /\ ModeOK(e) /\ SchedulerOK(e) /\ Tokens(e) = Tokens(d)
      /\ isScheduledForResume(e) <=> isScheduledForResume(d)
      /\ RunnerOK(e, 0) /\ PauseOK(e) /\ WaitOK(e) /\ LoadOK(e) /\ Asserted(e)
  BY OutsideKept DEF SameDoc, FitsBut
<1>2. StackedBut(e, n, p, s)
  BY <1>1 DEF SameDoc, SameStack, StackedBut, FitsBut
<1>3. AdmitsWith(e, Names(e.calls))
  BY <1>1 DEF SameDoc, SameOutside, SameMode, SameStack, SameWait, AdmitsWith, FitsBut
<1>4. QuietOK(e)
  BY <1>1 DEF SameDoc, SameOutside, SameMode, SameStack, SameWait, SamePause, QuietOK, Quiet, FitsBut
<1>5. \A name : Before(d, name) => Before(e, name)
  BY <1>1 DEF SameDoc, SameOutside, SameMode, SameWait, SamePause, Before, Rests, Watched
<1> QED BY <1>1, <1>2, <1>3, <1>4, <1>5 DEF FitsBut

LEMMA SameDocTrans ==
    ASSUME NEW d, NEW e, NEW f, SameDoc(d, e), SameDoc(e, f)
    PROVE  SameDoc(d, f)
BY DEF SameDoc, SameOutside, SameMode, SameScheduler, SamePause, SameWait, SameStack, SameRunner,
       SameLoad

-----------------------------------------------------------------------------
(* Operations that change one part. *)

LEMMA LabelsOnly ==
    ASSUME NEW d, IsDoc(d)
    PROVE  (\A labels : SameDoc(d, addArc(d, labels))) /\ SameDoc(d, modifiesInput(d))
<1>1. ASSUME NEW labels PROVE SameDoc(d, addArc(d, labels))
  BY DEF SameDoc, SameOutside, SameMode, SameScheduler, SamePause, SameWait, SameStack, SameRunner,
         SameLoad, Asserted, IsDoc, Fields, addArc
<1>2. SameDoc(d, modifiesInput(d))
  BY DEF SameDoc, SameOutside, SameMode, SameScheduler, SamePause, SameWait, SameStack, SameRunner,
         SameLoad, Asserted, IsDoc, Fields, addArc, modifiesInput
<1> QED BY <1>1, <1>2

\* An assertion that holds.
LEMMA CheckHolds ==
    ASSUME NEW d, IsDoc(d), NEW holds, holds
    PROVE  SameDoc(d, check(d, holds))
<1> DEFINE e == check(d, holds)
<1>1. /\ SameOutside(d, e) /\ SamePause(d, e) /\ SameWait(d, e) /\ SameStack(d, e)
      /\ e.input = d.input /\ e.requests = d.requests /\ e.failed = (d.failed \/ ~holds)
  BY DEF SameOutside, SameMode, SameScheduler, SamePause, SameWait, SameStack, SameRunner,
         SameLoad, IsDoc, Fields, check
<1>2. d.failed = FALSE => (d.failed \/ ~holds) = FALSE
  BY Zenon
<1> QED BY <1>1, <1>2 DEF SameDoc, Asserted

\* A push.
SameButCalls(d, e) ==
    /\ SameOutside(d, e) /\ SamePause(d, e) /\ SameWait(d, e) /\ e.nesting = d.nesting
    /\ e.pumps = d.pumps /\ e.input = d.input /\ e.requests = d.requests
    /\ Asserted(d) => Asserted(e)

Bit(name, names) == IF name \in names THEN 1 ELSE 0

LEMMA LaterDoes ==
    ASSUME NEW d, IsDoc(d), NEW name, NEW arg
    PROVE  /\ SameButCalls(d, later(d, name, arg))
           /\ later(d, name, arg).calls = Append(d.calls, [name |-> name, arg |-> arg])
BY DEF SameButCalls, SameOutside, SameMode, SameScheduler, SamePause, SameWait, SameRunner,
       SameLoad, Asserted, IsDoc, Fields, later

LEMMA PushFits ==
    ASSUME NEW d, NEW n \in Int, NEW p \in Int, NEW s \in Int, FitsBut(d, n, p, s),
           NEW name \in StepNames, NEW arg \in Tokens(d) \cup Modes \cup {NoToken},
           Pushable(d.calls, name, arg, Tokens(d)), AdmitsWith(d, Names(d.calls) \cup {name}),
           name = "stopParsing" => Quiet(d),
           NEW n2, NEW p2, NEW s2, n2 = n - Bit(name, Nested), p2 = p - Bit(name, Pumped),
           s2 = s - Bit(name, Split)
    PROVE  LET e == later(d, name, arg)
           IN  /\ FitsBut(e, n2, p2, s2)
               /\ Names(e.calls) = Names(d.calls) \cup {name} /\ Top(e.calls) = name
               /\ e.calls # <<>> /\ (\A other : Before(d, other) => Before(e, other))
               /\ SameButCalls(d, e) /\ Tokens(e) = Tokens(d)
               /\ isScheduledForResume(e) <=> isScheduledForResume(d)
<1> DEFINE e == later(d, name, arg)
<1>1. SameButCalls(d, e) /\ e.calls = Append(d.calls, [name |-> name, arg |-> arg])
  BY LaterDoes DEF FitsBut
<1> HIDE DEF e
<1>2. /\ IsDoc(e) /\ ModeOK(e) /\ SchedulerOK(e) /\ Tokens(e) = Tokens(d)
      /\ isScheduledForResume(e) <=> isScheduledForResume(d)
      /\ RunnerOK(e, 0) /\ PauseOK(e) /\ WaitOK(e) /\ LoadOK(e) /\ Asserted(e)
  BY <1>1, OutsideKept DEF SameButCalls, FitsBut
<1>3. d.calls \in Seq(Frames(Tokens(d))) /\ StackOK(d.calls, Tokens(d))
  BY DEF FitsBut, StackedBut
<1>4. /\ e.calls \in Seq(Frames(Tokens(d))) /\ e.calls # <<>>
      /\ Names(e.calls) = Names(d.calls) \cup {name} /\ Top(e.calls) = name
      /\ StackOK(e.calls, Tokens(d))
      /\ \A names : Count(d.calls, names) \in Nat /\ Count(e.calls, names) = Count(d.calls, names) + Bit(name, names)
  <2> DEFINE T == Tokens(d)
             c == d.calls
  <2>1. c \in Seq(Frames(T)) /\ arg \in T \cup Modes \cup {NoToken}
        /\ StackOK(c, T) /\ Pushable(c, name, arg, T)
    BY <1>3
  <2> HIDE DEF T, c
  <2>2. LET g == Append(c, [name |-> name, arg |-> arg])
        IN  /\ g \in Seq(Frames(T)) /\ g # <<>>
            /\ Names(g) = Names(c) \cup {name} /\ Top(g) = name
            /\ StackOK(g, T)
            /\ \A names : Count(c, names) \in Nat /\ Count(g, names) = Count(c, names) + Bit(name, names)
    BY <2>1, Pushed DEF Bit
  <2> QED BY <1>1, <2>2, Zenon DEF T, c
<1>5. StackedBut(e, n2, p2, s2)
  <2>1. Bit(name, Nested) \in Int /\ Bit(name, Pumped) \in Int /\ Bit(name, Split) \in Int
    BY DEF Bit
  <2>2. /\ Count(d.calls, Nested) \in Nat /\ Count(e.calls, Nested) = Count(d.calls, Nested) + Bit(name, Nested)
        /\ Count(d.calls, Pumped) \in Nat /\ Count(e.calls, Pumped) = Count(d.calls, Pumped) + Bit(name, Pumped)
        /\ Count(d.calls, Split) \in Nat /\ Count(e.calls, Split) = Count(d.calls, Split) + Bit(name, Split)
    BY <1>4
  <2>3. StackedBut(d, n, p, s) /\ e.nesting = d.nesting /\ e.pumps = d.pumps /\ e.input = d.input
    BY <1>1 DEF FitsBut, SameButCalls
  <2>4. /\ e.nesting \in Nat /\ e.nesting = Count(e.calls, Nested) + n2
        /\ e.pumps \in Nat /\ e.pumps = Count(e.calls, Pumped) + p2
        /\ Len(e.input) = 1 + Count(e.calls, Split) + s2
    <3>1. /\ d.nesting \in Nat /\ d.nesting = Count(d.calls, Nested) + n
          /\ d.pumps \in Nat /\ d.pumps = Count(d.calls, Pumped) + p
          /\ Len(d.input) = 1 + Count(d.calls, Split) + s
      BY <2>3 DEF StackedBut
    <3>2. e.nesting = d.nesting /\ e.pumps = d.pumps /\ Len(e.input) = Len(d.input)
      BY <2>3
    <3>3. e.nesting \in Nat /\ e.nesting = Count(e.calls, Nested) + n2
      BY <2>1, <2>2, <3>1, <3>2
    <3>4. e.pumps \in Nat /\ e.pumps = Count(e.calls, Pumped) + p2
      BY <2>1, <2>2, <3>1, <3>2
    <3>5. Len(e.input) = 1 + Count(e.calls, Split) + s2
      <4>1. 1 + Count(d.calls, Split) + s = 1 + (Count(d.calls, Split) + Bit(name, Split)) + s2
        BY <2>1, <2>2
      <4> QED BY <2>2, <3>1, <3>2, <4>1
    <3> QED BY <3>3, <3>4, <3>5
  <2>5. /\ e.calls \in Seq(Frames(Tokens(e))) /\ StackOK(e.calls, Tokens(e))
        /\ e.input \in Seq(Seq(Tokens(e))) /\ Len(e.input) > 0
    BY <1>2, <1>4, <2>3 DEF StackedBut
  <2> QED BY <2>4, <2>5 DEF StackedBut
<1>6. AdmitsWith(e, Names(e.calls))
  BY <1>1, <1>2, <1>4 DEF SameButCalls, SameOutside, SameMode, SameWait, AdmitsWith
<1>7. QuietOK(e)
  <2>1. Quiet(d) => Quiet(e)
    BY <1>1, <1>2 DEF SameButCalls, SameWait, SamePause, Quiet
  <2> QED BY <1>1, <1>4, <2>1 DEF SameButCalls, SameOutside, SameMode, QuietOK, FitsBut
<1>8. \A other : Before(d, other) => Before(e, other)
  BY <1>1, <1>2 DEF SameButCalls, SameOutside, SameMode, SameWait, SamePause, Before, Rests, Watched
<1> QED BY <1>1, <1>2, <1>4, <1>5, <1>6, <1>7, <1>8 DEF FitsBut, e

LEMMA PopFits ==
    ASSUME NEW d, DocOK(d), d.calls # <<>>,
           NEW name, NEW arg, name = d.calls[Len(d.calls)].name, arg = d.calls[Len(d.calls)].arg
    PROVE  LET r == [d EXCEPT !.calls = SubSeq(@, 1, Len(@) - 1)]
           IN  /\ FitsBut(r, Bit(name, Nested), Bit(name, Pumped), Bit(name, Split))
               /\ name \in StepNames /\ arg \in Tokens(r) \cup Modes \cup {NoToken}
               /\ Pushable(r.calls, name, arg, Tokens(r)) /\ AdmitsWith(r, Names(r.calls) \cup {name})
               /\ name = "stopParsing" => Quiet(r)
               /\ Before(r, name) /\ Top(d.calls) = name
               /\ r.page = d.page /\ r.suspended = d.suspended
<1> DEFINE r == [d EXCEPT !.calls = SubSeq(@, 1, Len(@) - 1)]
<1>1. SameButCalls(d, r) /\ r.calls = Popped(d.calls)
  BY DEF SameButCalls, SameOutside, SameMode, SameScheduler, SamePause, SameWait, SameRunner,
       SameLoad, Asserted, IsDoc, Fields, DocOK, FitsBut, Popped
<1> HIDE DEF r
<1>2. /\ IsDoc(r) /\ ModeOK(r) /\ SchedulerOK(r) /\ Tokens(r) = Tokens(d)
      /\ isScheduledForResume(r) <=> isScheduledForResume(d)
      /\ RunnerOK(r, 0) /\ PauseOK(r) /\ WaitOK(r) /\ LoadOK(r) /\ Asserted(r)
  BY <1>1, OutsideKept DEF SameButCalls, FitsBut, DocOK
<1>3. d.calls \in Seq(Frames(Tokens(d))) /\ StackOK(d.calls, Tokens(d))
  BY DEF FitsBut, StackedBut, DocOK
<1>4. /\ r.calls \in Seq(Frames(Tokens(d))) /\ StackOK(r.calls, Tokens(d))
      /\ name \in StepNames /\ arg \in Tokens(d) \cup Modes \cup {NoToken}
      /\ Pushable(r.calls, name, arg, Tokens(d))
      /\ Names(d.calls) = Names(r.calls) \cup {name} /\ Top(d.calls) = name
  BY <1>1, <1>3, PoppedStack
<1>5. \A names : /\ Count(r.calls, names) \in Nat
                 /\ Count(d.calls, names) = Count(r.calls, names) + Bit(name, names)
  BY <1>1, <1>3, PoppedStack DEF Bit
<1>6. StackedBut(r, Bit(name, Nested), Bit(name, Pumped), Bit(name, Split))
  <2>1. StackedBut(d, 0, 0, 0) /\ r.nesting = d.nesting /\ r.pumps = d.pumps /\ r.input = d.input
    BY <1>1 DEF FitsBut, SameButCalls, DocOK
  <2>2. /\ r.calls \in Seq(Frames(Tokens(r))) /\ StackOK(r.calls, Tokens(r))
        /\ r.input \in Seq(Seq(Tokens(r))) /\ Len(r.input) > 0
    BY <1>2, <1>4, <2>1 DEF StackedBut
  <2>3. /\ d.nesting \in Nat /\ d.nesting = Count(d.calls, Nested) + 0
        /\ d.pumps \in Nat /\ d.pumps = Count(d.calls, Pumped) + 0
        /\ Len(d.input) = 1 + Count(d.calls, Split) + 0
    BY <2>1 DEF StackedBut
  <2>4. Bit(name, Nested) \in Int /\ Bit(name, Pumped) \in Int /\ Bit(name, Split) \in Int
    BY DEF Bit
  <2>5. d.nesting = Count(r.calls, Nested) + Bit(name, Nested)
    BY <1>5, <2>3, <2>4
  <2>6. d.pumps = Count(r.calls, Pumped) + Bit(name, Pumped)
    BY <1>5, <2>3, <2>4
  <2>7. Len(d.input) = 1 + Count(r.calls, Split) + Bit(name, Split)
    BY <1>5, <2>3, <2>4
  <2> QED BY <2>1, <2>2, <2>3, <2>5, <2>6, <2>7 DEF StackedBut
<1>7. AdmitsWith(r, Names(r.calls) \cup {name}) /\ AdmitsWith(r, Names(r.calls))
  BY <1>1, <1>2, <1>4 DEF SameButCalls, SameOutside, SameMode, SameWait, AdmitsWith, FitsBut, DocOK
<1>8. QuietOK(r) /\ (name = "stopParsing" => Quiet(r))
  <2>1. Quiet(d) => Quiet(r)
    BY <1>1, <1>2 DEF SameButCalls, SameWait, SamePause, Quiet
  <2> QED BY <1>1, <1>4, <2>1 DEF SameButCalls, SameOutside, SameMode, QuietOK, FitsBut, DocOK
<1>9. Before(r, name)
  BY <1>1, <1>2, <1>4 DEF SameButCalls, SameOutside, SameMode, SameWait, SamePause, Before, Rests, Watched, DocOK
<1>10. r.page = d.page /\ r.suspended = d.suspended
  BY <1>1 DEF SameButCalls, SameOutside, SameMode
<1> QED BY <1>2, <1>4, <1>6, <1>7, <1>8, <1>9, <1>10 DEF FitsBut, r

\* A change of the counters and of the input.
SameButCounters(d, e) ==
    /\ SameOutside(d, e) /\ SamePause(d, e) /\ SameWait(d, e) /\ e.calls = d.calls
    /\ e.requests = d.requests /\ (Asserted(d) => Asserted(e))

LEMMA Counts ==
    ASSUME NEW d, NEW n, NEW p, NEW s, StackedBut(d, n, p, s)
    PROVE  \A names : Count(d.calls, names) \in Nat /\ (Count(d.calls, names) = 0 <=> Names(d.calls) \cap names = {})
<1>1. d.calls \in Seq(Frames(Tokens(d))) /\ [name |-> "endPump", arg |-> NoToken] \in Frames(Tokens(d))
  BY DEF StackedBut, Frames, StepNames
<1> QED BY <1>1, CountPush

LEMMA RecountFits ==
    ASSUME NEW d, NEW n, NEW p, NEW s, FitsBut(d, n, p, s),
           NEW e, SameButCounters(d, e), NEW n2, NEW p2, NEW s2, StackedBut(e, n2, p2, s2),
           \/ e.input[1] = d.input[1]
           \/ d.state = "parsing" /\ "stopParsing" \notin Names(d.calls)
    PROVE  /\ FitsBut(e, n2, p2, s2)
           /\ Tokens(e) = Tokens(d) /\ (isScheduledForResume(e) <=> isScheduledForResume(d))
           /\ \A name : Before(d, name)
                        /\ (e.input[1] = d.input[1] \/ name \notin Bottom \cup {"none", "endPump"})
                        => Before(e, name)
<1>1. /\ IsDoc(e) /\ ModeOK(e) /\ SchedulerOK(e) /\ Tokens(e) = Tokens(d)
      /\ isScheduledForResume(e) <=> isScheduledForResume(d)
      /\ RunnerOK(e, 0) /\ PauseOK(e) /\ WaitOK(e) /\ LoadOK(e) /\ Asserted(e)
  BY OutsideKept DEF SameButCounters, FitsBut
<1>3. AdmitsWith(e, Names(e.calls))
  BY <1>1 DEF SameButCounters, SameOutside, SameMode, SameWait, AdmitsWith, FitsBut
<1>4. QuietOK(e)
  BY <1>1 DEF SameButCounters, SameOutside, SameMode, SameWait, SamePause, QuietOK, Quiet, FitsBut
<1>5. ASSUME NEW name, Before(d, name),
             e.input[1] = d.input[1] \/ name \notin Bottom \cup {"none", "endPump"}
      PROVE  Before(e, name)
  BY <1>1, <1>5 DEF SameButCounters, SameOutside, SameMode, SameWait, SamePause, Before, Rests, Watched
<1> QED BY <1>1, <1>3, <1>4, <1>5 DEF FitsBut


\* The pushes and changes of the counters the parser makes.
LEMMA PushPlain ==
    ASSUME NEW d, FitsBut(d, 0, 0, 0),
           NEW name \in StepNames \ (Nested \cup Pumped \cup Split),
           NEW arg \in Tokens(d) \cup Modes \cup {NoToken},
           Pushable(d.calls, name, arg, Tokens(d)), AdmitsWith(d, Names(d.calls) \cup {name}),
           name = "stopParsing" => Quiet(d)
    PROVE  LET e == later(d, name, arg)
           IN  /\ FitsBut(e, 0, 0, 0)
               /\ Names(e.calls) = Names(d.calls) \cup {name} /\ Top(e.calls) = name
               /\ e.calls # <<>> /\ (\A other : Before(d, other) => Before(e, other))
               /\ SameButCalls(d, e) /\ Tokens(e) = Tokens(d)
               /\ isScheduledForResume(e) <=> isScheduledForResume(d)
<1>0. Bit(name, Nested) = 0 /\ Bit(name, Pumped) = 0 /\ Bit(name, Split) = 0
  BY DEF Bit
<1>1. 0 = 0 - Bit(name, Nested) /\ 0 = 0 - Bit(name, Pumped) /\ 0 = 0 - Bit(name, Split)
  BY <1>0
<1>2. 0 \in Int /\ name \in StepNames
  OBVIOUS
<1> QED BY <1>1, <1>2, PushFits

LEMMA PushCounted ==
    ASSUME NEW d, NEW n \in Int, NEW p \in Int, NEW s \in Int, FitsBut(d, n, p, s),
           NEW name,
           \/ name = "endPump" /\ n = 0 /\ p = 1 /\ s = 0
           \/ name = "leaveOutermost" /\ n = 1 /\ p = 0 /\ s = 0
           \/ name = "nextBlockingScript" /\ n = 0 /\ p = 0 /\ s = 1
           \/ name = "endRunScript" /\ n = 1 /\ p = 0 /\ s = 1,
           Pushable(d.calls, name, NoToken, Tokens(d)), AdmitsWith(d, Names(d.calls) \cup {name})
    PROVE  LET e == later(d, name, NoToken)
           IN  /\ FitsBut(e, 0, 0, 0)
               /\ Names(e.calls) = Names(d.calls) \cup {name} /\ Top(e.calls) = name
               /\ e.calls # <<>> /\ (\A other : Before(d, other) => Before(e, other))
               /\ SameButCalls(d, e) /\ Tokens(e) = Tokens(d)
               /\ isScheduledForResume(e) <=> isScheduledForResume(d)
<1>1. 0 = n - Bit(name, Nested) /\ 0 = p - Bit(name, Pumped) /\ 0 = s - Bit(name, Split)
  BY DEF Bit, Nested, Pumped, Split
<1>2. /\ name \in StepNames /\ name # "stopParsing"
      /\ NoToken \in Tokens(d) \cup Modes \cup {NoToken}
  BY DEF StepNames
<1> QED BY <1>1, <1>2, PushFits

LEMMA NotNested ==
    ASSUME NEW d, FitsBut(d, 0, 0, 0), Names(d.calls) \cap Nested = {}
    PROVE  d.nesting = 0
<1>1. StackedBut(d, 0, 0, 0)
  BY DEF FitsBut
<1>2. Count(d.calls, Nested) = 0
  BY <1>1, Counts
<1> QED BY <1>1, <1>2 DEF StackedBut

\* A change of what the parser waits for.
LEMMA ParserFits ==
    ASSUME NEW d, NEW n, NEW p, NEW s, FitsBut(d, n, p, s),
           NEW e, SameOutside(d, e), e.calls = d.calls, Asserted(d) => Asserted(e),
           PauseOK(e), WaitOK(e), QuietOK(e), NEW n2, NEW p2, NEW s2, StackedBut(e, n2, p2, s2),
           e.requests = d.requests \/ (d.parsing /\ e.requests \subseteq Tokens(d))
    PROVE  /\ FitsBut(e, n2, p2, s2)
           /\ Tokens(e) = Tokens(d) /\ (isScheduledForResume(e) <=> isScheduledForResume(d))
<1>1. /\ IsDoc(e) /\ ModeOK(e) /\ SchedulerOK(e) /\ Tokens(e) = Tokens(d)
      /\ isScheduledForResume(e) <=> isScheduledForResume(d)
      /\ RunnerOK(e, 0) /\ LoadOK(e) /\ Asserted(e)
  BY OutsideKept DEF FitsBut
<1>2. AdmitsWith(e, Names(e.calls))
  BY <1>1 DEF SameOutside, SameMode, AdmitsWith, FitsBut
<1> QED BY <1>1, <1>2 DEF FitsBut

LEMMA TopIn ==
    ASSUME NEW d, NEW n, NEW p, NEW s, StackedBut(d, n, p, s), d.calls # <<>>
    PROVE  Top(d.calls) \in Names(d.calls)
<1>1. Len(d.calls) \in 1..Len(d.calls)
  BY DEF StackedBut
<1> QED BY <1>1 DEF Top, Names

\* A parser that executes a script for its document: only the end of its
\* input, or what it has to build, is added to.
Busy(d) ==
    /\ d.state = "parsing" /\ d.script = NoToken /\ ~isScheduledForResume(d)

\* While a script is executed the document is being parsed.
LEMMA InScript ==
    ASSUME NEW d, NEW n, NEW p, NEW s, FitsBut(d, n, p, s), NEW name, name \in Names(d.calls),
           name \notin LastPump
    PROVE  /\ d.parsing /\ "stopParsing" \notin Names(d.calls)
           /\ d.state # "parsing" => Quiet(d) /\ Names(d.calls) \subseteq StopSteps
           /\ d.state # "detached"
<1>1. AdmitsWith(d, Names(d.calls)) /\ QuietOK(d) /\ ModeOK(d)
  BY DEF FitsBut
<1>2. d.parsing /\ "stopParsing" \notin Names(d.calls)
  BY <1>1 DEF AdmitsWith, LastPump, ModeOK
<1> QED BY <1>1, <1>2 DEF AdmitsWith, QuietOK, ModeOK

-----------------------------------------------------------------------------
(* The script runner. *)

\* All that the script runner leaves alone.
SameParser(d, e) ==
    /\ IsDoc(e) /\ SameMode(d, e) /\ SameScheduler(d, e) /\ SamePause(d, e) /\ SameWait(d, e)
    /\ SameStack(d, e) /\ SameLoad(d, e) /\ e.input = d.input

LEMMA SameParserTrans ==
    ASSUME NEW d, NEW e, NEW f, SameParser(d, e), SameParser(e, f)
    PROVE  SameParser(d, f)
BY DEF SameParser, SameMode, SameScheduler, SamePause, SameWait, SameStack, SameLoad

LEMMA RunnerFits ==
    ASSUME NEW d, NEW n, NEW p, NEW s, FitsBut(d, n, p, s), NEW e, SameParser(d, e),
           RunnerOK(e, 0), LoadOK(e), Asserted(e)
    PROVE  /\ FitsBut(e, n, p, s) /\ Tokens(e) = Tokens(d)
           /\ isScheduledForResume(e) <=> isScheduledForResume(d)
           /\ \A name : Before(d, name) => Before(e, name)
<1>1. ModeOK(e) /\ Tokens(e) = Tokens(d)
  BY DEF SameParser, SameMode, ModeOK, Tokens, FitsBut
<1>2. SchedulerOK(e) /\ (isScheduledForResume(e) <=> isScheduledForResume(d))
  BY DEF SameParser, SameMode, SameScheduler, SchedulerOK, isScheduledForResume, FitsBut
<1>3. PauseOK(e) /\ WaitOK(e)
  BY <1>1 DEF PauseOK, SamePause, SameParser, SameMode, WaitOK, SameWait, FitsBut
<1>4. StackedBut(e, n, p, s)
  BY <1>1 DEF SameParser, SameStack, StackedBut, FitsBut
<1>5. AdmitsWith(e, Names(e.calls))
  BY <1>2 DEF SameParser, SameMode, SameStack, AdmitsWith, FitsBut
<1>6. QuietOK(e)
  BY <1>2 DEF SameParser, SameMode, SameStack, SameWait, SamePause, QuietOK, Quiet, FitsBut
<1>7. \A name : Before(d, name) => Before(e, name)
  BY <1>2 DEF SameParser, SameMode, SameWait, SamePause, Before, Rests, Watched
<1> QED BY <1>1, <1>2, <1>3, <1>4, <1>5, <1>6, <1>7 DEF FitsBut, SameParser

LEMMA RunnerSizes ==
    ASSUME NEW d, ModeOK(d), NEW k, RunnerOK(d, k)
    PROVE  /\ IsFiniteSet(d.async) /\ IsFiniteSet(PendingAsync(d)) /\ IsFiniteSet(Tokens(d))
           /\ Cardinality(d.async) \in Nat /\ Cardinality(PendingAsync(d)) \in Nat
           /\ Len(d.inOrder) \in Nat /\ d.delayCount \in Nat
<1>1. IsFiniteSet(Tokens(d)) /\ d.async \subseteq Tokens(d) /\ PendingAsync(d) \subseteq Tokens(d)
  BY PageFacts DEF RunnerOK, PendingAsync
<1>2. IsFiniteSet(d.async) /\ IsFiniteSet(PendingAsync(d))
  BY <1>1, FS_Subset
<1> QED BY <1>1, <1>2, FS_CardinalityType DEF RunnerOK

\* Adding a member makes a finite set at most one larger.
LEMMA AddOne ==
    ASSUME NEW S, IsFiniteSet(S), NEW x
    PROVE  /\ IsFiniteSet(S \cup {x}) /\ Cardinality(S) \in Nat /\ Cardinality(S \cup {x}) \in Nat
           /\ Cardinality(S \cup {x}) <= Cardinality(S) + 1
<1>1. Cardinality(S) \in Nat /\ IsFiniteSet(S \cup {x})
  BY FS_CardinalityType, FS_AddElement
<1>2. Cardinality(S \cup {x}) = IF x \in S THEN Cardinality(S) ELSE Cardinality(S) + 1
  BY FS_AddElement
<1> QED BY <1>1, <1>2

LEMMA UpdateInOrderTimerDoes ==
    ASSUME NEW d, IsDoc(d), ModeOK(d), NEW k, RunnerOK(d, k)
    PROVE  LET e == updateInOrderTimer(d)
           IN  /\ RunnerOK(e, k) /\ SameParser(d, e) /\ e.requests = d.requests
               /\ e.failed = d.failed /\ e.delayCount = d.delayCount /\ e.addedSince = d.addedSince
<1> DEFINE e == [d EXCEPT !.inOrderTimer = startOneShot(@), !.strayed = @ \/ d.suspended]
<1>0. e.strayed = (d.strayed \/ d.suspended)
  BY DEF IsDoc, Fields
<1>1. /\ SameParser(d, e) /\ e.requests = d.requests /\ e.failed = d.failed
      /\ e.delayCount = d.delayCount /\ e.inOrder = d.inOrder /\ e.async = d.async
      /\ e.asyncTimers = d.asyncTimers /\ e.inOrderTimer = startOneShot(d.inOrderTimer)
      /\ e.runnerSuspended = d.runnerSuspended /\ e.addedSince = d.addedSince
  BY DEF SameParser, SameMode, SameScheduler, SamePause, SameWait, SameStack, SameLoad, IsDoc, Fields
<1>2. SameParser(d, d)
  BY DEF SameParser, SameMode, SameScheduler, SamePause, SameWait, SameStack, SameLoad
<1>3. updateInOrderTimer(d) = d \/ (d.inOrder # <<>> /\ ~isActive(d.inOrderTimer) /\ updateInOrderTimer(d) = e)
  BY DEF updateInOrderTimer
<1> HIDE DEF e
<1>4. ASSUME d.inOrder # <<>>, ~isActive(d.inOrderTimer) PROVE RunnerOK(e, k)
  <2>1. Tokens(e) = Tokens(d) /\ \A t : IsAsync(e, t) <=> IsAsync(d, t)
    BY <1>1 DEF SameParser, SameMode, Tokens, IsAsync
  <2>2. PendingAsync(e) = PendingAsync(d)
    BY <1>1, <2>1 DEF PendingAsync
  <2>3. Delays(e, k)
    BY <1>1, <2>2 DEF Delays, RunnerOK
  <2>4. ASSUME ~e.strayed
        PROVE  /\ TimerOK(e.inOrderTimer) /\ e.runnerSuspended \in BOOLEAN
               /\ e.inOrder # <<>> /\ ~e.runnerSuspended /\ ~e.suspended
               /\ TimerPending(e.inOrderTimer)
    <3>0. ~d.strayed /\ ~d.suspended
      BY <1>0, <2>4, Zenon
    <3>1. TimerOK(d.inOrderTimer) /\ d.runnerSuspended \in BOOLEAN /\ (d.runnerSuspended => d.suspended)
      BY <3>0 DEF RunnerOK
    <3>2. TimerOK(e.inOrderTimer)
      BY <1>1, <1>4, <3>1 DEF TimerOK, startOneShot, isActive
    <3>3. TimerPending(e.inOrderTimer)
      BY <1>1, <3>1 DEF TimerOK, startOneShot, TimerPending
    <3>4. e.suspended = d.suspended
      BY <1>1 DEF SameParser, SameMode
    <3> QED BY <1>1, <1>4, <3>0, <3>1, <3>2, <3>3, <3>4
  <2> QED BY <1>1, <2>1, <2>3, <2>4 DEF RunnerOK
<1> QED BY <1>1, <1>2, <1>3, <1>4

LEMMA NotifyScriptReadyDoes ==
    ASSUME NEW d, IsDoc(d), ModeOK(d), NEW k \in Nat, RunnerOK(d, k), NEW script \in Tokens(d),
           IF IsAsync(d, script) THEN script \in d.async ELSE d.inOrder # <<>>
    PROVE  LET e == notifyScriptReady(d, script)
           IN  /\ RunnerOK(e, k) /\ SameParser(d, e) /\ e.requests = d.requests
               /\ Asserted(d) => Asserted(e)
               /\ e.delayCount = d.delayCount /\ e.addedSince = d.addedSince
<1> DEFINE r == [d EXCEPT !.eventActionToFinish[script] = Now, !.now = @ \cup {<<"ready", script>>}]
<1>1. SameDoc(d, r)
  BY DEF SameDoc, SameOutside, SameMode, SameScheduler, SamePause, SameWait, SameStack, SameRunner,
         SameLoad, Asserted, IsDoc, Fields
<1> HIDE DEF r
<1>2. CASE IsAsync(d, script)
  <2> DEFINE c == check(r, script \in d.async)
             e == [c EXCEPT !.async = @ \ {script}, !.asyncTimers[script] = startOneShot(NewTimer)]
  <2>1. notifyScriptReady(d, script) = e
    BY <1>2 DEF notifyScriptReady, r
  <2>2. SameDoc(r, c)
    BY <1>1, <1>2, CheckHolds DEF SameDoc, SameOutside
  <2> HIDE DEF c
  <2>3. /\ SameParser(c, e) /\ e.requests = c.requests /\ e.failed = c.failed
        /\ e.delayCount = c.delayCount /\ e.inOrder = c.inOrder /\ e.async = c.async \ {script}
        /\ e.asyncTimers = [c.asyncTimers EXCEPT ![script] = startOneShot(NewTimer)]
        /\ e.inOrderTimer = c.inOrderTimer /\ e.runnerSuspended = c.runnerSuspended
        /\ e.strayed = c.strayed /\ e.addedSince = c.addedSince
    BY <2>2 DEF SameDoc, SameOutside, SameParser, SameMode, SameScheduler, SamePause, SameWait,
                SameStack, SameLoad, IsDoc, Fields
  <2> HIDE DEF e
  <2>4. /\ SameParser(d, e) /\ e.requests = d.requests /\ (Asserted(d) => Asserted(e))
        /\ e.delayCount = d.delayCount /\ e.inOrder = d.inOrder /\ e.async = d.async \ {script}
        /\ e.asyncTimers = [d.asyncTimers EXCEPT ![script] = startOneShot(NewTimer)]
        /\ e.inOrderTimer = d.inOrderTimer /\ e.runnerSuspended = d.runnerSuspended
        /\ e.strayed = d.strayed /\ e.addedSince = d.addedSince
    BY <1>1, <2>2, <2>3 DEF SameDoc, SameOutside, SameParser, SameMode, SameScheduler, SamePause,
                SameWait, SameStack, SameLoad, SameRunner, Asserted
  <2>5. /\ Tokens(e) = Tokens(d) /\ (\A t : IsAsync(e, t) <=> IsAsync(d, t))
        /\ e.suspended = d.suspended
    BY <2>4 DEF SameParser, SameMode, Tokens, IsAsync
  <2>6. DOMAIN d.asyncTimers = Tokens(d)
    BY DEF RunnerOK
  <2>7. PendingAsync(e) \subseteq PendingAsync(d) \cup {script}
    BY <2>4, <2>5, <2>6 DEF PendingAsync
  <2>8. Delays(e, k)
    <3>1. /\ IsFiniteSet(d.async) /\ IsFiniteSet(PendingAsync(d)) /\ Cardinality(d.async) \in Nat
          /\ Len(d.inOrder) \in Nat /\ d.delayCount \in Nat
      BY RunnerSizes
    <3>2. Cardinality(d.async \ {script}) = Cardinality(d.async) - 1
      BY <1>2, <3>1, FS_RemoveElement
    <3>3. /\ IsFiniteSet(PendingAsync(d) \cup {script}) /\ Cardinality(PendingAsync(d)) \in Nat
          /\ Cardinality(PendingAsync(d) \cup {script}) <= Cardinality(PendingAsync(d)) + 1
          /\ Cardinality(PendingAsync(d) \cup {script}) \in Nat
      BY <3>1, AddOne
    <3>4. /\ IsFiniteSet(PendingAsync(e))
          /\ Cardinality(PendingAsync(e)) <= Cardinality(PendingAsync(d) \cup {script})
      BY <2>7, <3>3, FS_Subset
    <3>5. Cardinality(PendingAsync(e)) \in Nat
      BY <3>4, FS_CardinalityType
    <3>6. d.delayCount >= k + Len(d.inOrder) + Cardinality(d.async) + Cardinality(PendingAsync(d))
      BY DEF RunnerOK, Delays
    <3>7. d.delayCount >= k + Len(d.inOrder) + (Cardinality(d.async) - 1) + Cardinality(PendingAsync(e))
      BY <3>1, <3>3, <3>4, <3>5, <3>6, SMTT(60)
    <3> QED BY <2>4, <3>2, <3>7 DEF Delays
  <2>9. \A t \in Tokens(e) : /\ TimerOK(e.asyncTimers[t])
                             /\ TimerPending(e.asyncTimers[t]) => IsAsync(e, t)
    <3>1. TimerOK(startOneShot(NewTimer))
      BY DEF TimerOK, startOneShot, NewTimer
    <3> QED BY <1>2, <2>4, <2>5, <2>6, <3>1 DEF RunnerOK
  <2>10. RunnerOK(e, k)
    BY <2>4, <2>5, <2>6, <2>8, <2>9 DEF RunnerOK
  <2> QED BY <2>1, <2>4, <2>10
<1>3. CASE ~IsAsync(d, script)
  <2> DEFINE c == check(r, d.inOrder # <<>>)
  <2>1. notifyScriptReady(d, script) = updateInOrderTimer(c)
    BY <1>3 DEF notifyScriptReady, r
  <2>2. SameDoc(r, c)
    BY <1>1, <1>3, CheckHolds DEF SameDoc, SameOutside
  <2> HIDE DEF c
  <2>3. SameDoc(d, c)
    BY <1>1, <2>2 DEF SameDoc, SameOutside, SameMode, SameScheduler, SamePause, SameWait, SameStack,
                      SameRunner, SameLoad
  <2>4. IsDoc(c) /\ ModeOK(c) /\ RunnerOK(c, k) /\ c.suspended = d.suspended
    <3>1. SameOutside(d, c)
      BY <2>3 DEF SameDoc
    <3>2. IsDoc(c) /\ ModeOK(c) /\ c.suspended = d.suspended
      BY <3>1 DEF SameOutside, SameMode, ModeOK
    <3>3. RunnerOK(c, k)
      <4>1. Tokens(c) = Tokens(d) /\ \A t : IsAsync(c, t) <=> IsAsync(d, t)
        BY <3>1 DEF IsAsync, SameOutside, SameMode, Tokens
      <4>2. PendingAsync(c) = PendingAsync(d)
        BY <3>1, <4>1 DEF PendingAsync, SameOutside, SameRunner
      <4> QED BY <3>1, <4>1, <4>2 DEF RunnerOK, Delays, SameOutside, SameRunner, SameMode
    <3> QED BY <3>2, <3>3
  <2>5. LET e == updateInOrderTimer(c)
        IN  /\ RunnerOK(e, k) /\ SameParser(c, e) /\ e.requests = c.requests
            /\ e.failed = c.failed /\ e.delayCount = c.delayCount /\ e.addedSince = c.addedSince
    BY <2>4, UpdateInOrderTimerDoes
  <2>6. /\ SameParser(d, c) /\ c.requests = d.requests /\ c.delayCount = d.delayCount
        /\ c.addedSince = d.addedSince
    BY <2>3 DEF SameDoc, SameOutside, SameParser, SameRunner
  <2>7. SameParser(d, updateInOrderTimer(c))
    BY <2>5, <2>6, SameParserTrans
  <2>8. Asserted(d) => Asserted(updateInOrderTimer(c))
    BY <2>3, <2>5 DEF SameDoc, Asserted
  <2> QED BY <2>1, <2>5, <2>6, <2>7, <2>8
<1> QED BY <1>2, <1>3

\* The element of a script that the script runner has hears of its load.
LEMMA ScriptFinishedDoes ==
    ASSUME NEW d, IsDoc(d), ModeOK(d), NEW k \in Nat, RunnerOK(d, k), NEW script \in Tokens(d),
           IF IsAsync(d, script) THEN script \in d.async ELSE d.inOrder # <<>>
    PROVE  LET e == scriptFinished(d, script)
           IN  /\ RunnerOK(e, k) /\ SameParser(d, e) /\ e.requests = d.requests
               /\ Asserted(d) => Asserted(e)
               /\ e.delayCount = d.delayCount /\ e.addedSince = d.addedSince
<1>1. SameParser(d, d)
  BY DEF SameParser, SameMode, SameScheduler, SamePause, SameWait, SameStack, SameLoad
<1>2. CASE script \in d.page.denied
  BY <1>1, <1>2 DEF scriptFinished
<1>3. CASE script \notin d.page.denied
  BY <1>3, NotifyScriptReadyDoes DEF scriptFinished
<1> QED BY <1>2, <1>3

\* What a script that is queued changes.
Queues(d, e, k) ==
    /\ RunnerOK(e, k) /\ SameParser(d, e) /\ e.requests \subseteq Tokens(d)
    /\ d.addedSince \subseteq e.addedSince /\ e.requests \subseteq d.requests \cup e.addedSince
    /\ e.addedSince = {} => e.delayCount = d.delayCount
    /\ Asserted(d) => Asserted(e)

LEMMA QueueScriptDoes ==
    ASSUME NEW d, IsDoc(d), ModeOK(d), NEW k \in Nat, RunnerOK(d, k),
           d.requests \subseteq Tokens(d), NEW script \in Tokens(d)
    PROVE  Queues(d, queueScriptForExecution(d, script), k)
<1> DEFINE counted == [request(d, {script}) EXCEPT !.delayCount = @ + 1,
                                                   !.addedSince = @ \cup {script}]
           q == IF IsAsync(d, script) THEN [counted EXCEPT !.async = @ \cup {script}]
                ELSE [counted EXCEPT !.inOrder = Append(@, script)]
<1>1. /\ SameParser(d, q) /\ q.requests = d.requests \cup ({script} \ d.requested)
      /\ q.failed = d.failed /\ q.delayCount = d.delayCount + 1
      /\ q.async = IF IsAsync(d, script) THEN d.async \cup {script} ELSE d.async
      /\ q.inOrder = IF IsAsync(d, script) THEN d.inOrder ELSE Append(d.inOrder, script)
      /\ q.asyncTimers = d.asyncTimers /\ q.inOrderTimer = d.inOrderTimer
      /\ q.runnerSuspended = d.runnerSuspended /\ q.strayed = d.strayed
      /\ q.addedSince = d.addedSince \cup {script}
  BY DEF SameParser, SameMode, SameScheduler, SamePause, SameWait, SameStack, SameLoad, IsDoc, Fields,
         request
<1>2. queueScriptForExecution(d, script) = IF script \in d.loaded THEN scriptFinished(q, script) ELSE q
  BY DEF queueScriptForExecution
<1> HIDE DEF q
<1>3. /\ Tokens(q) = Tokens(d) /\ (\A t : IsAsync(q, t) <=> IsAsync(d, t))
      /\ q.suspended = d.suspended /\ IsDoc(q) /\ ModeOK(q)
  BY <1>1 DEF SameParser, SameMode, Tokens, IsAsync, ModeOK
<1>4. PendingAsync(q) = PendingAsync(d)
  BY <1>1, <1>3 DEF PendingAsync
<1>5. /\ IsFiniteSet(d.async) /\ Cardinality(d.async) \in Nat /\ Cardinality(PendingAsync(d)) \in Nat
      /\ Len(d.inOrder) \in Nat /\ d.delayCount \in Nat
  BY RunnerSizes
<1>6. d.delayCount >= k + Len(d.inOrder) + Cardinality(d.async) + Cardinality(PendingAsync(d))
  BY DEF RunnerOK, Delays
<1>7. /\ q.inOrder \in Seq(Tokens(q)) /\ (\A i \in 1..Len(q.inOrder) : ~IsAsync(q, q.inOrder[i]))
      /\ q.async \subseteq {t \in Tokens(q) : IsAsync(q, t)} /\ Delays(q, k)
      /\ IF IsAsync(d, script) THEN script \in q.async ELSE q.inOrder # <<>>
      /\ d.inOrder # <<>> => q.inOrder # <<>>
  <2>1. CASE IsAsync(d, script)
    <3>1. q.async = d.async \cup {script} /\ q.inOrder = d.inOrder
      BY <1>1, <2>1
    <3>2. /\ Cardinality(d.async \cup {script}) <= Cardinality(d.async) + 1
          /\ Cardinality(d.async \cup {script}) \in Nat
      BY <1>5, AddOne
    <3>3. d.delayCount + 1 >= k + Len(d.inOrder) + Cardinality(d.async \cup {script}) + Cardinality(PendingAsync(d))
      BY <1>5, <1>6, <3>2, SMTT(60)
    <3>4. Delays(q, k)
      BY <1>1, <1>4, <3>1, <3>3 DEF Delays
    <3> QED BY <1>3, <2>1, <3>1, <3>4 DEF RunnerOK
  <2>2. CASE ~IsAsync(d, script)
    <3>1. q.async = d.async /\ q.inOrder = Append(d.inOrder, script)
      BY <1>1, <2>2
    <3>2. d.inOrder \in Seq(Tokens(d)) /\ \A i \in 1..Len(d.inOrder) : ~IsAsync(d, d.inOrder[i])
      BY DEF RunnerOK
    <3>3. /\ Append(d.inOrder, script) \in Seq(Tokens(d)) /\ Append(d.inOrder, script) # <<>>
          /\ Len(Append(d.inOrder, script)) = Len(d.inOrder) + 1
          /\ \A i \in 1..(Len(d.inOrder) + 1) : ~IsAsync(d, Append(d.inOrder, script)[i])
      <4>1. /\ Append(d.inOrder, script) \in Seq(Tokens(d)) /\ Append(d.inOrder, script) # <<>>
            /\ Len(Append(d.inOrder, script)) = Len(d.inOrder) + 1 /\ Len(d.inOrder) \in Nat
            /\ \A i \in 1..Len(d.inOrder) : Append(d.inOrder, script)[i] = d.inOrder[i]
            /\ Append(d.inOrder, script)[Len(d.inOrder) + 1] = script
        BY <3>2, PushSeq
      <4>2. \A i \in 1..(Len(d.inOrder) + 1) : i \in 1..Len(d.inOrder) \/ i = Len(d.inOrder) + 1
        BY <4>1
      <4> QED BY <2>2, <3>2, <4>1, <4>2
    <3>4. d.delayCount + 1 >= k + (Len(d.inOrder) + 1) + Cardinality(d.async) + Cardinality(PendingAsync(d))
      BY <1>5, <1>6
    <3>5. Delays(q, k)
      BY <1>1, <1>4, <3>1, <3>3, <3>4 DEF Delays
    <3> QED BY <1>3, <2>2, <3>1, <3>3, <3>5 DEF RunnerOK
  <2> QED BY <2>1, <2>2
<1>8. RunnerOK(q, k)
  BY <1>1, <1>3, <1>5, <1>7 DEF RunnerOK
<1>9. q.requests \subseteq Tokens(d) /\ (Asserted(d) => Asserted(q))
  BY <1>1 DEF Asserted
<1>10. CASE script \in d.loaded
  <2>1. LET e == scriptFinished(q, script)
        IN  /\ RunnerOK(e, k) /\ SameParser(q, e) /\ e.requests = q.requests
            /\ Asserted(q) => Asserted(e)
            /\ e.addedSince = q.addedSince
    BY <1>3, <1>7, <1>8, ScriptFinishedDoes
  <2>2. SameParser(d, scriptFinished(q, script))
    BY <1>1, <2>1, SameParserTrans
  <2> QED BY <1>1, <1>2, <1>9, <1>10, <2>1, <2>2 DEF Queues
<1> QED BY <1>1, <1>2, <1>8, <1>9, <1>10 DEF Queues

\* Every set of numbers has a least one.
LEMMA LeastOf ==
    ASSUME NEW T, T \subseteq Nat, T # {}
    PROVE  \E x \in T : \A y \in T : ~(y < x)
<1>1. IsWellFoundedOn(OpToRel(<, Nat), Nat)
  BY NatLessThanWellFounded
<1>2. PICK x \in T : \A y \in T : ~(<<y, x>> \in OpToRel(<, Nat))
  BY <1>1, WFMin
<1>3. \A y \in T : ~(y < x)
  BY <1>2 DEF OpToRel
<1> QED BY <1>3

\* f is the function insertScripts defines, up to n.
Inserting(f, d, scripts, n) ==
    f = [i \in 0..n |-> IF i = 0 THEN d ELSE queueScriptForExecution(f[i - 1], scripts[i])]

LEMMA InsertingExists ==
    ASSUME NEW d, NEW scripts, NEW n \in Nat
    PROVE  \E f : Inserting(f, d, scripts, n)
<1> DEFINE T == {k \in Nat : ~\E f : Inserting(f, d, scripts, k)}
<1>1. ASSUME T # {} PROVE FALSE
  <2>1. PICK k \in T : \A j \in T : ~(j < k)
    <3>1. T \subseteq Nat
      OBVIOUS
    <3> HIDE DEF T
    <3> QED BY <1>1, <3>1, LeastOf
  <2>2. CASE k = 0
    <3> DEFINE f == [i \in 0..0 |-> d]
    <3>1. f = [i \in 0..0 |-> IF i = 0 THEN d ELSE queueScriptForExecution(f[i - 1], scripts[i])]
      OBVIOUS
    <3>2. Inserting(f, d, scripts, 0)
      BY <3>1 DEF Inserting
    <3> QED BY <2>2, <3>2
  <2>3. CASE k # 0
    <3>1. k - 1 \in Nat /\ k - 1 \notin T
      BY <2>1, <2>3
    <3>2. PICK g : Inserting(g, d, scripts, k - 1)
      BY <3>1
    <3> DEFINE f == [i \in 0..k |-> IF i = 0 THEN d ELSE queueScriptForExecution(g[i - 1], scripts[i])]
    <3>3. ASSUME NEW i \in 0..(k - 1) PROVE f[i] = g[i]
      <4>1. i \in 0..k
        BY <3>1
      <4>2. g = [j \in 0..(k - 1) |-> IF j = 0 THEN d ELSE queueScriptForExecution(g[j - 1], scripts[j])]
        BY <3>2 DEF Inserting
      <4>3. g[i] = IF i = 0 THEN d ELSE queueScriptForExecution(g[i - 1], scripts[i])
        BY <4>2
      <4> QED BY <4>1, <4>3
    <3>4. \A i \in 0..k : i # 0 => i - 1 \in 0..(k - 1)
      BY <3>1
    <3>5. f = [i \in 0..k |-> IF i = 0 THEN d ELSE queueScriptForExecution(f[i - 1], scripts[i])]
      <4>1. \A i \in 0..k : i # 0 => f[i - 1] = g[i - 1]
        BY <3>3, <3>4
      <4> QED BY <4>1
    <3>6. Inserting(f, d, scripts, k)
      BY <3>5 DEF Inserting
    <3> QED BY <3>6
  <2> QED BY <2>2, <2>3
<1> QED BY <1>1

LEMMA InsertScriptsDoes ==
    ASSUME NEW d, IsDoc(d), ModeOK(d), NEW k \in Nat, RunnerOK(d, k), d.requests \subseteq Tokens(d),
           NEW scripts \in Seq(Tokens(d))
    PROVE  Queues(d, insertScripts(d, scripts), k)
<1> DEFINE n == Len(scripts)
           inserted == CHOOSE f : f = [i \in 0..n |-> IF i = 0 THEN d
                                          ELSE queueScriptForExecution(f[i - 1], scripts[i])]
<1>1. n \in Nat /\ \A i \in 1..n : scripts[i] \in Tokens(d)
  OBVIOUS
<1>2. insertScripts(d, scripts) = inserted[n]
  BY DEF insertScripts
<1>3. \E f : f = [i \in 0..n |-> IF i = 0 THEN d ELSE queueScriptForExecution(f[i - 1], scripts[i])]
  <2> HIDE DEF n
  <2>1. \E f : Inserting(f, d, scripts, n)
    BY <1>1, InsertingExists
  <2> QED BY <2>1, Zenon DEF Inserting
<1>4. inserted = [i \in 0..n |-> IF i = 0 THEN d ELSE queueScriptForExecution(inserted[i - 1], scripts[i])]
  BY <1>3
<1> HIDE DEF inserted
<1>5. \A i \in 0..n : inserted[i] = IF i = 0 THEN d ELSE queueScriptForExecution(inserted[i - 1], scripts[i])
  BY <1>4
<1> HIDE DEF n
<1> DEFINE T == {i \in Nat : i \in 0..n /\ ~Queues(d, inserted[i], k)}
<1>7. ASSUME T # {} PROVE FALSE
  <2>1. PICK i \in T : \A j \in T : ~(j < i)
    <3>1. T \subseteq Nat
      OBVIOUS
    <3> HIDE DEF T
    <3> QED BY <1>7, <3>1, LeastOf
  <2>2. i \in 0..n /\ ~Queues(d, inserted[i], k)
    BY <2>1
  <2>3. i # 0
    <3>1. SameParser(d, d)
      BY DEF SameParser, SameMode, SameScheduler, SamePause, SameWait, SameStack, SameLoad
    <3>2. Queues(d, d, k)
      BY <3>1 DEF Queues
    <3>3. i = 0 => inserted[i] = d
      BY <1>5, <2>2
    <3> QED BY <2>2, <3>2, <3>3
  <2>4. i - 1 \in 0..n /\ i - 1 \in Nat /\ i - 1 < i /\ i \in 1..n /\ n # 0
    BY <1>1, <2>2, <2>3
  <2> DEFINE b == inserted[i - 1]
  <2>5. Queues(d, b, k)
    BY <2>1, <2>4
  <2>6. inserted[i] = queueScriptForExecution(b, scripts[i])
    BY <1>5, <2>2, <2>3
  <2> HIDE DEF b
  <2>7. /\ IsDoc(b) /\ ModeOK(b) /\ Tokens(b) = Tokens(d) /\ b.suspended = d.suspended
        /\ RunnerOK(b, k) /\ b.requests \subseteq Tokens(b)
    BY <2>5 DEF Queues, SameParser, SameMode, Tokens, ModeOK
  <2>8. Queues(b, queueScriptForExecution(b, scripts[i]), k)
    BY <1>1, <2>4, <2>7, QueueScriptDoes
  <2>9. Queues(d, inserted[i], k)
    BY <2>5, <2>6, <2>7, <2>8, SameParserTrans DEF Queues
  <2> QED BY <2>2, <2>9
<1>8. Queues(d, inserted[n], k)
  BY <1>1, <1>7
<1> QED BY <1>2, <1>8

LEMMA QueueFits ==
    ASSUME NEW d, NEW n, NEW p, NEW s, FitsBut(d, n, p, s), NEW e, Queues(d, e, 0)
    PROVE  /\ FitsBut(e, n, p, s) /\ e.calls = d.calls /\ e.suspended = d.suspended
           /\ e.state = d.state /\ \A name : Before(d, name) => Before(e, name)
<1>1. SameParser(d, e) /\ Tokens(e) = Tokens(d)
  BY DEF Queues, SameParser, SameMode, Tokens
<1>2. LoadOK(e)
  BY <1>1 DEF FitsBut, LoadOK, Queues, SameParser, SameLoad, SameMode
<1> QED BY <1>1, <1>2, RunnerFits DEF Queues, SameParser, SameMode, SameStack, FitsBut
-----------------------------------------------------------------------------
(* The pump. *)

\* What is left when an operation of the parser returns.
Goes(d) == DocOK(d) /\ ~d.suspended

LEMMA PumpTokenizerGoes ==
    ASSUME NEW d, FitsBut(d, 0, 0, 0), Watched(d), ~d.suspended, d.state = "parsing",
           NEW mode \in Modes, d.calls # <<>>, Calls(Top(d.calls), "endPump"),
           mode = "AllowYield" => Names(d.calls) \subseteq Yielding,
           ~isScheduledForResume(d), d.blocking = NoToken, d.paused <=> d.script # NoToken
    PROVE  Goes(pumpTokenizer(d, mode))
<1> DEFINE allowed == check(d, ~isStopped(d) /\ ~isScheduledForResume(d))
           j == [addArc(chain(allowed), d.inputJoin)
                    EXCEPT !.inputJoin = {}, !.lastParse = Now, !.pumps = @ + 1]
           f == later(j, "endPump", NoToken)
           e == later(f, "takeTokens", mode)
<1>1. SameDoc(d, allowed)
  BY CheckHolds DEF FitsBut, isStopped
<1>2. /\ SameOutside(allowed, j) /\ SamePause(allowed, j) /\ SameWait(allowed, j)
      /\ j.calls = allowed.calls /\ j.nesting = allowed.nesting /\ j.pumps = allowed.pumps + 1
      /\ j.input = allowed.input /\ j.requests = allowed.requests /\ j.failed = allowed.failed
  <2> HIDE DEF allowed
  <2> QED BY <1>1 DEF SameDoc, SameOutside, SameMode, SameScheduler, SamePause, SameWait, SameStack,
                      SameRunner, SameLoad, IsDoc, Fields, addArc, chain
<1> HIDE DEF allowed
<1>3. SameButCounters(d, j) /\ j.nesting = d.nesting /\ j.pumps = d.pumps + 1 /\ j.input = d.input
  BY <1>1, <1>2 DEF SameDoc, SameButCounters, SameOutside, SameMode, SameScheduler, SamePause,
                    SameWait, SameStack, SameRunner, SameLoad, Asserted
<1> HIDE DEF j
<1>4. /\ FitsBut(j, 0, 1, 0) /\ Tokens(j) = Tokens(d)
      /\ isScheduledForResume(j) <=> isScheduledForResume(d)
  <2>1. StackedBut(d, 0, 0, 0) /\ Count(d.calls, Pumped) \in Nat
    BY Counts DEF FitsBut
  <2>2. StackedBut(j, 0, 1, 0)
    BY <1>3, <2>1 DEF StackedBut, SameButCounters, SameOutside, SameMode, Tokens
  <2> QED BY <1>3, <2>2, RecountFits
<1>5. /\ Pushable(j.calls, "endPump", NoToken, Tokens(j))
      /\ AdmitsWith(j, Names(j.calls) \cup {"endPump"})
  <2>1. j.calls = d.calls /\ j.state = "parsing"
    BY <1>3 DEF SameButCounters, SameOutside, SameMode
  <2>2. Pushable(j.calls, "endPump", NoToken, Tokens(j))
    BY <2>1 DEF Pushable, First, Outermost
  <2>3. AdmitsWith(j, Names(j.calls)) /\ ModeOK(j)
    BY <1>4 DEF FitsBut
  <2> QED BY <1>4, <2>1, <2>2, <2>3 DEF AdmitsWith, LastPump, Stops, Yielding, ModeOK
<1>6. /\ FitsBut(f, 0, 0, 0) /\ SameButCalls(j, f) /\ Tokens(f) = Tokens(d) /\ f.calls # <<>>
      /\ isScheduledForResume(f) <=> isScheduledForResume(d)
      /\ Names(f.calls) = Names(d.calls) \cup {"endPump"} /\ Top(f.calls) = "endPump"
  <2>1. 0 \in Int /\ 1 \in Int /\ j.calls = d.calls
    BY <1>3 DEF SameButCounters
  <2> QED BY <1>4, <1>5, <2>1, PushCounted, SMTT(60)
<1> HIDE DEF f
<1>7. /\ Pushable(f.calls, "takeTokens", mode, Tokens(f))
      /\ AdmitsWith(f, Names(f.calls) \cup {"takeTokens"})
  <2>1. f.state = "parsing"
    BY <1>3, <1>6 DEF SameButCalls, SameButCounters, SameOutside, SameMode
  <2>2. Pushable(f.calls, "takeTokens", mode, Tokens(f))
    BY <1>6 DEF Pushable, First, Outermost, Calls, Yielding
  <2>3. AdmitsWith(f, Names(f.calls)) /\ ModeOK(f)
    BY <1>6 DEF FitsBut
  <2> QED BY <1>6, <2>1, <2>2, <2>3 DEF AdmitsWith, LastPump, Stops, ModeOK
<1>8. /\ FitsBut(e, 0, 0, 0) /\ SameButCalls(f, e) /\ Top(e.calls) = "takeTokens"
      /\ isScheduledForResume(e) <=> isScheduledForResume(d)
  <2>1. "takeTokens" \in StepNames \ (Nested \cup Pumped \cup Split)
    BY DEF StepNames, Nested, Pumped, Split
  <2> QED BY <1>6, <1>7, <2>1, PushPlain
<1>9. ~e.suspended /\ Before(e, "takeTokens")
  BY <1>3, <1>6, <1>8 DEF SameButCalls, SameButCounters, SameOutside, SameMode, SamePause, SameWait,
                          Before, Watched, Bottom
<1>10. pumpTokenizer(d, mode) = e
  BY DEF pumpTokenizer, e, f, j, allowed
<1> QED BY <1>8, <1>9, <1>10 DEF Goes, DocOK


LEMMA PumpTokenizerIfPossibleGoes ==
    ASSUME NEW d, FitsBut(d, 0, 0, 0), Watched(d), ~d.suspended, d.state = "parsing",
           NEW mode \in Modes, d.calls # <<>>, Calls(Top(d.calls), "endPump"),
           mode = "AllowYield" => Names(d.calls) \subseteq Yielding,
           d.paused \/ isScheduledForResume(d) => Before(d, Top(d.calls)),
           isScheduledForResume(d) => mode = "AllowYield",
           ~d.paused /\ ~isScheduledForResume(d) => d.blocking = NoToken /\ d.script = NoToken
    PROVE  Goes(pumpTokenizerIfPossible(d, mode))
<1>1. CASE d.paused
  <2>1. pumpTokenizerIfPossible(d, mode) = d
    BY <1>1 DEF pumpTokenizerIfPossible
  <2> QED BY <1>1, <2>1 DEF Goes, DocOK
<1>2. CASE ~d.paused /\ isScheduledForResume(d)
  <2> DEFINE e == check(d, mode = "AllowYield")
  <2>1. pumpTokenizerIfPossible(d, mode) = e
    BY <1>2 DEF pumpTokenizerIfPossible, isStopped
  <2>2. SameDoc(d, e)
    BY <1>2, CheckHolds DEF FitsBut
  <2> HIDE DEF e
  <2>3. FitsBut(e, 0, 0, 0) /\ Before(e, Top(d.calls))
    BY <1>2, <2>2, SameFits
  <2>4. e.calls = d.calls /\ e.suspended = d.suspended
    BY <2>2 DEF SameDoc, SameStack, SameOutside, SameMode
  <2> QED BY <2>1, <2>3, <2>4 DEF Goes, DocOK
<1>3. CASE ~d.paused /\ ~isScheduledForResume(d)
  <2>1. pumpTokenizerIfPossible(d, mode) = pumpTokenizer(d, mode)
    BY <1>3 DEF pumpTokenizerIfPossible, isStopped
  <2>2. d.paused \in BOOLEAN
    BY DEF FitsBut, PauseOK
  <2>3. d.blocking = NoToken /\ (d.paused <=> d.script # NoToken)
    BY <1>3, <2>2
  <2> QED BY <1>3, <2>1, <2>3, PumpTokenizerGoes
<1> QED BY <1>1, <1>2, <1>3

-----------------------------------------------------------------------------
(* Scripts. *)

LEMMA InsertGoes ==
    ASSUME NEW d, FitsBut(d, 0, 0, 0), Watched(d), ~d.suspended, Busy(d), d.blocking = NoToken,
           d.calls # <<>>, Top(d.calls) = "insertScripts", Names(d.calls) \cap Nested # {},
           NEW tokens \in Seq(Tokens(d))
    PROVE  Goes(insert(d, tokens))
<1> DEFINE m == modifiesInput(d)
           i == [m EXCEPT !.input[1] = @ \o tokens]
           e == later(i, "endInsert", NoToken)
<1>1. SameDoc(d, m) /\ FitsBut(m, 0, 0, 0) /\ (Before(d, "endInsert") => Before(m, "endInsert"))
  BY LabelsOnly, SameFits DEF FitsBut
<1>2. /\ SameOutside(m, i) /\ SamePause(m, i) /\ SameWait(m, i) /\ SameStack(m, i)
      /\ i.input = [m.input EXCEPT ![1] = @ \o tokens] /\ i.requests = m.requests
      /\ i.failed = m.failed
  <2> HIDE DEF m
  <2> QED BY <1>1 DEF SameDoc, SameOutside, SameMode, SameScheduler, SamePause, SameWait, SameStack,
                      SameRunner, SameLoad, IsDoc, Fields
<1>3. insert(d, tokens) = pumpTokenizerIfPossible(e, "ForceSynchronous")
  BY DEF insert, isStopped, Busy
<1> HIDE DEF i, m
<1>4. SameButCounters(m, i) /\ m.calls = d.calls
  BY <1>1, <1>2 DEF SameButCounters, SameStack, Asserted, SameDoc
<1>5. m.state = "parsing" /\ Tokens(m) = Tokens(d) /\ "stopParsing" \notin Names(d.calls)
  <2>1. "insertScripts" \in Names(d.calls) /\ "insertScripts" \notin LastPump
    BY TopIn DEF FitsBut, LastPump
  <2> QED BY <1>1, <2>1, InScript DEF SameDoc, SameOutside, SameMode, Busy, Tokens
<1>6. StackedBut(i, 0, 0, 0)
  <2>1. StackedBut(m, 0, 0, 0)
    BY <1>1 DEF FitsBut
  <2>2. i.input \in Seq(Seq(Tokens(d))) /\ Len(i.input) = Len(m.input)
    <3>1. m.input \in Seq(Seq(Tokens(d))) /\ Len(m.input) > 0
      BY <1>5, <2>1 DEF StackedBut
    <3>2. m.input[1] \in Seq(Tokens(d)) /\ m.input[1] \o tokens \in Seq(Tokens(d))
      BY <3>1
    <3> QED BY <1>2, <3>1, <3>2
  <2>3. Tokens(i) = Tokens(d)
    BY <1>2, <1>5 DEF SameOutside, SameMode, Tokens
  <2> QED BY <1>2, <1>5, <2>1, <2>2, <2>3 DEF StackedBut, SameStack
<1>7. /\ FitsBut(i, 0, 0, 0) /\ Tokens(i) = Tokens(d)
      /\ isScheduledForResume(i) <=> isScheduledForResume(m)
  BY <1>1, <1>4, <1>5, <1>6, RecountFits
<1>8. /\ i.calls = d.calls /\ i.state = "parsing" /\ ~i.suspended /\ i.script = NoToken
      /\ i.blocking = NoToken /\ i.watching = d.watching /\ ~isScheduledForResume(i)
  BY <1>1, <1>2, <1>7 DEF SameStack, SameDoc, SameOutside, SameMode, SamePause, SameWait, SameScheduler,
                    isScheduledForResume, Busy
<1>9. /\ Pushable(i.calls, "endInsert", NoToken, Tokens(i))
      /\ AdmitsWith(i, Names(i.calls) \cup {"endInsert"})
      /\ "endInsert" \in StepNames \ (Nested \cup Pumped \cup Split)
  <2>1. Pushable(i.calls, "endInsert", NoToken, Tokens(i))
    BY <1>8 DEF Pushable, Calls, First, Outermost
  <2>2. AdmitsWith(i, Names(i.calls)) /\ ModeOK(i)
    BY <1>7 DEF FitsBut
  <2>3. AdmitsWith(i, Names(i.calls) \cup {"endInsert"})
    BY <1>5, <1>8, <2>2 DEF AdmitsWith, Stops, ModeOK
  <2> QED BY <2>1, <2>3 DEF StepNames, Nested, Pumped, Split
<1>10. /\ FitsBut(e, 0, 0, 0) /\ Top(e.calls) = "endInsert" /\ e.calls # <<>>
       /\ SameButCalls(i, e) /\ (isScheduledForResume(e) <=> isScheduledForResume(i))
  BY <1>7, <1>9, PushPlain
<1> HIDE DEF e
<1>11. /\ e.state = "parsing" /\ ~e.suspended /\ e.script = NoToken
       /\ e.blocking = NoToken /\ e.watching = d.watching /\ ~isScheduledForResume(e)
  BY <1>8, <1>10 DEF SameButCalls, SameOutside, SameMode, SamePause, SameWait
<1>12. Watched(e) /\ Before(e, "endInsert")
  BY <1>11 DEF Watched, Before, Busy, Bottom
<1>13. Calls("endInsert", "endPump") /\ "ForceSynchronous" \in Modes
  BY DEF Calls, Modes
<1> QED BY <1>3, <1>10, <1>11, <1>12, <1>13, PumpTokenizerIfPossibleGoes

\* What the parser may be doing when it executes a script.
CanExecute(d) ==
    IF d.state = "parsing" THEN Busy(d) /\ d.blocking = NoToken ELSE d.watching = {}

LEMMA ExecuteScriptGoes ==
    ASSUME NEW d, FitsBut(d, 0, 0, 0), Watched(d), ~d.suspended, CanExecute(d),
           d.calls # <<>>, Top(d.calls) \in Nested, NEW script \in Tokens(d)
    PROVE  Goes(executeScript(d, script))
<1> DEFINE t == [d EXCEPT !.tree = Append(@, script), !.now = @ \cup {<<"ran", script>>}]
           e == later(t, "insertScripts", script)
<1>1. SameDoc(d, t)
  BY DEF SameDoc, SameOutside, SameMode, SameScheduler, SamePause, SameWait, SameStack, SameRunner,
         SameLoad, Asserted, IsDoc, Fields, FitsBut
<1>2. executeScript(d, script) = IF hasInsertionPoint(d) /\ d.page.writes[script] # <<>>
                                 THEN insert(e, d.page.writes[script]) ELSE e
  BY DEF executeScript
<1> HIDE DEF t
<1>3. FitsBut(t, 0, 0, 0) /\ Tokens(t) = Tokens(d) /\ t.calls = d.calls
  BY <1>1, SameFits DEF SameDoc, SameStack, SameOutside, SameMode, Tokens
<1>4. Top(d.calls) \in Names(d.calls) /\ Top(d.calls) \notin LastPump
  BY TopIn DEF FitsBut, LastPump, Nested
<1>5. /\ d.parsing /\ "stopParsing" \notin Names(d.calls)
      /\ d.state # "parsing" => Quiet(d) /\ Names(d.calls) \subseteq StopSteps
  BY <1>4, InScript
<1>6. /\ t.state = d.state /\ t.parsing = d.parsing /\ t.suspended = d.suspended /\ t.script = d.script
      /\ t.blocking = d.blocking /\ t.watching = d.watching
      /\ isScheduledForResume(t) <=> isScheduledForResume(d)
  BY <1>1 DEF SameDoc, SameOutside, SameMode, SamePause, SameWait, SameScheduler, isScheduledForResume
<1>7. ~isScheduledForResume(d)
  BY <1>5 DEF CanExecute, Busy, Quiet
<1>8. /\ Pushable(t.calls, "insertScripts", script, Tokens(t))
      /\ AdmitsWith(t, Names(t.calls) \cup {"insertScripts"})
      /\ "insertScripts" \in StepNames \ (Nested \cup Pumped \cup Split)
  <2>1. Pushable(t.calls, "insertScripts", script, Tokens(t))
    BY <1>3 DEF Pushable, Calls, First, Outermost, Nested
  <2>2. AdmitsWith(t, Names(t.calls))
    BY <1>3 DEF FitsBut
  <2>3. AdmitsWith(t, Names(t.calls) \cup {"insertScripts"})
    BY <1>3, <1>5, <1>6, <1>7, <2>2 DEF AdmitsWith, Stops, StopSteps
  <2> QED BY <2>1, <2>3 DEF StepNames, Nested, Pumped, Split
<1>9. /\ FitsBut(e, 0, 0, 0) /\ Top(e.calls) = "insertScripts" /\ e.calls # <<>>
      /\ Names(e.calls) = Names(d.calls) \cup {"insertScripts"} /\ Tokens(e) = Tokens(d)
      /\ SameButCalls(t, e) /\ (isScheduledForResume(e) <=> isScheduledForResume(t))
  BY <1>3, <1>8, PushPlain
<1> HIDE DEF e
<1>10. /\ e.state = d.state /\ e.suspended = d.suspended /\ e.script = d.script
       /\ e.blocking = d.blocking /\ e.watching = d.watching /\ e.afterParsing = d.afterParsing
       /\ ~isScheduledForResume(e)
  BY <1>1, <1>6, <1>7, <1>9 DEF SameButCalls, SameOutside, SameMode, SamePause, SameWait, SameDoc
<1>11. Watched(e)
  BY <1>10 DEF Watched
<1>12. Before(e, "insertScripts")
  BY <1>10, <1>11 DEF Before, Bottom, CanExecute, Busy
<1>13. Goes(e)
  BY <1>9, <1>10, <1>12 DEF Goes, DocOK
<1>14. ASSUME hasInsertionPoint(d) PROVE Goes(insert(e, d.page.writes[script]))
  <2>1. d.state = "parsing"
    <3>1. SUFFICES ASSUME d.state # "parsing" PROVE FALSE
      OBVIOUS
    <3>2. Names(d.calls) \cap Split = {}
      BY <1>5, <3>1 DEF StopSteps, Split
    <3>3. Count(d.calls, Split) = 0 /\ Len(d.input) = 1 + Count(d.calls, Split) + 0
      BY <3>2, Counts DEF FitsBut, StackedBut
    <3> QED BY <1>14, <3>3 DEF hasInsertionPoint
  <2>2. Busy(e) /\ e.blocking = NoToken /\ Names(e.calls) \cap Nested # {}
    BY <1>4, <1>9, <1>10, <2>1 DEF CanExecute, Busy
  <2>3. d.page.writes[script] \in Seq(Tokens(e))
    BY <1>9, PageFacts DEF FitsBut
  <2> QED BY <1>9, <1>10, <1>11, <2>2, <2>3, InsertGoes
<1> QED BY <1>2, <1>13, <1>14

LEMMA ExecutePendingScriptGoes ==
    ASSUME NEW d, FitsBut(d, 0, 0, 0), ~d.suspended,
           NEW script \in Tokens(d), d.watching \subseteq {script},
           d.state = "parsing" => Busy(d) /\ d.blocking = NoToken,
           d.calls # <<>>, Names(d.calls) \cap Nested = {},
           Top(d.calls) \in {"nextBlockingScript", "executeScriptsWaitingForParsing"}
    PROVE  Goes(executePendingScript(d, script))
<1> DEFINE o == IF script \in d.loaded THEN addArc(d, d.loadAction[script]) ELSE d
           w == [o EXCEPT !.watching = @ \ {script}, !.nesting = @ + 1]
           e == later(w, "leaveOutermost", NoToken)
<1>1. SameDoc(d, o)
  <2>1. SameDoc(d, d)
    BY DEF SameDoc, SameOutside, SameMode, SameScheduler, SamePause, SameWait, SameStack, SameRunner,
           SameLoad, FitsBut
  <2> QED BY <2>1, LabelsOnly DEF FitsBut
<1>2. executePendingScript(d, script) = IF script \in d.page.failing THEN dispatchErrorEvent(e, script)
                                        ELSE executeScript(e, script)
  BY DEF executePendingScript
<1> HIDE DEF o
<1>3. /\ FitsBut(o, 0, 0, 0) /\ Tokens(o) = Tokens(d) /\ o.calls = d.calls /\ o.state = d.state
      /\ o.watching = d.watching
  BY <1>1, SameFits DEF SameDoc, SameStack, SameOutside, SameMode, Tokens, SameWait
<1>4. /\ SameOutside(o, w) /\ SamePause(o, w) /\ w.calls = o.calls /\ w.input = o.input
      /\ w.nesting = o.nesting + 1 /\ w.pumps = o.pumps /\ w.requests = o.requests
      /\ w.failed = o.failed /\ w.watching = o.watching \ {script} /\ w.blocking = o.blocking
      /\ w.waitsForSheets = o.waitsForSheets /\ w.afterParsing = o.afterParsing
  BY <1>3 DEF SameOutside, SameMode, SameScheduler, SamePause, SameRunner, SameLoad, IsDoc, Fields,
              FitsBut
<1> HIDE DEF w
<1>5. Top(d.calls) \in Names(d.calls) /\ Top(d.calls) \notin LastPump
  BY TopIn DEF FitsBut, LastPump
<1>6. /\ d.parsing /\ "stopParsing" \notin Names(d.calls)
      /\ d.state # "parsing" => Quiet(d) /\ Names(d.calls) \subseteq StopSteps
  BY <1>5, InScript
<1>7. ~isScheduledForResume(d)
  BY <1>6 DEF Busy, Quiet
<1>8. /\ FitsBut(w, 1, 0, 0) /\ Tokens(w) = Tokens(d)
      /\ isScheduledForResume(w) <=> isScheduledForResume(o)
  <2>1. Tokens(w) = Tokens(o)
    BY <1>4 DEF SameOutside, SameMode, Tokens
  <2>2. PauseOK(w) /\ WaitOK(w)
    BY <1>3, <1>4, <2>1 DEF FitsBut, PauseOK, WaitOK, SamePause, SameOutside, SameMode
  <2>3. QuietOK(w)
    BY <1>3, <1>4 DEF FitsBut, QuietOK, Quiet, SamePause, SameOutside, SameMode, SameScheduler,
                      isScheduledForResume
  <2>4. StackedBut(w, 1, 0, 0)
    <3>1. StackedBut(o, 0, 0, 0) /\ Count(o.calls, Nested) \in Nat
      BY <1>3, Counts DEF FitsBut
    <3> QED BY <1>4, <2>1, <3>1 DEF StackedBut
  <2> QED BY <1>3, <1>4, <2>2, <2>3, <2>4, ParserFits DEF Asserted
<1>9. /\ w.calls = d.calls /\ w.state = d.state /\ w.parsing = d.parsing /\ w.suspended = d.suspended
      /\ w.script = d.script /\ w.blocking = d.blocking /\ w.watching = {}
      /\ ~isScheduledForResume(w)
  BY <1>1, <1>3, <1>4, <1>7, <1>8 DEF SameDoc, SameOutside, SameMode, SamePause, SameWait,
                                      SameScheduler, isScheduledForResume
<1>10. /\ Pushable(w.calls, "leaveOutermost", NoToken, Tokens(w))
       /\ AdmitsWith(w, Names(w.calls) \cup {"leaveOutermost"})
  <2>1. Pushable(w.calls, "leaveOutermost", NoToken, Tokens(w))
    BY <1>9 DEF Pushable, Calls, First, Outermost
  <2>2. AdmitsWith(w, Names(w.calls))
    BY <1>8 DEF FitsBut
  <2>3. AdmitsWith(w, Names(w.calls) \cup {"leaveOutermost"})
    BY <1>6, <1>9, <2>2 DEF AdmitsWith, Stops, StopSteps
  <2> QED BY <2>1, <2>3
<1>11. /\ FitsBut(e, 0, 0, 0) /\ Top(e.calls) = "leaveOutermost" /\ e.calls # <<>>
       /\ Tokens(e) = Tokens(w)
       /\ SameButCalls(w, e) /\ (isScheduledForResume(e) <=> isScheduledForResume(w))
  <2>1. 0 \in Int /\ 1 \in Int
    OBVIOUS
  <2> QED BY <1>8, <1>10, <2>1, PushCounted
<1> HIDE DEF e
<1>12. /\ e.state = d.state /\ e.suspended = d.suspended /\ e.script = d.script
       /\ e.blocking = d.blocking /\ e.watching = {} /\ ~isScheduledForResume(e)
  BY <1>9, <1>11 DEF SameButCalls, SameOutside, SameMode, SamePause, SameWait
<1>13. Watched(e) /\ CanExecute(e) /\ script \in Tokens(e) /\ "leaveOutermost" \in Nested
  BY <1>8, <1>11, <1>12 DEF Watched, CanExecute, Busy, Nested
<1>14. Goes(executeScript(e, script))
  BY <1>11, <1>12, <1>13, ExecuteScriptGoes
<1> DEFINE x == dispatchErrorEvent(e, script)
<1>15. SameDoc(e, x)
  BY <1>11 DEF SameDoc, SameOutside, SameMode, SameScheduler, SamePause, SameWait, SameStack, SameRunner,
               SameLoad, Asserted, IsDoc, Fields, FitsBut, dispatchErrorEvent
<1> HIDE DEF x
<1>16. Before(e, "leaveOutermost")
  BY <1>12, <1>13 DEF Before, Bottom, Busy
<1>17. FitsBut(x, 0, 0, 0) /\ Before(x, "leaveOutermost") /\ x.calls = e.calls /\ x.suspended = e.suspended
  BY <1>11, <1>15, <1>16, SameFits DEF SameDoc, SameStack, SameOutside, SameMode
<1>18. Goes(dispatchErrorEvent(e, script))
  BY <1>11, <1>12, <1>17 DEF Goes, DocOK, x
<1> QED BY <1>2, <1>14, <1>18

\* The input when an insertion point is opened and when it is closed.
LEMMA SplitSeq ==
    ASSUME NEW T, NEW input \in Seq(Seq(T)), Len(input) > 0
    PROVE  << <<>> >> \o input \in Seq(Seq(T)) /\ Len(<< <<>> >> \o input) = Len(input) + 1
<1>1. << <<>> >> \in Seq(Seq(T)) /\ Len(<< <<>> >>) = 1
  OBVIOUS
<1> QED BY <1>1

LEMMA MergeSeq ==
    ASSUME NEW T, NEW input \in Seq(Seq(T)), Len(input) > 1
    PROVE  LET merged == <<input[1] \o input[2]>> \o SubSeq(input, 3, Len(input))
           IN  merged \in Seq(Seq(T)) /\ Len(merged) = Len(input) - 1
<1> DEFINE a == <<input[1] \o input[2]>>
           b == SubSeq(input, 3, Len(input))
<1>1. Len(input) \in Nat /\ input[1] \in Seq(T) /\ input[2] \in Seq(T)
  OBVIOUS
<1>2. input[1] \o input[2] \in Seq(T)
  BY <1>1
<1>3. a \in Seq(Seq(T)) /\ Len(a) = 1
  BY <1>2
<1>4. b \in Seq(Seq(T)) /\ Len(b) = IF 3 <= Len(input) THEN Len(input) - 3 + 1 ELSE 0
  <2>1. \A i \in 3..Len(input) : input[i] \in Seq(T)
    BY <1>1
  <2> QED BY <1>1, <2>1, SubSeqProperties
<1> HIDE DEF a, b
<1>5. a \o b \in Seq(Seq(T)) /\ Len(a \o b) = Len(a) + Len(b)
  BY <1>3, <1>4, ConcatProperties
<1>6. Len(a) + Len(b) = Len(input) - 1
  <2>1. CASE 3 <= Len(input)
    BY <1>1, <1>3, <1>4, <2>1
  <2>2. CASE ~(3 <= Len(input))
    <3>1. Len(b) = 0
      BY <1>4, <2>2
    <3>2. \A n \in Nat : n > 1 /\ ~(3 <= n) => 1 + 0 = n - 1
      OBVIOUS
    <3> QED BY <1>1, <1>3, <2>2, <3>1, <3>2
  <2> QED BY <2>1, <2>2
<1> QED BY <1>5, <1>6 DEF a, b

LEMMA ExecuteParsingBlockingScriptsGoes ==
    ASSUME NEW d, FitsBut(d, 0, 0, 0), Watched(d), ~d.suspended, Busy(d),
           d.calls # <<>>, Names(d.calls) \cap Nested = {},
           Top(d.calls) \in {"pauseIfBlocked", "resumeUnlessBlocked"}
    PROVE  Goes(executeParsingBlockingScripts(d))
<1> DEFINE a == [d EXCEPT !.waitsForSheets = d.sheets # {}]
           q == check(a, d.nesting = 0)
           b == [q EXCEPT !.blocking = NoToken]
           i == splitInput(b)
           e == later(i, "nextBlockingScript", NoToken)
<1>1. "stopParsing" \notin Names(d.calls) /\ d.parsing
  <2>1. Top(d.calls) \in Names(d.calls) /\ Top(d.calls) \notin LastPump
    BY TopIn DEF FitsBut, LastPump
  <2> QED BY <2>1, InScript
<1>2. CASE ~haveParsingBlockingScript(d)
  <2>1. executeParsingBlockingScripts(d) = d
    BY <1>2 DEF executeParsingBlockingScripts
  <2>2. Before(d, Top(d.calls))
    BY DEF Before, Busy, Bottom
  <2> QED BY <2>1, <2>2 DEF Goes, DocOK
<1>3. /\ SameOutside(d, a) /\ SamePause(d, a) /\ SameStack(d, a) /\ a.input = d.input
      /\ a.requests = d.requests /\ a.failed = d.failed /\ a.watching = d.watching
      /\ a.blocking = d.blocking /\ a.waitsForSheets = (d.sheets # {})
      /\ a.afterParsing = d.afterParsing /\ a.sheets = d.sheets
  BY DEF SameOutside, SameMode, SameScheduler, SamePause, SameRunner, SameLoad, SameStack, IsDoc, Fields,
         FitsBut
<1>4. Tokens(a) = Tokens(d) /\ StackedBut(a, 0, 0, 0) /\ PauseOK(a) /\ QuietOK(a)
  <2>1. Tokens(a) = Tokens(d)
    BY <1>3 DEF SameOutside, SameMode, Tokens
  <2> QED BY <1>1, <1>3, <2>1 DEF FitsBut, StackedBut, SameStack, PauseOK, SamePause, SameOutside, SameMode,
                           QuietOK, Busy
<1>5. CASE haveParsingBlockingScript(d) /\ ~isPendingScriptReady(a, d.blocking)
  <2>1. executeParsingBlockingScripts(d) = a
    BY <1>5 DEF executeParsingBlockingScripts
  <2> HIDE DEF a
  <2>2. WaitOK(a)
    BY <1>3, <1>4, <1>5 DEF FitsBut, WaitOK, SameOutside, SameMode, haveParsingBlockingScript
  <2>3. FitsBut(a, 0, 0, 0) /\ (isScheduledForResume(a) <=> isScheduledForResume(d))
    BY <1>3, <1>4, <2>2, ParserFits DEF SameStack, Asserted
  <2>4. Before(a, Top(a.calls)) /\ ~a.suspended
    BY <1>3, <2>3 DEF Before, Busy, Bottom, SameStack, SamePause, SameOutside, SameMode, Watched
  <2> QED BY <2>1, <2>3, <2>4 DEF Goes, DocOK
<1>6. CASE haveParsingBlockingScript(d) /\ isPendingScriptReady(a, d.blocking)
  <2>1. executeParsingBlockingScripts(d) = executePendingScript(e, d.blocking)
    BY <1>6 DEF executeParsingBlockingScripts
  <2>2. a.waitsForSheets = FALSE
    <3>1. d.sheets = {}
      BY <1>3, <1>6 DEF isPendingScriptReady
    <3>2. (d.sheets # {}) = FALSE
      BY <3>1, Zenon
    <3>3. a.waitsForSheets = (d.sheets # {})
      BY <1>3
    <3> HIDE DEF a
    <3> QED BY <3>2, <3>3, Zenon
  <2> HIDE DEF a
  <2>13. SameDoc(a, q)
    <3>1. d.nesting = 0
      BY NotNested
    <3> QED BY <1>3, <3>1, CheckHolds DEF SameOutside
  <2> HIDE DEF q
  <2>14. /\ SameOutside(q, i) /\ SamePause(q, i) /\ SameStack(q, i)
         /\ i.input = << <<>> >> \o q.input
         /\ i.requests = q.requests /\ i.failed = q.failed /\ i.watching = q.watching
         /\ i.blocking = NoToken /\ i.waitsForSheets = q.waitsForSheets
         /\ i.afterParsing = q.afterParsing
    BY <2>13 DEF SameDoc, SameOutside, SameMode, SameScheduler, SamePause, SameRunner, SameLoad, SameStack,
           IsDoc, Fields, splitInput
  <2> HIDE DEF b, i
  <2>3. /\ SameOutside(a, i) /\ SamePause(a, i) /\ SameStack(a, i)
        /\ i.input = << <<>> >> \o a.input
        /\ i.requests = a.requests /\ (Asserted(a) => Asserted(i)) /\ i.watching = a.watching
        /\ i.blocking = NoToken /\ i.waitsForSheets = a.waitsForSheets
        /\ i.afterParsing = a.afterParsing
    BY <2>13, <2>14 DEF SameDoc, SameOutside, SameMode, SameScheduler, SamePause, SameRunner, SameLoad,
           SameStack, SameWait, Asserted
  <2>4. /\ SameOutside(d, i) /\ i.calls = d.calls /\ Tokens(i) = Tokens(d)
        /\ i.requests = d.requests /\ (Asserted(d) => Asserted(i))
    BY <1>3, <1>4, <2>3 DEF SameOutside, SameMode, SameScheduler, SameRunner, SameLoad, SameStack, Tokens,
           Asserted
  <2>5. PauseOK(i) /\ WaitOK(i) /\ QuietOK(i)
    BY <1>1, <1>3, <2>2, <2>3, <2>4
      DEF FitsBut, PauseOK, WaitOK, QuietOK, SamePause, SameOutside, SameMode, Busy
  <2>6. StackedBut(i, 0, 0, 1)
    <3>1. a.input \in Seq(Seq(Tokens(d))) /\ Len(a.input) > 0
      BY <1>4 DEF StackedBut
    <3>2. i.input \in Seq(Seq(Tokens(d))) /\ Len(i.input) = Len(a.input) + 1
      BY <2>3, <3>1, SplitSeq
    <3>3. \A names : Count(a.calls, names) \in Nat
      BY <1>4, Counts
    <3>4. Len(a.input) + 1 = 1 + Count(a.calls, Split) + 1
      BY <1>4, <3>3 DEF StackedBut
    <3>5. Len(i.input) > 0
      BY <3>1, <3>2
    <3> QED BY <1>4, <2>3, <2>4, <3>2, <3>4, <3>5 DEF StackedBut, SameStack
  <2>7. /\ FitsBut(i, 0, 0, 1) /\ (isScheduledForResume(i) <=> isScheduledForResume(d))
    BY <2>4, <2>5, <2>6, ParserFits
  <2>8. /\ i.state = "parsing" /\ i.suspended = d.suspended /\ i.script = d.script
        /\ i.watching = d.watching /\ i.parsing = d.parsing
    BY <1>3, <2>3, <2>4 DEF SameOutside, SameMode, SamePause, Busy
  <2>9. /\ Pushable(i.calls, "nextBlockingScript", NoToken, Tokens(i))
        /\ AdmitsWith(i, Names(i.calls) \cup {"nextBlockingScript"})
    <3>1. Pushable(i.calls, "nextBlockingScript", NoToken, Tokens(i))
      BY <2>4 DEF Pushable, Calls, First, Outermost
    <3>2. AdmitsWith(i, Names(i.calls))
      BY <2>7 DEF FitsBut
    <3>3. AdmitsWith(i, Names(i.calls) \cup {"nextBlockingScript"})
      BY <1>1, <2>4, <2>7, <2>8, <3>2 DEF AdmitsWith, Stops, Busy
    <3> QED BY <3>1, <3>3
  <2>10. /\ FitsBut(e, 0, 0, 0) /\ Top(e.calls) = "nextBlockingScript" /\ e.calls # <<>>
         /\ Names(e.calls) = Names(d.calls) \cup {"nextBlockingScript"} /\ Tokens(e) = Tokens(d)
         /\ SameButCalls(i, e) /\ (isScheduledForResume(e) <=> isScheduledForResume(i))
    <3>1. 0 \in Int /\ 1 \in Int
      OBVIOUS
    <3> QED BY <2>4, <2>7, <2>9, <3>1, PushCounted
  <2> HIDE DEF e
  <2>11. /\ e.state = "parsing" /\ ~e.suspended /\ e.script = NoToken
         /\ e.blocking = NoToken /\ e.watching = d.watching /\ ~isScheduledForResume(e)
    BY <2>3, <2>7, <2>8, <2>10 DEF SameButCalls, SameOutside, SameMode, SamePause, SameWait, Busy
  <2>12. /\ Busy(e) /\ e.watching \subseteq {d.blocking} /\ Names(e.calls) \cap Nested = {}
         /\ d.blocking \in Tokens(e)
    BY <1>6, <2>10, <2>11 DEF Busy, Watched, Nested, FitsBut, WaitOK, haveParsingBlockingScript
  <2> QED BY <2>1, <2>10, <2>11, <2>12, ExecutePendingScriptGoes
<1> QED BY <1>2, <1>5, <1>6

LEMMA PrepareScriptGoes ==
    ASSUME NEW d, FitsBut(d, 0, 0, 0), Watched(d), ~d.suspended, Busy(d), d.blocking = NoToken,
           d.calls # <<>>, Top(d.calls) = "endRunScript",
           NEW script \in Tokens(d), d.page.kind[script] \in ScriptKinds
    PROVE  Goes(prepareScript(d, script))
<1>1. "stopParsing" \notin Names(d.calls) /\ d.parsing
  <2>1. Top(d.calls) \in Names(d.calls) /\ Top(d.calls) \notin LastPump
    BY TopIn DEF FitsBut, LastPump
  <2> QED BY <2>1, InScript
<1>2. d.watching = {} /\ NoToken \notin Tokens(d)
  BY PageFacts DEF FitsBut, Watched, Busy, WaitOK
<1>3. ASSUME NEW e, SameOutside(d, e), SamePause(d, e), SameStack(d, e), e.input = d.input,
             e.failed = d.failed, WaitOK(e), e.watching \subseteq {e.blocking},
             e.requests \subseteq Tokens(d)
      PROVE  Goes(e)
  <2>1. Tokens(e) = Tokens(d) /\ e.state = "parsing" /\ ~e.suspended /\ e.calls = d.calls
    BY <1>3 DEF SameOutside, SameMode, Tokens, Busy, SameStack
  <2>2. PauseOK(e) /\ QuietOK(e) /\ StackedBut(e, 0, 0, 0)
    BY <1>1, <1>3, <2>1 DEF FitsBut, PauseOK, SamePause, QuietOK, StackedBut, SameStack, SameOutside, SameMode
  <2>3. FitsBut(e, 0, 0, 0) /\ (isScheduledForResume(e) <=> isScheduledForResume(d))
    BY <1>1, <1>3, <2>1, <2>2, ParserFits DEF Asserted
  <2>4. Before(e, Top(e.calls))
    BY <1>3, <2>1, <2>3 DEF Before, Busy, Bottom, SamePause, Watched
  <2> QED BY <2>1, <2>3, <2>4 DEF Goes, DocOK
<1>4. CASE d.page.kind[script] = "inline" /\ (d.sheets = {} \/ d.nesting > 1)
  <2>1. prepareScript(d, script) = executeScript(d, script)
    BY <1>4 DEF prepareScript
  <2>2. CanExecute(d) /\ Top(d.calls) \in Nested
    BY DEF CanExecute, Busy, Nested
  <2> QED BY <2>1, <2>2, ExecuteScriptGoes
<1>5. CASE d.page.kind[script] = "inline" /\ ~(d.sheets = {} \/ d.nesting > 1)
  <2> DEFINE e == [d EXCEPT !.blocking = script]
  <2>1. prepareScript(d, script) = e
    BY <1>5 DEF prepareScript
  <2>2. /\ SameOutside(d, e) /\ SamePause(d, e) /\ SameStack(d, e) /\ e.input = d.input
        /\ e.failed = d.failed /\ e.requests = d.requests /\ e.watching = d.watching
        /\ e.blocking = script /\ e.waitsForSheets = d.waitsForSheets /\ e.afterParsing = d.afterParsing
    BY DEF FitsBut, SameOutside, SameMode, SameScheduler, SamePause, SameStack, SameRunner, SameLoad, IsDoc, Fields
  <2> HIDE DEF e
  <2>3. WaitOK(e) /\ e.requests \subseteq Tokens(d)
    BY <1>2, <2>2 DEF FitsBut, LoadOK, WaitOK, SameOutside, SameMode, Tokens
  <2> QED BY <1>2, <1>3, <2>1, <2>2, <2>3
<1>6. CASE d.page.kind[script] = "external"
  <2> DEFINE e == [request(d, {script}) EXCEPT !.blocking = script,
                      !.watching = IF script \in d.loaded THEN @ ELSE @ \cup {script}]
  <2>1. prepareScript(d, script) = e
    BY <1>6 DEF prepareScript
  <2>2. /\ SameOutside(d, e) /\ SamePause(d, e) /\ SameStack(d, e) /\ e.input = d.input
        /\ e.failed = d.failed /\ e.requests = d.requests \cup ({script} \ d.requested)
        /\ e.watching \subseteq d.watching \cup {script}
        /\ e.blocking = script /\ e.waitsForSheets = d.waitsForSheets /\ e.afterParsing = d.afterParsing
    BY DEF FitsBut, SameOutside, SameMode, SameScheduler, SamePause, SameStack, SameRunner, SameLoad, IsDoc, Fields,
           request
  <2> HIDE DEF e
  <2>3. WaitOK(e) /\ e.requests \subseteq Tokens(d)
    BY <1>2, <2>2 DEF FitsBut, LoadOK, WaitOK, SameOutside, SameMode, Tokens
  <2> QED BY <1>2, <1>3, <2>1, <2>2, <2>3
<1>7. CASE d.page.kind[script] = "defer"
  <2> DEFINE e == [request(d, {script}) EXCEPT !.afterParsing = Append(@, script)]
  <2>1. prepareScript(d, script) = e
    BY <1>7 DEF prepareScript
  <2>2. /\ SameOutside(d, e) /\ SamePause(d, e) /\ SameStack(d, e) /\ e.input = d.input
        /\ e.failed = d.failed /\ e.requests = d.requests \cup ({script} \ d.requested)
        /\ e.watching = d.watching /\ e.blocking = d.blocking
        /\ e.waitsForSheets = d.waitsForSheets /\ e.afterParsing = Append(d.afterParsing, script)
    BY DEF FitsBut, SameOutside, SameMode, SameScheduler, SamePause, SameStack, SameRunner, SameLoad, IsDoc, Fields,
           request
  <2> HIDE DEF e
  <2>3. Append(d.afterParsing, script) \in Seq(Tokens(d))
    BY DEF FitsBut, WaitOK
  <2>4. WaitOK(e) /\ e.requests \subseteq Tokens(d)
    BY <1>1, <1>2, <2>2, <2>3 DEF FitsBut, LoadOK, WaitOK, SameOutside, SameMode, Tokens
  <2> QED BY <1>2, <1>3, <2>1, <2>2, <2>4
<1>8. CASE d.page.kind[script] = "async"
  <2> DEFINE e == queueScriptForExecution(d, script)
  <2>1. prepareScript(d, script) = e
    BY <1>8 DEF prepareScript
  <2> HIDE DEF e
  <2>2. Queues(d, e, 0)
    BY QueueScriptDoes DEF e, FitsBut, LoadOK
  <2>3. Before(d, "endRunScript")
    BY DEF Before, Busy, Bottom
  <2>4. FitsBut(e, 0, 0, 0) /\ Before(e, "endRunScript") /\ e.calls = d.calls /\ ~e.suspended
    BY <1>1, <2>2, <2>3, QueueFits
  <2> QED BY <2>1, <2>4 DEF Goes, DocOK
<1> QED BY <1>4, <1>5, <1>6, <1>7, <1>8 DEF ScriptKinds

LEMMA ExecuteGoes ==
    ASSUME NEW d, FitsBut(d, 0, 0, 0), Watched(d), ~d.suspended, Busy(d), d.blocking = NoToken,
           d.calls # <<>>, Top(d.calls) = "pauseIfBlocked",
           NEW script \in Tokens(d), d.page.kind[script] \in ScriptKinds
    PROVE  Goes(execute(d, script))
<1> DEFINE c == check(d, ~haveParsingBlockingScript(d))
           i == splitInput(c)
           o == later(i, "endRunScript", NoToken)
           e == [o EXCEPT !.nesting = @ + 1]
<1>1. execute(d, script) = prepareScript(e, script)
  BY DEF execute
<1>2. SameDoc(d, c)
  BY CheckHolds DEF FitsBut, haveParsingBlockingScript
<1> HIDE DEF c
<1>3. /\ SameOutside(c, e) /\ SamePause(c, e) /\ SameWait(c, e) /\ e.input = << <<>> >> \o c.input
      /\ e.requests = c.requests /\ e.failed = c.failed /\ e.nesting = c.nesting + 1
      /\ e.pumps = c.pumps /\ e.calls = Append(c.calls, [name |-> "endRunScript", arg |-> NoToken])
  BY <1>2 DEF SameDoc, SameOutside, SameMode, SameScheduler, SamePause, SameWait, SameRunner, SameLoad, IsDoc, Fields,
              splitInput, later
<1> HIDE DEF e, o, i
<1>4. "stopParsing" \notin Names(d.calls) /\ d.parsing
  <2>1. Top(d.calls) \in Names(d.calls) /\ Top(d.calls) \notin LastPump
    BY TopIn DEF FitsBut, LastPump
  <2> QED BY <2>1, InScript
<1>5. /\ FitsBut(c, 0, 0, 0) /\ Tokens(c) = Tokens(d) /\ c.calls = d.calls /\ c.state = "parsing"
      /\ (isScheduledForResume(c) <=> isScheduledForResume(d)) /\ c.parsing = d.parsing
  BY <1>2, SameFits DEF SameDoc, SameStack, SameOutside, SameMode, Tokens, SameWait, Busy, SameScheduler,
                        isScheduledForResume
<1> DEFINE T == Tokens(d)
<1>6. /\ e.calls \in Seq(Frames(T)) /\ e.calls # <<>> /\ StackOK(e.calls, T)
      /\ Names(e.calls) = Names(d.calls) \cup {"endRunScript"} /\ Top(e.calls) = "endRunScript"
      /\ \A names : /\ Count(d.calls, names) \in Nat
                    /\ Count(e.calls, names) = Count(d.calls, names) + Bit("endRunScript", names)
  <2>1. d.calls \in Seq(Frames(T)) /\ StackOK(d.calls, T) /\ NoToken \in T \cup Modes \cup {NoToken}
    BY DEF FitsBut, StackedBut
  <2>2. Pushable(d.calls, "endRunScript", NoToken, T) /\ "endRunScript" \in StepNames
    BY DEF Pushable, Calls, First, Outermost, StepNames
  <2>3. e.calls = Append(d.calls, [name |-> "endRunScript", arg |-> NoToken])
    BY <1>3, <1>5
  <2> HIDE DEF T
  <2> DEFINE a == d.calls
  <2> HIDE DEF a
  <2>4. LET g == Append(a, [name |-> "endRunScript", arg |-> NoToken])
        IN  /\ g \in Seq(Frames(T)) /\ g # <<>>
            /\ Names(g) = Names(a) \cup {"endRunScript"} /\ Top(g) = "endRunScript"
            /\ StackOK(g, T)
            /\ \A names : /\ Count(a, names) \in Nat
                          /\ Count(g, names) = Count(a, names) + Bit("endRunScript", names)
    BY <2>1, <2>2, Pushed DEF Bit, a
  <2> QED BY <2>3, <2>4, Zenon DEF a
<1>7. StackedBut(e, 0, 0, 0) /\ Tokens(e) = T
  <2>1. StackedBut(c, 0, 0, 0) /\ Tokens(e) = T
    BY <1>3, <1>5 DEF FitsBut, SameOutside, SameMode, Tokens
  <2>2. c.input \in Seq(Seq(T)) /\ Len(c.input) > 0
    BY <1>5, <2>1 DEF StackedBut
  <2>3. e.input \in Seq(Seq(T)) /\ Len(e.input) = Len(c.input) + 1 /\ Len(e.input) > 0
    BY <1>3, <2>2, SplitSeq
  <2>4. /\ c.nesting \in Nat /\ c.pumps \in Nat /\ c.nesting = Count(d.calls, Nested) + 0
        /\ c.pumps = Count(d.calls, Pumped) + 0 /\ Len(c.input) = 1 + Count(d.calls, Split) + 0
    BY <1>5, <2>1 DEF StackedBut
  <2>5. Bit("endRunScript", Nested) = 1 /\ Bit("endRunScript", Pumped) = 0 /\ Bit("endRunScript", Split) = 1
    BY DEF Bit, Nested, Pumped, Split
  <2>6. /\ Count(d.calls, Nested) \in Nat /\ Count(e.calls, Nested) = Count(d.calls, Nested) + 1
        /\ Count(d.calls, Pumped) \in Nat /\ Count(e.calls, Pumped) = Count(d.calls, Pumped) + 0
        /\ Count(d.calls, Split) \in Nat /\ Count(e.calls, Split) = Count(d.calls, Split) + 1
    BY <1>6, <2>5
  <2>7. e.nesting \in Nat /\ e.nesting = Count(e.calls, Nested) + 0
    BY <1>3, <2>4, <2>6
  <2>8. e.pumps \in Nat /\ e.pumps = Count(e.calls, Pumped) + 0
    BY <1>3, <2>4, <2>6
  <2>9. Len(e.input) = 1 + Count(e.calls, Split) + 0
    BY <2>3, <2>4, <2>6
  <2> QED BY <1>6, <2>1, <2>3, <2>7, <2>8, <2>9 DEF StackedBut
<1>8. /\ IsDoc(e) /\ ModeOK(e) /\ SchedulerOK(e)
      /\ isScheduledForResume(e) <=> isScheduledForResume(d)
      /\ RunnerOK(e, 0) /\ PauseOK(e) /\ WaitOK(e) /\ LoadOK(e) /\ Asserted(e)
  <2>1. Asserted(e)
    BY <1>3, <1>5 DEF Asserted, FitsBut
  <2> QED BY <1>3, <1>5, <2>1, OutsideKept DEF FitsBut
<1>9. /\ e.state = "parsing" /\ ~e.suspended /\ e.script = NoToken /\ e.blocking = NoToken
      /\ e.watching = d.watching /\ e.parsing /\ e.page = d.page
  BY <1>2, <1>3, <1>4, <1>5 DEF SameDoc, SameOutside, SameMode, SamePause, SameWait, Busy
<1>10. AdmitsWith(e, Names(e.calls)) /\ QuietOK(e)
  <2>1. AdmitsWith(c, Names(d.calls))
    BY <1>5 DEF FitsBut
  <2> QED BY <1>4, <1>5, <1>6, <1>8, <1>9, <2>1 DEF AdmitsWith, Stops, Busy, QuietOK
<1>11. FitsBut(e, 0, 0, 0)
  BY <1>7, <1>8, <1>10 DEF FitsBut
<1>12. Busy(e) /\ Watched(e)
  BY <1>8, <1>9 DEF Busy, Watched
<1> QED BY <1>1, <1>6, <1>7, <1>9, <1>11, <1>12, PrepareScriptGoes

-----------------------------------------------------------------------------
(* The steps of the stack. *)

\* The step name, with arg, has been taken from the stack and is done next.
Ready(r, name, arg) ==
    /\ FitsBut(r, Bit(name, Nested), Bit(name, Pumped), Bit(name, Split))
    /\ name \in StepNames /\ arg \in Tokens(r) \cup Modes \cup {NoToken}
    /\ Pushable(r.calls, name, arg, Tokens(r)) /\ AdmitsWith(r, Names(r.calls) \cup {name})
    /\ name = "stopParsing" => Quiet(r)
    /\ Before(r, name) /\ ~r.suspended

LEMMA ReadyPlain ==
    ASSUME NEW r, NEW name, NEW arg, Ready(r, name, arg), name \notin Nested \cup Pumped \cup Split
    PROVE  FitsBut(r, 0, 0, 0)
BY DEF Ready, Bit

LEMMA RunScriptsGoes ==
    ASSUME NEW d, FitsBut(d, 0, 0, 0), Watched(d), ~d.suspended, d.state = "parsing",
           ~isScheduledForResume(d), d.blocking = NoToken, d.script # NoToken,
           d.calls # <<>>, Top(d.calls) = "pauseIfBlocked"
    PROVE  Goes(runScriptsForPausedTreeBuilder(d))
<1> DEFINE c == check(d, d.script # NoToken)
           e == [c EXCEPT !.paused = FALSE, !.script = NoToken]
<1>1. runScriptsForPausedTreeBuilder(d) = execute(e, d.script)
  BY DEF runScriptsForPausedTreeBuilder
<1>2. SameDoc(d, c)
  BY CheckHolds DEF FitsBut
<1> HIDE DEF c
<1>3. /\ SameOutside(c, e) /\ SameWait(c, e) /\ SameStack(c, e) /\ e.input = c.input
      /\ e.requests = c.requests /\ e.failed = c.failed /\ e.paused = FALSE /\ e.script = NoToken
  BY <1>2 DEF SameDoc, SameOutside, SameMode, SameScheduler, SameWait, SameStack, SameRunner, SameLoad, IsDoc, Fields
<1> HIDE DEF e
<1>4. "stopParsing" \notin Names(d.calls) /\ d.parsing
  <2>1. Top(d.calls) \in Names(d.calls) /\ Top(d.calls) \notin LastPump
    BY TopIn DEF FitsBut, LastPump
  <2> QED BY <2>1, InScript
<1>5. /\ FitsBut(c, 0, 0, 0) /\ Tokens(c) = Tokens(d) /\ c.calls = d.calls /\ c.state = "parsing"
      /\ (isScheduledForResume(c) <=> isScheduledForResume(d)) /\ c.page = d.page
  BY <1>2, SameFits DEF SameDoc, SameStack, SameOutside, SameMode, Tokens, SameScheduler,
                        isScheduledForResume
<1>6. /\ PauseOK(e) /\ WaitOK(e) /\ QuietOK(e) /\ StackedBut(e, 0, 0, 0) /\ e.calls = d.calls
      /\ Asserted(c) => Asserted(e)
  <2>1. Tokens(e) = Tokens(c)
    BY <1>3 DEF SameOutside, SameMode, Tokens
  <2>2. WaitOK(e) /\ StackedBut(e, 0, 0, 0)
    BY <1>3, <1>5, <2>1 DEF FitsBut, WaitOK, SameWait, SameOutside, SameMode, StackedBut, SameStack
  <2> QED BY <1>3, <1>4, <1>5, <2>2 DEF PauseOK, QuietOK, SameStack, Asserted, SameOutside, SameMode
<1>7. FitsBut(e, 0, 0, 0) /\ Tokens(e) = Tokens(d) /\ (isScheduledForResume(e) <=> isScheduledForResume(d))
  BY <1>3, <1>5, <1>6, ParserFits
<1>8. Busy(e) /\ Watched(e) /\ ~e.suspended /\ e.blocking = NoToken /\ e.page = d.page
  BY <1>2, <1>3, <1>5, <1>7 DEF Busy, Watched, SameDoc, SameOutside, SameMode, SameWait
<1>9. d.script \in Tokens(e) /\ e.page.kind[d.script] \in ScriptKinds
  BY <1>7, <1>8 DEF FitsBut, PauseOK
<1> QED BY <1>1, <1>6, <1>7, <1>8, <1>9, ExecuteGoes

LEMMA ConstructTreeDoes ==
    ASSUME NEW d, FitsBut(d, 0, 0, 0), Busy(d), ~d.paused, d.input[1] # <<>>
    PROVE  LET c == constructTreeFromToken(d)
           IN  /\ FitsBut(c, 0, 0, 0) /\ SameOutside(d, c) /\ SameWait(d, c) /\ c.calls = d.calls
               /\ (isScheduledForResume(c) <=> isScheduledForResume(d)) /\ Tokens(c) = Tokens(d)
               /\ c.paused <=> c.script # NoToken
<1> DEFINE token == Head(d.input[1])
           kind == d.page.kind[token]
           c == constructTreeFromToken(d)
<1>1. /\ SameOutside(d, c) /\ SameWait(d, c) /\ SameStack(d, c) /\ c.failed = d.failed
      /\ c.input = [d.input EXCEPT ![1] = Tail(@)]
      /\ c.requests \subseteq d.requests \cup {token}
      /\ \/ kind \in ScriptKinds /\ c.paused = TRUE /\ c.script = token
         \/ kind \notin ScriptKinds /\ c.paused = d.paused /\ c.script = d.script
  <2>0. IsDoc(d)
    BY DEF FitsBut
  <2>1. CASE kind \in ScriptKinds
    <3> DEFINE b == [d EXCEPT !.input[1] = Tail(@), !.tree = Append(@, token),
                              !.now = @ \cup {<<"built", token>>}]
               q == [b EXCEPT !.paused = TRUE, !.script = token]
    <3>1. c = q
      BY <2>1 DEF constructTreeFromToken, ScriptKinds
    <3>2. /\ SameOutside(d, b) /\ SameWait(d, b) /\ SameStack(d, b) /\ b.failed = d.failed
          /\ b.input = [d.input EXCEPT ![1] = Tail(@)] /\ b.requests = d.requests /\ IsDoc(b)
      BY <2>0 DEF SameOutside, SameMode, SameScheduler, SameWait, SameStack, SameRunner, SameLoad, IsDoc, Fields
    <3> HIDE DEF b
    <3>3. /\ SameOutside(b, q) /\ SameWait(b, q) /\ SameStack(b, q) /\ q.failed = b.failed
          /\ q.input = b.input /\ q.requests = b.requests /\ q.paused = TRUE /\ q.script = token
      BY <3>2 DEF SameOutside, SameMode, SameScheduler, SameWait, SameStack, SameRunner, SameLoad, IsDoc, Fields
    <3> HIDE DEF q, kind, token, c
    <3>4. SameOutside(d, q) /\ SameWait(d, q) /\ SameStack(d, q)
      BY <3>2, <3>3 DEF SameOutside, SameMode, SameScheduler, SameWait, SameStack, SameRunner, SameLoad
    <3> QED BY <2>1, <3>1, <3>2, <3>3, <3>4
  <2>2. CASE kind \notin ScriptKinds /\ kind = "sheet"
    BY <2>0, <2>2 DEF SameOutside, SameMode, SameScheduler, SameWait, SameStack, SameRunner, SameLoad,
           IsDoc, Fields, constructTreeFromToken, ScriptKinds, request
  <2>3. CASE kind \notin ScriptKinds /\ kind # "sheet"
    BY <2>0, <2>3 DEF SameOutside, SameMode, SameScheduler, SameWait, SameStack, SameRunner, SameLoad,
           IsDoc, Fields, constructTreeFromToken, ScriptKinds
  <2> QED BY <2>1, <2>2, <2>3
<1>2. /\ d.input \in Seq(Seq(Tokens(d))) /\ Len(d.input) > 0 /\ d.requests \subseteq Tokens(d)
      /\ NoToken \notin Tokens(d) /\ d.page.kind["eof"] = "eof" /\ d.parsing /\ d.paused = FALSE
      /\ d.script = NoToken
  BY PageFacts DEF FitsBut, StackedBut, LoadOK, ModeOK, Busy, PauseOK
<1>3. /\ d.input[1] \in Seq(Tokens(d)) /\ token \in Tokens(d) /\ Tail(d.input[1]) \in Seq(Tokens(d))
      /\ Len(d.input[1]) \in Nat /\ Len(d.input[1]) > 0 /\ token = d.input[1][1]
      /\ \A k \in 1..Len(Tail(d.input[1])) : Tail(d.input[1])[k] = d.input[1][k + 1] /\ k + 1 \in 1..Len(d.input[1])
  <2>1. d.input[1] \in Seq(Tokens(d))
    BY <1>2
  <2> DEFINE s == d.input[1]
             T == Tokens(d)
  <2>2. s \in Seq(T) /\ s # <<>>
    BY <2>1
  <2> HIDE DEF s, T
  <2>3. /\ Head(s) \in T /\ Tail(s) \in Seq(T) /\ Len(s) \in Nat /\ Len(s) > 0 /\ Head(s) = s[1]
        /\ \A k \in 1..Len(Tail(s)) : Tail(s)[k] = s[k + 1] /\ k + 1 \in 1..Len(s)
    BY <2>2
  <2> QED BY <2>1, <2>3 DEF s, T
<1> HIDE DEF c, token, kind
<1>4. Tokens(c) = Tokens(d) /\ c.state = "parsing"
  BY <1>1 DEF SameOutside, SameMode, Tokens, Busy
<1>5. c.input \in Seq(Seq(Tokens(d))) /\ Len(c.input) = Len(d.input) /\ c.input[1] = Tail(d.input[1])
  BY <1>1, <1>2, <1>3
<1>6. StackedBut(c, 0, 0, 0)
  BY <1>1, <1>4, <1>5 DEF FitsBut, StackedBut, SameStack
<1>7. PauseOK(c) /\ WaitOK(c)
  BY <1>1, <1>2, <1>3, <1>4 DEF FitsBut, PauseOK, WaitOK, SameWait, SameOutside, SameMode, kind
<1>8. QuietOK(c)
  <2>1. SUFFICES ASSUME "stopParsing" \in Names(d.calls) PROVE Quiet(c)
    BY <1>1, <1>4 DEF QuietOK, SameStack
  <2>2. Quiet(d)
    BY <2>1 DEF FitsBut, QuietOK
  <2>3. token = "eof" /\ kind \notin ScriptKinds
    <3>1. 1 \in 1..Len(d.input[1])
      BY <1>3
    <3> QED BY <1>2, <1>3, <2>2, <3>1 DEF Quiet, kind, ScriptKinds
  <2>4. \A k \in 1..Len(c.input[1]) : c.input[1][k] = "eof"
    BY <1>3, <1>5, <2>2 DEF Quiet
  <2> QED BY <1>1, <2>2, <2>3, <2>4 DEF Quiet, SameWait, SameOutside, SameScheduler, isScheduledForResume
<1>9. c.requests \subseteq Tokens(d)
  BY <1>1, <1>2, <1>3
<1>10. FitsBut(c, 0, 0, 0) /\ (isScheduledForResume(c) <=> isScheduledForResume(d))
  BY <1>1, <1>2, <1>6, <1>7, <1>8, <1>9, ParserFits DEF SameStack, Asserted
<1>11. c.paused <=> c.script # NoToken
  BY <1>1, <1>2, <1>3
<1> QED BY <1>1, <1>4, <1>10, <1>11 DEF SameStack, c

LEMMA ScheduleForResumeFits ==
    ASSUME NEW d, FitsBut(d, 0, 0, 0), ~isScheduledForResume(d), ~d.suspended, d.state = "parsing",
           Names(d.calls) \subseteq Yielding
    PROVE  LET e == scheduleForResume(d)
           IN  /\ FitsBut(e, 0, 0, 0) /\ isScheduledForResume(e) /\ SameMode(d, e) /\ SamePause(d, e)
               /\ SameWait(d, e) /\ e.calls = d.calls
<1> DEFINE e == scheduleForResume(d)
<1>1. /\ IsDoc(e) /\ SameMode(d, e) /\ SamePause(d, e) /\ SameWait(d, e) /\ SameStack(d, e)
      /\ SameRunner(d, e) /\ SameLoad(d, e) /\ e.input = d.input /\ e.requests = d.requests
      /\ e.failed = d.failed /\ e.parserSuspended = d.parserSuspended
      /\ e.parserTimer = startOneShot(d.parserTimer)
  BY DEF FitsBut, SameMode, SamePause, SameWait, SameStack, SameRunner, SameLoad, IsDoc, Fields,
         scheduleForResume
<1> HIDE DEF e
<1>2. TimerOK(d.parserTimer) /\ d.parserSuspended = FALSE /\ ~isActive(d.parserTimer)
  BY DEF FitsBut, SchedulerOK, isScheduledForResume
<1>3. TimerOK(e.parserTimer) /\ isActive(e.parserTimer)
  BY <1>1, <1>2 DEF TimerOK, startOneShot, isActive
<1>4. SchedulerOK(e) /\ isScheduledForResume(e)
  BY <1>1, <1>2, <1>3 DEF SchedulerOK, isScheduledForResume, SameMode
<1>5. ModeOK(e) /\ Tokens(e) = Tokens(d) /\ \A t : IsAsync(e, t) <=> IsAsync(d, t)
  BY <1>1 DEF FitsBut, SameMode, ModeOK, Tokens, IsAsync
<1>6. PauseOK(e) /\ WaitOK(e) /\ StackedBut(e, 0, 0, 0) /\ LoadOK(e) /\ Asserted(e)
  BY <1>1, <1>5 DEF FitsBut, PauseOK, WaitOK, StackedBut, LoadOK, Asserted, SameMode, SamePause, SameWait,
                    SameStack, SameLoad, SameRunner
<1>7. RunnerOK(e, 0)
  <2>1. PendingAsync(e) = PendingAsync(d)
    BY <1>1, <1>5 DEF PendingAsync, SameRunner
  <2> QED BY <1>1, <1>5, <2>1 DEF FitsBut, RunnerOK, Delays, SameRunner, SameMode
<1>8. AdmitsWith(e, Names(e.calls)) /\ QuietOK(e)
  <2>1. AdmitsWith(d, Names(d.calls)) /\ e.calls = d.calls /\ "stopParsing" \notin Names(d.calls)
    BY <1>1 DEF FitsBut, SameStack, Yielding
  <2> QED BY <1>1, <2>1 DEF AdmitsWith, QuietOK, SameMode
<1> QED BY <1>1, <1>4, <1>5, <1>6, <1>7, <1>8 DEF FitsBut, SameStack, e

LEMMA TakeNextTokenGoes ==
    ASSUME NEW d, FitsBut(d, 0, 0, 0), Watched(d), ~d.suspended, Busy(d),
           d.paused <=> d.blocking # NoToken, NEW mode \in Modes,
           Pushable(d.calls, "takeTokens", mode, Tokens(d))
    PROVE  Goes(takeNextToken(d, mode))
<1>1. d.calls # <<>> /\ Top(d.calls) = "endPump" /\ (mode = "AllowYield" => Names(d.calls) \subseteq Yielding)
  BY DEF Pushable, Calls, Bottom
<1>2. CASE d.paused \/ d.input[1] = <<>>
  <2>1. takeNextToken(d, mode) = d
    BY <1>2 DEF takeNextToken
  <2>2. Rests(d)
    BY <1>2 DEF Rests, Busy
  <2>3. Before(d, "endPump")
    BY <2>2 DEF Before, Bottom, Busy
  <2> QED BY <1>1, <2>1, <2>3 DEF Goes, DocOK
<1>3. CASE ~(d.paused \/ d.input[1] = <<>>)
  <2> DEFINE c == constructTreeFromToken(d)
  <2>1. takeNextToken(d, mode) = IF mode = "AllowYield" THEN scheduleForResume(c) ELSE later(c, "takeTokens", mode)
    BY <1>3 DEF takeNextToken, isStopped, Busy
  <2>2. /\ FitsBut(c, 0, 0, 0) /\ SameOutside(d, c) /\ SameWait(d, c) /\ c.calls = d.calls
        /\ (isScheduledForResume(c) <=> isScheduledForResume(d)) /\ Tokens(c) = Tokens(d)
        /\ c.paused <=> c.script # NoToken
    BY <1>3, ConstructTreeDoes
  <2> HIDE DEF c
  <2>3. /\ c.state = "parsing" /\ ~c.suspended /\ ~isScheduledForResume(c) /\ c.blocking = NoToken
        /\ c.parsing
    BY <1>3, <2>2 DEF SameOutside, SameMode, SameWait, Busy, FitsBut, ModeOK
  <2>4. Watched(c)
    BY <2>2, <2>3 DEF Watched, SameWait, Busy
  <2>5. CASE mode = "AllowYield"
    <3> DEFINE e == scheduleForResume(c)
    <3>1. /\ FitsBut(e, 0, 0, 0) /\ isScheduledForResume(e) /\ SameMode(c, e) /\ SamePause(c, e)
          /\ SameWait(c, e) /\ e.calls = c.calls
      BY <1>1, <2>2, <2>3, <2>5, ScheduleForResumeFits
    <3> HIDE DEF e
    <3>2. e.state = "parsing" /\ ~e.suspended /\ Watched(e) /\ Rests(e)
      BY <2>2, <2>3, <2>4, <3>1 DEF SameMode, SamePause, SameWait, Watched, Rests
    <3>3. Before(e, "endPump")
      BY <3>2 DEF Before, Bottom
    <3> QED BY <1>1, <2>1, <2>2, <2>5, <3>1, <3>2, <3>3 DEF Goes, DocOK, e
  <2>6. CASE mode # "AllowYield"
    <3> DEFINE e == later(c, "takeTokens", mode)
    <3>1. /\ Pushable(c.calls, "takeTokens", mode, Tokens(c))
          /\ AdmitsWith(c, Names(c.calls) \cup {"takeTokens"})
          /\ "takeTokens" \in StepNames \ (Nested \cup Pumped \cup Split)
      BY <2>2, <2>3 DEF FitsBut, AdmitsWith, Stops, LastPump, StepNames, Nested, Pumped, Split
    <3>2. /\ FitsBut(e, 0, 0, 0) /\ Top(e.calls) = "takeTokens" /\ SameButCalls(c, e)
          /\ isScheduledForResume(e) <=> isScheduledForResume(c)
      BY <2>2, <3>1, PushPlain
    <3> HIDE DEF e
    <3>3. e.state = "parsing" /\ ~e.suspended /\ Before(e, "takeTokens")
      BY <2>2, <2>3, <2>4, <3>2 DEF SameButCalls, SameOutside, SameMode, SamePause, SameWait, Before, Watched, Bottom
    <3> QED BY <2>1, <2>6, <3>2, <3>3 DEF Goes, DocOK, e
  <2> QED BY <2>5, <2>6
<1> QED BY <1>2, <1>3

LEMMA TakeTokensGoes ==
    ASSUME NEW r, NEW mode, Ready(r, "takeTokens", mode)
    PROVE  Goes(takeTokens(r, mode))
<1>1. FitsBut(r, 0, 0, 0)
  BY ReadyPlain DEF Nested, Pumped, Split
<1>2. /\ Pushable(r.calls, "takeTokens", mode, Tokens(r)) /\ mode \in Modes /\ ~r.suspended
      /\ Before(r, "takeTokens") /\ AdmitsWith(r, Names(r.calls) \cup {"takeTokens"})
  BY DEF Ready, Pushable
<1>3. r.state = "parsing" /\ r.parsing
  BY <1>1, <1>2 DEF AdmitsWith, StopSteps, FitsBut, ModeOK
<1>4. /\ Watched(r) /\ r.blocking = NoToken /\ ~isScheduledForResume(r)
      /\ r.paused <=> r.script # NoToken
  BY <1>2, <1>3 DEF Before, Bottom
<1>5. CASE r.paused
  <2> DEFINE e == later(r, "pauseIfBlocked", mode)
  <2>1. takeTokens(r, mode) = runScriptsForPausedTreeBuilder(e)
    BY <1>5 DEF takeTokens
  <2>2. "stopParsing" \notin Names(r.calls)
    BY <1>1, <1>5 DEF FitsBut, QuietOK, Quiet
  <2>3. /\ Pushable(r.calls, "pauseIfBlocked", mode, Tokens(r))
        /\ AdmitsWith(r, Names(r.calls) \cup {"pauseIfBlocked"})
        /\ "pauseIfBlocked" \in StepNames \ (Nested \cup Pumped \cup Split)
    <3>1. Pushable(r.calls, "pauseIfBlocked", mode, Tokens(r))
      BY <1>2 DEF Pushable, Calls, Bottom, First, Outermost
    <3>2. AdmitsWith(r, Names(r.calls) \cup {"pauseIfBlocked"})
      BY <1>2, <1>3, <1>4, <2>2 DEF AdmitsWith, Stops
    <3> QED BY <3>1, <3>2 DEF StepNames, Nested, Pumped, Split
  <2>4. /\ FitsBut(e, 0, 0, 0) /\ Top(e.calls) = "pauseIfBlocked" /\ SameButCalls(r, e) /\ e.calls # <<>>
        /\ isScheduledForResume(e) <=> isScheduledForResume(r)
    <3>1. mode \in Tokens(r) \cup Modes \cup {NoToken}
      BY <1>2
    <3> QED BY <1>1, <2>3, <3>1, PushPlain
  <2> HIDE DEF e
  <2>5. /\ e.state = "parsing" /\ ~e.suspended /\ Watched(e) /\ e.blocking = NoToken
        /\ e.script # NoToken /\ ~isScheduledForResume(e)
    BY <1>2, <1>3, <1>4, <1>5, <2>4 DEF SameButCalls, SameOutside, SameMode, SamePause, SameWait, Watched
  <2> QED BY <2>1, <2>4, <2>5, RunScriptsGoes
<1>6. CASE ~r.paused
  <2>1. takeTokens(r, mode) = takeNextToken(r, mode)
    BY <1>6 DEF takeTokens
  <2>2. Busy(r) /\ (r.paused <=> r.blocking # NoToken)
    BY <1>3, <1>4, <1>6 DEF Busy
  <2> QED BY <1>1, <1>2, <1>4, <2>1, <2>2, TakeNextTokenGoes
<1> QED BY <1>5, <1>6

LEMMA PauseIfBlockedGoes ==
    ASSUME NEW r, NEW mode, Ready(r, "pauseIfBlocked", mode)
    PROVE  Goes(pauseIfBlocked(r, mode))
<1> DEFINE e == [r EXCEPT !.paused = haveParsingBlockingScript(r)]
<1>1. FitsBut(r, 0, 0, 0)
  BY ReadyPlain DEF Nested, Pumped, Split
<1>2. /\ Pushable(r.calls, "pauseIfBlocked", mode, Tokens(r)) /\ mode \in Modes /\ ~r.suspended
      /\ Before(r, "pauseIfBlocked") /\ AdmitsWith(r, Names(r.calls) \cup {"pauseIfBlocked"})
  BY DEF Ready, Pushable
<1>3. r.state = "parsing" /\ "stopParsing" \notin Names(r.calls)
  BY <1>2 DEF AdmitsWith, StopSteps, LastPump
<1>4. Watched(r) /\ Busy(r)
  BY <1>2, <1>3 DEF Before, Bottom, Busy
<1>5. /\ SameOutside(r, e) /\ SameWait(r, e) /\ SameStack(r, e) /\ e.script = r.script
      /\ e.input = r.input /\ e.requests = r.requests /\ e.failed = r.failed
      /\ e.paused = haveParsingBlockingScript(r)
  BY <1>1 DEF FitsBut, SameOutside, SameMode, SameScheduler, SameWait, SameStack, SameRunner, SameLoad, IsDoc, Fields
<1>6. pauseIfBlocked(r, mode) = takeNextToken(e, mode)
  BY DEF pauseIfBlocked
<1> HIDE DEF e
<1>7. (e.paused <=> e.blocking # NoToken) /\ e.paused \in BOOLEAN
  BY <1>5 DEF haveParsingBlockingScript, SameWait
<1>8. Tokens(e) = Tokens(r) /\ e.state = r.state /\ e.calls = r.calls
  BY <1>5 DEF SameOutside, SameMode, Tokens, SameStack
<1>9. PauseOK(e) /\ WaitOK(e) /\ QuietOK(e) /\ StackedBut(e, 0, 0, 0)
  BY <1>1, <1>3, <1>5, <1>7, <1>8 DEF FitsBut, PauseOK, WaitOK, QuietOK, StackedBut, SameWait, SameStack,
                                      SameOutside, SameMode
<1>10. FitsBut(e, 0, 0, 0) /\ (isScheduledForResume(e) <=> isScheduledForResume(r))
  BY <1>1, <1>5, <1>8, <1>9, ParserFits DEF Asserted
<1>11. Watched(e) /\ Busy(e) /\ ~e.suspended
  BY <1>2, <1>4, <1>5, <1>8, <1>10 DEF Watched, Busy, SameWait, SameOutside, SameMode
<1>12. Pushable(e.calls, "takeTokens", mode, Tokens(e))
  BY <1>2, <1>8 DEF Pushable, Calls, Bottom, First, Outermost
<1> QED BY <1>2, <1>6, <1>7, <1>10, <1>11, <1>12, TakeNextTokenGoes

LEMMA ScanPreloadsFits ==
    ASSUME NEW d, NEW n, NEW p, NEW s, FitsBut(d, n, p, s), d.parsing
    PROVE  LET e == scanPreloads(d)
           IN  /\ FitsBut(e, n, p, s) /\ SameOutside(d, e) /\ SamePause(d, e) /\ SameWait(d, e)
               /\ SameStack(d, e) /\ e.input = d.input /\ Tokens(e) = Tokens(d)
               /\ (isScheduledForResume(e) <=> isScheduledForResume(d))
               /\ \A name : Before(d, name) => Before(e, name)
<1> DEFINE ahead == UNION {{d.input[i][k] : k \in 1..Len(d.input[i])} : i \in 1..Len(d.input)}
           some == {t \in ahead : d.page.kind[t] \in {"external", "defer", "async", "sheet"}}
           e == scanPreloads(d)
<1>1. e = IF ~d.paused THEN d ELSE request(d, some)
  BY DEF scanPreloads
<1>2. ahead \subseteq Tokens(d)
  <2>1. \A i \in 1..Len(d.input) : d.input[i] \in Seq(Tokens(d))
    BY DEF FitsBut, StackedBut
  <2>2. \A i \in 1..Len(d.input) : \A k \in 1..Len(d.input[i]) : d.input[i][k] \in Tokens(d)
    BY <2>1
  <2> QED BY <2>2
<1>3. some \subseteq Tokens(d)
  BY <1>2
<1> HIDE DEF ahead, some, e
<1>4. /\ SameOutside(d, e) /\ SamePause(d, e) /\ SameWait(d, e) /\ SameStack(d, e)
      /\ e.input = d.input /\ e.failed = d.failed
      /\ e.requests \subseteq d.requests \cup some
  <2>1. IsDoc(d)
    BY DEF FitsBut
  <2>2. CASE ~d.paused
    BY <1>1, <2>1, <2>2 DEF SameOutside, SameMode, SameScheduler, SamePause, SameWait, SameStack,
                            SameRunner, SameLoad
  <2>3. CASE d.paused
    <3> DEFINE q == request(d, some)
    <3>1. e = q
      BY <1>1, <2>3
    <3>2. /\ SameOutside(d, q) /\ SamePause(d, q) /\ SameWait(d, q) /\ SameStack(d, q)
          /\ q.input = d.input /\ q.failed = d.failed /\ q.requests \subseteq d.requests \cup some
      <4> DEFINE more == some \ d.requested
      <4>1. q = [d EXCEPT !.requests = @ \cup more, !.requested = @ \cup some] /\ more \subseteq some
        BY DEF request
      <4> HIDE DEF q, more
      <4>2. IsDoc(q) /\ SameMode(d, q) /\ SameScheduler(d, q)
        BY <2>1, <4>1, ZenonT(60) DEF SameMode, SameScheduler, IsDoc, Fields
      <4>3. SameRunner(d, q) /\ SameLoad(d, q) /\ SamePause(d, q)
        BY <2>1, <4>1 DEF SameRunner, SameLoad, SamePause, IsDoc, Fields
      <4>4. SameWait(d, q) /\ SameStack(d, q) /\ q.input = d.input /\ q.failed = d.failed
        BY <2>1, <4>1 DEF SameWait, SameStack, IsDoc, Fields
      <4>5. q.requests = d.requests \cup more
        BY <2>1, <4>1 DEF IsDoc, Fields
      <4> QED BY <4>1, <4>2, <4>3, <4>4, <4>5 DEF SameOutside
    <3> HIDE DEF q
    <3> QED BY <3>1, <3>2
  <2> QED BY <2>2, <2>3
<1>5. Tokens(e) = Tokens(d) /\ e.state = d.state /\ e.calls = d.calls
  BY <1>4 DEF SameOutside, SameMode, Tokens, SameStack
<1>6. PauseOK(e) /\ WaitOK(e) /\ StackedBut(e, n, p, s)
  BY <1>4, <1>5 DEF FitsBut, PauseOK, WaitOK, StackedBut, SamePause, SameWait, SameStack, SameOutside, SameMode
<1>7. QuietOK(e)
  BY <1>4, <1>5 DEF FitsBut, QuietOK, Quiet, SamePause, SameWait, SameOutside, SameScheduler,
                    isScheduledForResume
<1>8. e.requests \subseteq Tokens(d)
  BY <1>3, <1>4 DEF FitsBut, LoadOK
<1>9. FitsBut(e, n, p, s) /\ (isScheduledForResume(e) <=> isScheduledForResume(d))
  BY <1>4, <1>5, <1>6, <1>7, <1>8, ParserFits DEF Asserted
<1>10. \A name : Before(d, name) => Before(e, name)
  BY <1>4, <1>5, <1>9 DEF Before, Rests, Watched, SamePause, SameWait
<1> QED BY <1>4, <1>5, <1>9, <1>10 DEF e

\* A change of the counters and of the input, when a step returns.
LEMMA ReturnFits ==
    ASSUME NEW r, NEW n, NEW p, NEW s, FitsBut(r, n, p, s), NEW e, SameOutside(r, e), SamePause(r, e), SameWait(r, e),
           e.calls = r.calls, e.requests = r.requests, Asserted(r) => Asserted(e),
           StackedBut(e, 0, 0, 0),
           \/ e.input[1] = r.input[1]
           \/ r.state = "parsing" /\ "stopParsing" \notin Names(r.calls)
    PROVE  /\ FitsBut(e, 0, 0, 0)
           /\ Tokens(e) = Tokens(r) /\ (isScheduledForResume(e) <=> isScheduledForResume(r))
           /\ \A name : Before(r, name)
                        /\ (e.input[1] = r.input[1] \/ name \notin Bottom \cup {"none", "endPump"})
                        => Before(e, name)
           /\ e.state = r.state /\ e.suspended = r.suspended /\ e.script = r.script
           /\ e.watching = r.watching /\ e.blocking = r.blocking /\ e.paused = r.paused
<1>1. SameButCounters(r, e)
  BY DEF SameButCounters
<1>2. /\ e.state = r.state /\ e.suspended = r.suspended /\ e.script = r.script
      /\ e.watching = r.watching /\ e.blocking = r.blocking /\ e.paused = r.paused
  BY DEF SameOutside, SameMode, SamePause, SameWait
<1> QED BY <1>1, <1>2, RecountFits

LEMMA EndPumpGoes ==
    ASSUME NEW r, NEW arg, Ready(r, "endPump", arg)
    PROVE  Goes(endPump(r))
<1> DEFINE e == [r EXCEPT !.pumps = @ - 1]
           f == scanPreloads(e)
<1>1. FitsBut(r, 0, 1, 0)
  BY DEF Ready, Bit, Nested, Pumped, Split
<1>2. /\ Pushable(r.calls, "endPump", arg, Tokens(r)) /\ ~r.suspended
      /\ Before(r, "endPump") /\ AdmitsWith(r, Names(r.calls) \cup {"endPump"})
  BY DEF Ready
<1>3. r.state = "parsing" /\ r.parsing
  BY <1>1, <1>2 DEF AdmitsWith, StopSteps, FitsBut, ModeOK
<1>4. r.calls # <<>> /\ Top(r.calls) \in {"endIfDelayed", "stopParsing", "endInsert"}
  BY <1>2 DEF Pushable, Calls, Bottom
<1>5. Rests(r) /\ Watched(r)
  BY <1>2, <1>3 DEF Before
<1>6. /\ SameOutside(r, e) /\ SamePause(r, e) /\ SameWait(r, e) /\ e.calls = r.calls
      /\ e.requests = r.requests /\ e.failed = r.failed /\ e.input = r.input /\ e.nesting = r.nesting
      /\ e.pumps = r.pumps - 1
  BY <1>1 DEF FitsBut, SameOutside, SameMode, SameScheduler, SamePause, SameWait, SameRunner,
              SameLoad, IsDoc, Fields
<1>7. endPump(r) = f
  BY DEF endPump
<1> HIDE DEF e
<1>8. StackedBut(e, 0, 0, 0)
  <2>1. StackedBut(r, 0, 1, 0) /\ Tokens(e) = Tokens(r)
    BY <1>1, <1>6 DEF FitsBut, SameOutside, SameMode, Tokens
  <2>2. Count(r.calls, Pumped) \in Nat
    BY <2>1, Counts
  <2> QED BY <1>6, <2>1, <2>2 DEF StackedBut
<1>9. /\ FitsBut(e, 0, 0, 0) /\ e.state = "parsing" /\ ~e.suspended /\ Before(e, "endPump")
  <2>1. Asserted(r) => Asserted(e)
    BY <1>6 DEF Asserted
  <2>2. /\ FitsBut(e, 0, 0, 0) /\ e.state = r.state /\ e.suspended = r.suspended
        /\ \A name : Before(r, name)
                     /\ (e.input[1] = r.input[1] \/ name \notin Bottom \cup {"none", "endPump"})
                     => Before(e, name)
    BY <1>1, <1>6, <1>8, <2>1, ReturnFits
  <2>3. e.input[1] = r.input[1]
    BY <1>6
  <2>4. Before(e, "endPump")
    BY <1>2, <2>2, <2>3
  <2> QED BY <1>2, <1>3, <2>2, <2>4
<1>10. e.parsing
  BY <1>9 DEF FitsBut, ModeOK
<1>11. /\ FitsBut(f, 0, 0, 0) /\ SameOutside(e, f) /\ SameStack(e, f) /\ Before(f, "endPump")
  BY <1>9, <1>10, ScanPreloadsFits
<1> HIDE DEF f
<1>12. f.state = "parsing" /\ ~f.suspended /\ f.calls = r.calls
  BY <1>6, <1>9, <1>11 DEF SameOutside, SameMode, SameStack
<1>13. Rests(f) /\ Watched(f)
  BY <1>11, <1>12 DEF Before
<1>14. Before(f, Top(f.calls))
  <2>1. CASE Top(f.calls) \in Bottom
    BY <1>12, <1>13, <2>1 DEF Before, Bottom
  <2>2. CASE Top(f.calls) = "endInsert"
    <3>1. "endInsert" \in Names(f.calls)
      BY <1>4, <1>11, <1>12, <2>2, TopIn DEF FitsBut
    <3>2. ~isScheduledForResume(f)
      BY <1>11, <3>1 DEF FitsBut, AdmitsWith, Yielding
    <3> QED BY <1>12, <1>13, <2>2, <3>2 DEF Before, Bottom, Rests
  <2> QED BY <1>4, <1>12, <2>1, <2>2 DEF Bottom
<1> QED BY <1>7, <1>11, <1>12, <1>14 DEF Goes, DocOK

LEMMA EndInsertGoes ==
    ASSUME NEW r, NEW arg, Ready(r, "endInsert", arg)
    PROVE  Goes(endInsert(r))
<1> DEFINE f == scanPreloads(r)
<1>1. FitsBut(r, 0, 0, 0)
  BY ReadyPlain DEF Nested, Pumped, Split
<1>2. /\ Pushable(r.calls, "endInsert", arg, Tokens(r)) /\ ~r.suspended
      /\ Before(r, "endInsert") /\ AdmitsWith(r, Names(r.calls) \cup {"endInsert"})
  BY DEF Ready
<1>3. r.state = "parsing" /\ r.parsing
  BY <1>1, <1>2 DEF AdmitsWith, StopSteps, FitsBut, ModeOK
<1>4. Top(r.calls) = "insertScripts" /\ Names(r.calls) \cap Nested # {}
  BY <1>2 DEF Pushable, Calls, Bottom
<1>5. /\ FitsBut(f, 0, 0, 0) /\ SameOutside(r, f) /\ SameStack(r, f) /\ Before(f, "endInsert")
  BY <1>1, <1>2, <1>3, ScanPreloadsFits
<1>6. endInsert(r) = endIfDelayed(f)
  BY DEF endInsert
<1> HIDE DEF f
<1>7. f.state = "parsing" /\ ~f.suspended /\ f.calls = r.calls
  BY <1>2, <1>3, <1>5 DEF SameOutside, SameMode, SameStack
<1>8. f.nesting > 0
  <2>1. StackedBut(f, 0, 0, 0)
    BY <1>5 DEF FitsBut
  <2>2. Count(f.calls, Nested) \in Nat /\ Count(f.calls, Nested) # 0
    BY <1>4, <1>7, <2>1, Counts
  <2> QED BY <2>1, <2>2 DEF StackedBut
<1>9. endIfDelayed(f) = f
  BY <1>8 DEF endIfDelayed, shouldDelayEnd
<1>10. Before(f, "insertScripts")
  BY <1>5, <1>7 DEF Before, Bottom
<1> QED BY <1>4, <1>5, <1>6, <1>7, <1>9, <1>10 DEF Goes, DocOK

LEMMA InsertScriptsGoes ==
    ASSUME NEW r, NEW script, Ready(r, "insertScripts", script)
    PROVE  Goes(insertScripts(r, r.page.inserts[script]))
<1> DEFINE e == insertScripts(r, r.page.inserts[script])
<1>1. FitsBut(r, 0, 0, 0)
  BY ReadyPlain DEF Nested, Pumped, Split
<1>2. /\ Pushable(r.calls, "insertScripts", script, Tokens(r)) /\ ~r.suspended
      /\ Before(r, "insertScripts") /\ AdmitsWith(r, Names(r.calls) \cup {"insertScripts"})
  BY DEF Ready
<1>3. r.parsing
  BY <1>1, <1>2 DEF AdmitsWith, FitsBut, ModeOK
<1>4. Top(r.calls) \in Nested /\ script \in Tokens(r)
  BY <1>2 DEF Pushable, Calls, Bottom, Nested
<1>5. r.page.inserts[script] \in Seq(Tokens(r))
  BY <1>1, <1>4, PageFacts DEF FitsBut
<1>6. Queues(r, e, 0)
  <2>1. 0 \in Nat /\ IsDoc(r) /\ ModeOK(r) /\ RunnerOK(r, 0) /\ r.requests \subseteq Tokens(r)
    BY <1>1 DEF FitsBut, LoadOK
  <2> QED BY <1>2, <1>5, <2>1, InsertScriptsDoes
<1> HIDE DEF e
<1>7. /\ FitsBut(e, 0, 0, 0) /\ e.calls = r.calls /\ ~e.suspended /\ e.state = r.state
      /\ Before(e, "insertScripts")
  BY <1>1, <1>2, <1>3, <1>6, QueueFits
<1>8. Before(e, Top(r.calls))
  BY <1>4, <1>7 DEF Before, Bottom, Nested
<1> QED BY <1>7, <1>8 DEF Goes, DocOK, e

LEMMA LeaveOutermostGoes ==
    ASSUME NEW r, NEW arg, Ready(r, "leaveOutermost", arg)
    PROVE  Goes(leaveOutermost(r))
<1> DEFINE l == [r EXCEPT !.nesting = @ - 1]
           e == check(l, r.nesting = 1)
<1>1. FitsBut(r, 1, 0, 0)
  BY DEF Ready, Bit, Nested, Pumped, Split
<1>2. /\ Pushable(r.calls, "leaveOutermost", arg, Tokens(r)) /\ ~r.suspended
      /\ Before(r, "leaveOutermost") /\ AdmitsWith(r, Names(r.calls) \cup {"leaveOutermost"})
  BY DEF Ready
<1>3. /\ Top(r.calls) \in {"nextBlockingScript", "executeScriptsWaitingForParsing"}
      /\ Names(r.calls) \cap Nested = {}
  BY <1>2 DEF Pushable, Calls, Bottom, Outermost
<1>4. StackedBut(r, 1, 0, 0) /\ Count(r.calls, Nested) = 0
  BY <1>1, <1>3, Counts DEF FitsBut
<1>5. r.nesting = 1
  BY <1>4 DEF StackedBut
<1>6. /\ SameOutside(r, l) /\ SamePause(r, l) /\ SameWait(r, l) /\ l.calls = r.calls
      /\ l.requests = r.requests /\ l.failed = r.failed /\ l.input = r.input /\ l.nesting = 0
      /\ l.pumps = r.pumps
  BY <1>1, <1>5 DEF FitsBut, SameOutside, SameMode, SameScheduler, SamePause, SameWait, SameRunner,
              SameLoad, IsDoc, Fields
<1>7. leaveOutermost(r) = e
  BY DEF leaveOutermost
<1> HIDE DEF l
<1>8. SameDoc(l, e)
  BY <1>5, <1>6, CheckHolds DEF SameOutside
<1> HIDE DEF e
<1>9. StackedBut(l, 0, 0, 0)
  <2>1. Tokens(l) = Tokens(r)
    BY <1>6 DEF SameOutside, SameMode, Tokens
  <2> QED BY <1>4, <1>6, <2>1 DEF StackedBut
<1>10. FitsBut(l, 0, 0, 0) /\ ~l.suspended /\ Before(l, "leaveOutermost")
  <2>1. l.input[1] = r.input[1] /\ (Asserted(r) => Asserted(l))
    BY <1>6 DEF Asserted
  <2>2. FitsBut(l, 0, 0, 0) /\ (Before(r, "leaveOutermost") => Before(l, "leaveOutermost"))
        /\ l.suspended = r.suspended
    BY <1>1, <1>6, <1>9, <2>1, ReturnFits
  <2> QED BY <1>2, <2>2
<1>11. FitsBut(e, 0, 0, 0) /\ Before(e, "leaveOutermost") /\ e.calls = r.calls /\ ~e.suspended
  BY <1>6, <1>8, <1>10, SameFits DEF SameDoc, SameStack, SameOutside, SameMode
<1>12. Before(e, Top(e.calls))
  BY <1>3, <1>11 DEF Before, Bottom
<1> QED BY <1>7, <1>11, <1>12 DEF Goes, DocOK

\* The input when the insertion point of a script is closed.
LEMMA MergeStacked ==
    ASSUME NEW r, NEW n, StackedBut(r, n, 0, 1), NEW e, e.input = mergeInput(r).input, IsDoc(r),
           e.calls = r.calls, Tokens(e) = Tokens(r), e.pumps = r.pumps, e.nesting \in Nat,
           e.nesting = Count(r.calls, Nested) + 0
    PROVE  StackedBut(e, 0, 0, 0)
<1>1. e.input = <<r.input[1] \o r.input[2]>> \o SubSeq(r.input, 3, Len(r.input))
  BY DEF mergeInput, IsDoc, Fields
<1>2. /\ r.input \in Seq(Seq(Tokens(r))) /\ Len(r.input) = 1 + Count(r.calls, Split) + 1
      /\ Count(r.calls, Split) \in Nat
  BY Counts DEF StackedBut
<1>3. Len(r.input) > 1
  BY <1>2
<1>4. e.input \in Seq(Seq(Tokens(r))) /\ Len(e.input) = Len(r.input) - 1
  BY <1>1, <1>2, <1>3, MergeSeq
<1>5. Len(e.input) = 1 + Count(e.calls, Split) + 0 /\ Len(e.input) > 0
  BY <1>2, <1>4
<1> QED BY <1>4, <1>5 DEF StackedBut

LEMMA NextBlockingScriptGoes ==
    ASSUME NEW r, NEW arg, Ready(r, "nextBlockingScript", arg)
    PROVE  Goes(nextBlockingScript(r))
<1> DEFINE e == mergeInput(r)
<1>1. FitsBut(r, 0, 0, 1)
  BY DEF Ready, Bit, Nested, Pumped, Split
<1>2. /\ Pushable(r.calls, "nextBlockingScript", arg, Tokens(r)) /\ ~r.suspended
      /\ Before(r, "nextBlockingScript") /\ AdmitsWith(r, Names(r.calls) \cup {"nextBlockingScript"})
  BY DEF Ready
<1>3. /\ Top(r.calls) \in {"pauseIfBlocked", "resumeUnlessBlocked"} /\ r.calls # <<>>
      /\ Names(r.calls) \cap Nested = {}
  BY <1>2 DEF Pushable, Calls, Bottom, Outermost
<1>4. r.state = "parsing" /\ "stopParsing" \notin Names(r.calls)
  BY <1>2 DEF AdmitsWith, StopSteps, LastPump
<1>5. Watched(r) /\ Busy(r)
  BY <1>2, <1>4 DEF Before, Bottom, Busy
<1>6. /\ SameOutside(r, e) /\ SamePause(r, e) /\ SameWait(r, e) /\ e.calls = r.calls
      /\ e.requests = r.requests /\ e.failed = r.failed /\ e.nesting = r.nesting
      /\ e.pumps = r.pumps
  BY <1>1 DEF FitsBut, SameOutside, SameMode, SameScheduler, SamePause, SameWait, SameRunner,
              SameLoad, IsDoc, Fields, mergeInput
<1>7. StackedBut(e, 0, 0, 0)
  <2>1. StackedBut(r, 0, 0, 1) /\ IsDoc(r) /\ Tokens(e) = Tokens(r)
    BY <1>1, <1>6 DEF FitsBut, SameOutside, SameMode, Tokens
  <2>2. e.nesting \in Nat /\ e.nesting = Count(r.calls, Nested) + 0 /\ e.input = mergeInput(r).input
    BY <1>6, <2>1 DEF StackedBut
  <2> HIDE DEF e
  <2> QED BY <1>6, <2>1, <2>2, MergeStacked
<1>8. nextBlockingScript(r) = executeParsingBlockingScripts(e)
  BY DEF nextBlockingScript
<1> HIDE DEF e
<1>9. /\ FitsBut(e, 0, 0, 0) /\ (isScheduledForResume(e) <=> isScheduledForResume(r))
      /\ e.state = r.state /\ e.suspended = r.suspended /\ e.script = r.script
      /\ e.watching = r.watching /\ e.blocking = r.blocking
  <2>1. Asserted(r) => Asserted(e)
    BY <1>6 DEF Asserted
  <2> QED BY <1>1, <1>4, <1>6, <1>7, <2>1, ReturnFits
<1>10. Watched(e) /\ Busy(e) /\ ~e.suspended
  BY <1>2, <1>4, <1>5, <1>9 DEF Watched, Busy
<1> QED BY <1>3, <1>6, <1>8, <1>9, <1>10, ExecuteParsingBlockingScriptsGoes

LEMMA EndRunScriptGoes ==
    ASSUME NEW r, NEW arg, Ready(r, "endRunScript", arg)
    PROVE  Goes(endRunScript(r))
<1> DEFINE m == mergeInput(r)
           e == [m EXCEPT !.nesting = @ - 1]
<1>1. FitsBut(r, 1, 0, 1)
  BY DEF Ready, Bit, Nested, Pumped, Split
<1>2. /\ Pushable(r.calls, "endRunScript", arg, Tokens(r)) /\ ~r.suspended
      /\ Before(r, "endRunScript") /\ AdmitsWith(r, Names(r.calls) \cup {"endRunScript"})
  BY DEF Ready
<1>3. Top(r.calls) = "pauseIfBlocked" /\ r.calls # <<>>
  BY <1>2 DEF Pushable, Calls, Bottom
<1>4. r.state = "parsing" /\ "stopParsing" \notin Names(r.calls)
  BY <1>2 DEF AdmitsWith, StopSteps, LastPump
<1>5. Watched(r) /\ Busy(r)
  BY <1>2, <1>4 DEF Before, Bottom, Busy
<1>6. /\ SameOutside(r, e) /\ SamePause(r, e) /\ SameWait(r, e) /\ e.calls = r.calls
      /\ e.requests = r.requests /\ e.failed = r.failed /\ e.nesting = r.nesting - 1
      /\ e.pumps = r.pumps /\ e.input = m.input
  BY <1>1 DEF FitsBut, SameOutside, SameMode, SameScheduler, SamePause, SameWait, SameRunner,
              SameLoad, IsDoc, Fields, mergeInput
<1>7. endRunScript(r) = executeBlockingIfOutermost(e)
  BY DEF endRunScript
<1> HIDE DEF e
<1>8. StackedBut(e, 0, 0, 0) /\ Count(r.calls, Nested) \in Nat /\ e.nesting = Count(r.calls, Nested) + 0
  <2>1. StackedBut(r, 1, 0, 1) /\ IsDoc(r) /\ Tokens(e) = Tokens(r) /\ Count(r.calls, Nested) \in Nat
    BY <1>1, <1>6, Counts DEF FitsBut, SameOutside, SameMode, Tokens
  <2>2. e.nesting \in Nat /\ e.nesting = Count(r.calls, Nested) + 0 /\ e.input = mergeInput(r).input
    BY <1>6, <2>1 DEF StackedBut
  <2> HIDE DEF m
  <2> QED BY <1>6, <2>1, <2>2, MergeStacked
<1> HIDE DEF m
<1>9. /\ FitsBut(e, 0, 0, 0) /\ (isScheduledForResume(e) <=> isScheduledForResume(r))
      /\ e.state = r.state /\ e.suspended = r.suspended /\ e.script = r.script
      /\ e.watching = r.watching /\ e.blocking = r.blocking
  <2>1. Asserted(r) => Asserted(e)
    BY <1>6 DEF Asserted
  <2> QED BY <1>1, <1>4, <1>6, <1>8, <2>1, ReturnFits
<1>10. Watched(e) /\ Busy(e) /\ ~e.suspended
  BY <1>2, <1>4, <1>5, <1>9 DEF Watched, Busy
<1>11. CASE e.nesting = 0
  <2>1. Names(e.calls) \cap Nested = {}
    <3>1. Count(e.calls, Nested) = 0
      BY <1>6, <1>8, <1>11
    <3> QED BY <1>8, <3>1, Counts
  <2>2. endRunScript(r) = executeParsingBlockingScripts(e)
    BY <1>7, <1>11 DEF executeBlockingIfOutermost
  <2> QED BY <1>3, <1>6, <1>9, <1>10, <2>1, <2>2, ExecuteParsingBlockingScriptsGoes
<1>12. CASE e.nesting # 0
  <2>1. endRunScript(r) = e
    BY <1>7, <1>12 DEF executeBlockingIfOutermost
  <2>2. Before(e, "pauseIfBlocked")
    BY <1>10 DEF Before, Bottom, Busy
  <2> QED BY <1>3, <1>6, <1>9, <1>10, <2>1, <2>2 DEF Goes, DocOK
<1> QED BY <1>11, <1>12

-----------------------------------------------------------------------------
(* The end of the document. *)

\* The script runner is left alone.
SameScripts(d, e) ==
    /\ e.delayCount = d.delayCount /\ e.inOrder = d.inOrder /\ e.async = d.async
    /\ e.asyncTimers = d.asyncTimers /\ e.inOrderTimer = d.inOrderTimer
    /\ e.runnerSuspended = d.runnerSuspended /\ e.strayed = d.strayed

\* A change of the phase of the load.
LEMMA PhaseFits ==
    ASSUME NEW d, NEW n, NEW p, NEW s, FitsBut(d, n, p, s), NEW e, IsDoc(e), e.page = d.page,
           e.suspended = d.suspended, SameScheduler(d, e), SamePause(d, e), SameWait(d, e), SameStack(d, e),
           SameScripts(d, e), e.input = d.input, Asserted(e), ModeOK(e), WaitOK(e), LoadOK(e),
           AdmitsWith(e, Names(d.calls)), QuietOK(e)
    PROVE  FitsBut(e, n, p, s) /\ Tokens(e) = Tokens(d) /\ (isScheduledForResume(e) <=> isScheduledForResume(d))
<1>1. Tokens(e) = Tokens(d) /\ \A t : IsAsync(e, t) <=> IsAsync(d, t)
  BY DEF Tokens, IsAsync
<1>2. SchedulerOK(e) /\ (isScheduledForResume(e) <=> isScheduledForResume(d)) /\ PauseOK(e)
  BY <1>1 DEF FitsBut, SchedulerOK, isScheduledForResume, SameScheduler, PauseOK, SamePause
<1>3. StackedBut(e, n, p, s) /\ e.calls = d.calls
  BY <1>1 DEF FitsBut, StackedBut, SameStack
<1>4. RunnerOK(e, 0)
  <2>1. PendingAsync(e) = PendingAsync(d)
    BY <1>1 DEF PendingAsync, SameScripts
  <2> QED BY <1>1, <2>1 DEF FitsBut, RunnerOK, Delays, SameScripts
<1> QED BY <1>1, <1>2, <1>3, <1>4 DEF FitsBut

LEMMA CheckCompletedFits ==
    ASSUME NEW d, NEW n, NEW p, NEW s, FitsBut(d, n, p, s)
    PROVE  LET e == checkCompleted(d)
           IN  /\ FitsBut(e, n, p, s) /\ e.calls = d.calls /\ e.suspended = d.suspended
               /\ \A name : Before(d, name) => Before(e, name)
<1> DEFINE c == [d EXCEPT !.loadedTimer = startOneShot(@), !.addedSince = {}]
<1>1. checkCompleted(d) = d \/ (~d.parsing /\ d.requests = {} /\ d.delayCount = 0 /\ checkCompleted(d) = c)
  <2>1. d.parsing \in BOOLEAN /\ d.isComplete \in BOOLEAN
    BY DEF FitsBut, ModeOK, LoadOK
  <2> QED BY <2>1 DEF checkCompleted
<1>2. /\ IsDoc(c) /\ SameMode(d, c) /\ SameScheduler(d, c) /\ SamePause(d, c) /\ SameWait(d, c)
      /\ SameStack(d, c) /\ SameScripts(d, c) /\ c.input = d.input /\ c.requests = d.requests
      /\ c.failed = d.failed /\ c.isComplete = d.isComplete
  BY DEF FitsBut, SameMode, SameScheduler, SamePause, SameWait, SameStack, SameScripts, IsDoc, Fields
<1>0. {"inHeap", "queued", "flag", "starter"} \subseteq DOMAIN c.loadedTimer
  BY DEF FitsBut, LoadOK, IsDoc, Fields, startOneShot
<1> HIDE DEF c
<1>3. ASSUME ~d.parsing, d.requests = {}, d.delayCount = 0
      PROVE  /\ FitsBut(c, n, p, s) /\ c.calls = d.calls /\ c.suspended = d.suspended
             /\ \A name : Before(d, name) => Before(c, name)
  <2>1. /\ c.page = d.page /\ c.suspended = d.suspended /\ c.state = d.state /\ c.parsing = d.parsing
        /\ Tokens(c) = Tokens(d) /\ ModeOK(c) /\ c.calls = d.calls
    BY <1>2 DEF FitsBut, SameMode, ModeOK, Tokens, SameStack
  <2>2. WaitOK(c) /\ LoadOK(c) /\ Asserted(c)
    BY <1>0, <1>2, <1>3, <2>1 DEF FitsBut, WaitOK, SameWait, LoadOK, SameScripts, Asserted
  <2>3. AdmitsWith(c, Names(d.calls)) /\ QuietOK(c)
    BY <1>2, <2>1 DEF FitsBut, AdmitsWith, QuietOK, Quiet, SameMode, SameScheduler, isScheduledForResume,
                      SamePause, SameWait
  <2>4. FitsBut(c, n, p, s) /\ (isScheduledForResume(c) <=> isScheduledForResume(d))
    BY <1>2, <2>1, <2>2, <2>3, PhaseFits
  <2>5. \A name : Before(d, name) => Before(c, name)
    BY <1>2, <2>1, <2>4 DEF Before, Rests, Watched, SamePause, SameWait
  <2> QED BY <2>1, <2>4, <2>5
<1> QED BY <1>1, <1>3

LEMMA ReleaseResourcesGoes ==
    ASSUME NEW r, NEW resource, Ready(r, "releaseResources", resource)
    PROVE  Goes(releaseResources(r, resource))
<1> DEFINE e == [r EXCEPT !.requests = @ \ {resource}, !.requestJoin = @ \cup Now]
<1>1. FitsBut(r, 0, 0, 0)
  BY ReadyPlain DEF Nested, Pumped, Split
<1>2. /\ Pushable(r.calls, "releaseResources", resource, Tokens(r)) /\ ~r.suspended
      /\ Before(r, "releaseResources")
  BY DEF Ready
<1>3. r.calls = <<>> /\ Top(r.calls) = "none"
  BY <1>2 DEF Pushable, Calls, Top
<1>4. /\ SameOutside(r, e) /\ SamePause(r, e) /\ SameWait(r, e) /\ SameStack(r, e)
      /\ e.requests = r.requests \ {resource} /\ e.failed = r.failed /\ e.input = r.input
  BY <1>1 DEF FitsBut, SameOutside, SameMode, SameScheduler, SamePause, SameWait, SameRunner, SameStack,
              SameLoad, IsDoc, Fields
<1>5. releaseResources(r, resource) = checkCompleted(e)
  BY DEF releaseResources
<1> HIDE DEF e
<1>6. /\ IsDoc(e) /\ e.page = r.page /\ e.suspended = r.suspended /\ e.state = r.state
      /\ e.parsing = r.parsing /\ Tokens(e) = Tokens(r) /\ ModeOK(e) /\ e.calls = r.calls
  BY <1>1, <1>4 DEF FitsBut, SameOutside, SameMode, ModeOK, Tokens, SameStack
<1>7. WaitOK(e) /\ LoadOK(e) /\ Asserted(e)
  BY <1>1, <1>4, <1>6 DEF FitsBut, WaitOK, SameWait, LoadOK, SameOutside, SameLoad, SameRunner, Asserted
<1>8. AdmitsWith(e, Names(r.calls)) /\ QuietOK(e)
  BY <1>1, <1>4, <1>6 DEF FitsBut, AdmitsWith, QuietOK, Quiet, SameOutside, SameMode, SameScheduler,
                    isScheduledForResume, SamePause, SameWait
<1>9. FitsBut(e, 0, 0, 0) /\ (isScheduledForResume(e) <=> isScheduledForResume(r))
  BY <1>1, <1>4, <1>6, <1>7, <1>8, PhaseFits DEF SameOutside, SameRunner, SameScripts
<1>10. Before(e, "releaseResources")
  BY <1>2, <1>4, <1>6, <1>9 DEF Before, Rests, Watched, SamePause, SameWait
<1>11. Before(e, "none")
  BY <1>10 DEF Before, Bottom
<1> DEFINE f == checkCompleted(e)
<1>12. FitsBut(f, 0, 0, 0) /\ f.calls = r.calls /\ ~f.suspended /\ Before(f, "none")
  BY <1>2, <1>6, <1>9, <1>11, CheckCompletedFits
<1> HIDE DEF f
<1> QED BY <1>3, <1>5, <1>12 DEF Goes, DocOK, f

LEMMA EndGoes ==
    ASSUME NEW d, FitsBut(d, 0, 0, 0), Watched(d), ~d.suspended, d.state = "stopping", d.parsing,
           d.afterParsing = <<>>, Names(d.calls) \subseteq {"releaseResources"}
    PROVE  Goes(end(d))
<1> DEFINE c == check(d, ~isStopped(d) /\ ~isScheduledForResume(d))
           e == [c EXCEPT !.parsing = FALSE, !.parsingJoin = @ \cup Now]
           q == insertScripts(e, d.page.onContentLoaded)
<1>1. end(d) = checkCompleted(q)
  BY DEF end
<1>2. Quiet(d)
  BY DEF FitsBut, QuietOK
<1>3. SameDoc(d, c)
  BY <1>2, CheckHolds DEF FitsBut, isStopped, Quiet
<1> HIDE DEF c
<1>4. /\ IsDoc(e) /\ SameScheduler(c, e) /\ SamePause(c, e) /\ SameWait(c, e) /\ SameStack(c, e)
      /\ SameRunner(c, e) /\ SameLoad(c, e)
      /\ e.requests = c.requests /\ e.failed = c.failed /\ e.input = c.input /\ e.parsing = FALSE
      /\ e.page = c.page /\ e.state = c.state
      /\ e.finished = c.finished /\ e.endDelayed = c.endDelayed /\ e.suspended = c.suspended
      /\ e.chunks = c.chunks /\ e.suspends = c.suspends
  BY <1>3 DEF SameDoc, SameOutside, SameScheduler, SamePause, SameWait, SameRunner, SameStack,
              SameLoad, IsDoc, Fields
<1> HIDE DEF e
<1>5. /\ FitsBut(c, 0, 0, 0) /\ c.calls = d.calls /\ c.state = "stopping" /\ c.parsing = d.parsing
      /\ c.afterParsing = <<>> /\ c.suspended = d.suspended
  BY <1>3, SameFits DEF SameDoc, SameStack, SameOutside, SameMode, SameWait
<1>6. ModeOK(e) /\ Tokens(e) = Tokens(c) /\ e.calls = c.calls
  BY <1>4, <1>5 DEF FitsBut, ModeOK, Tokens, SameStack
<1>7. WaitOK(e) /\ LoadOK(e) /\ Asserted(e)
  BY <1>4, <1>5, <1>6 DEF FitsBut, WaitOK, SameWait, LoadOK, SameLoad, SameRunner, Asserted
<1>8. AdmitsWith(e, Names(c.calls)) /\ QuietOK(e)
  BY <1>4, <1>5, <1>6 DEF FitsBut, AdmitsWith, QuietOK, Quiet, SameScheduler,
                    isScheduledForResume, SamePause, SameWait
<1>9. FitsBut(e, 0, 0, 0)
  BY <1>4, <1>5, <1>6, <1>7, <1>8, PhaseFits DEF SameRunner, SameScripts
<1>10. e.watching = {} /\ Top(d.calls) \in Bottom \cup {"none"}
  <2>1. d.watching = {}
    BY DEF Watched
  <2>2. Top(d.calls) \in Bottom \cup {"none"}
    <3>1. CASE d.calls = <<>>
      BY <3>1 DEF Top
    <3>2. CASE d.calls # <<>>
      <4>1. Top(d.calls) \in Names(d.calls)
        BY <3>2, TopIn DEF FitsBut
      <4> QED BY <4>1 DEF Bottom
    <3> QED BY <3>1, <3>2
  <2> QED BY <1>3, <1>4, <2>1, <2>2 DEF SameDoc, SameWait
<1>11. Before(e, Top(d.calls))
  BY <1>4, <1>5, <1>10 DEF Before, Watched
<1>13. /\ FitsBut(q, 0, 0, 0) /\ q.calls = e.calls /\ q.suspended = e.suspended
       /\ Before(q, Top(d.calls))
  <2>1. d.page.onContentLoaded \in Seq(Tokens(e))
    BY <1>3, <1>6, PageFacts DEF FitsBut, SameDoc, SameOutside, SameMode, Tokens
  <2>2. Queues(e, q, 0)
    BY <1>9, <2>1, InsertScriptsDoes DEF FitsBut, LoadOK
  <2> HIDE DEF q
  <2> QED BY <1>9, <1>11, <2>2, QueueFits
<1> HIDE DEF q
<1> DEFINE f == checkCompleted(q)
<1>12. FitsBut(f, 0, 0, 0) /\ f.calls = d.calls /\ ~f.suspended /\ Before(f, Top(d.calls))
  BY <1>4, <1>5, <1>6, <1>13, CheckCompletedFits
<1> HIDE DEF f
<1> QED BY <1>1, <1>12 DEF Goes, DocOK, f

LEMMA ExecuteScriptsWaitingGoes ==
    ASSUME NEW d, FitsBut(d, 0, 0, 0), Watched(d), ~d.suspended, d.calls # <<>>,
           Top(d.calls) = "endIfNoneDeferred", Names(d.calls) \cap Nested = {},
           d.watching # {} => Head(d.afterParsing) \in d.loaded
    PROVE  Goes(executeScriptsWaitingForParsing(d))
<1> DEFINE first == Head(d.afterParsing)
           o == check(d, d.nesting = 0 /\ ~haveParsingBlockingScript(d))
<1>1. "endIfNoneDeferred" \in Names(d.calls) /\ "endIfNoneDeferred" \notin LastPump
  BY TopIn DEF FitsBut, LastPump
<1>2. /\ d.parsing /\ "stopParsing" \notin Names(d.calls)
      /\ d.state # "parsing" => Quiet(d) /\ Names(d.calls) \subseteq StopSteps
  BY <1>1, InScript
<1>3. d.state # "parsing"
  BY <1>1 DEF FitsBut, AdmitsWith, Stops
<1>8. SameDoc(d, o)
  <2>1. d.nesting = 0
    BY NotNested
  <2>2. ~haveParsingBlockingScript(d)
    BY <1>2, <1>3 DEF Quiet, haveParsingBlockingScript
  <2> QED BY <2>1, <2>2, CheckHolds DEF FitsBut
<1>4. CASE d.afterParsing = <<>>
  <2>1. executeScriptsWaitingForParsing(d) = d
    BY <1>4 DEF executeScriptsWaitingForParsing
  <2>2. Before(d, "endIfNoneDeferred")
    BY <1>3 DEF Before, Bottom
  <2> QED BY <2>1, <2>2 DEF Goes, DocOK
<1>5. ASSUME d.afterParsing # <<>>
      PROVE  first \in Tokens(d) /\ Tail(d.afterParsing) \in Seq(Tokens(d))
  BY <1>5 DEF FitsBut, WaitOK
<1>6. CASE d.afterParsing # <<>> /\ first \notin d.loaded
  <2> DEFINE c == check(o, first \notin d.watching)
             e == [c EXCEPT !.watching = @ \cup {first}]
  <2>1. executeScriptsWaitingForParsing(d) = e
    BY <1>6 DEF executeScriptsWaitingForParsing
  <2>2. d.watching = {}
    BY <1>6
  <2> HIDE DEF o
  <2>12. SameDoc(o, c)
    BY <1>8, <2>2, CheckHolds DEF SameDoc, SameOutside
  <2>3. SameDoc(d, c)
    BY <1>8, <2>12, SameDocTrans
  <2> HIDE DEF c
  <2>4. /\ SameOutside(c, e) /\ SamePause(c, e) /\ SameStack(c, e) /\ e.input = c.input
        /\ e.requests = c.requests /\ e.failed = c.failed /\ e.blocking = c.blocking
        /\ e.waitsForSheets = c.waitsForSheets /\ e.afterParsing = c.afterParsing
        /\ e.watching = c.watching \cup {first}
    BY <2>3 DEF SameDoc, SameOutside, SameMode, SameScheduler, SamePause, SameRunner, SameStack,
              SameLoad, IsDoc, Fields
  <2> HIDE DEF e, first
  <2>5. /\ FitsBut(c, 0, 0, 0) /\ c.calls = d.calls /\ c.state = d.state /\ Tokens(c) = Tokens(d)
        /\ c.afterParsing = d.afterParsing /\ c.suspended = d.suspended /\ c.watching = {}
    BY <2>2, <2>3, SameFits DEF SameDoc, SameStack, SameOutside, SameMode, SameWait, Tokens
  <2>6. Tokens(e) = Tokens(c) /\ e.calls = c.calls /\ e.state = c.state /\ e.suspended = c.suspended
    BY <2>4 DEF SameOutside, SameMode, Tokens, SameStack
  <2>7. PauseOK(e) /\ WaitOK(e) /\ StackedBut(e, 0, 0, 0)
    BY <1>5, <1>6, <2>4, <2>5, <2>6 DEF FitsBut, PauseOK, WaitOK, StackedBut, SamePause, SameStack, SameOutside,
                            SameMode
  <2>8. QuietOK(e)
    BY <2>4, <2>5, <2>6 DEF FitsBut, QuietOK, Quiet, SamePause, SameOutside, SameScheduler, isScheduledForResume
  <2>9. FitsBut(e, 0, 0, 0)
    BY <2>4, <2>5, <2>6, <2>7, <2>8, ParserFits DEF Asserted
  <2>10. Watched(e)
    BY <1>3, <1>6, <2>4, <2>5, <2>6 DEF Watched, first
  <2>11. Before(e, "endIfNoneDeferred")
    BY <1>3, <2>5, <2>6, <2>10 DEF Before, Bottom
  <2> QED BY <2>1, <2>5, <2>6, <2>9, <2>11 DEF Goes, DocOK
<1>7. CASE d.afterParsing # <<>> /\ first \in d.loaded
  <2> DEFINE t == [o EXCEPT !.afterParsing = Tail(@)]
             e == later(t, "executeScriptsWaitingForParsing", NoToken)
  <2>1. executeScriptsWaitingForParsing(d) = executePendingScript(e, first)
    BY <1>7 DEF executeScriptsWaitingForParsing
  <2> HIDE DEF o
  <2>11. /\ SameOutside(o, t) /\ SamePause(o, t) /\ SameStack(o, t) /\ t.input = o.input
         /\ t.requests = o.requests /\ t.failed = o.failed /\ t.blocking = o.blocking
         /\ t.waitsForSheets = o.waitsForSheets /\ t.afterParsing = Tail(o.afterParsing)
         /\ t.watching = o.watching
    BY <1>8 DEF SameDoc, SameOutside, SameMode, SameScheduler, SamePause, SameRunner, SameStack,
              SameLoad, IsDoc, Fields
  <2> HIDE DEF t, first
  <2>2. /\ SameOutside(d, t) /\ SamePause(d, t) /\ SameStack(d, t) /\ t.input = d.input
        /\ t.requests = d.requests /\ (Asserted(d) => Asserted(t)) /\ t.blocking = d.blocking
        /\ t.waitsForSheets = d.waitsForSheets /\ t.afterParsing = Tail(d.afterParsing)
        /\ t.watching = d.watching
    BY <1>8, <2>11 DEF SameDoc, SameOutside, SameMode, SameScheduler, SamePause, SameRunner, SameStack,
              SameLoad, SameWait, Asserted
  <2>3. Tokens(t) = Tokens(d) /\ t.calls = d.calls /\ t.state = d.state /\ t.suspended = d.suspended
        /\ t.parsing = d.parsing
    BY <2>2 DEF SameOutside, SameMode, Tokens, SameStack
  <2>4. PauseOK(t) /\ WaitOK(t) /\ StackedBut(t, 0, 0, 0)
    BY <1>2, <1>5, <1>7, <2>2, <2>3 DEF FitsBut, PauseOK, WaitOK, StackedBut, SamePause, SameStack, SameOutside,
                            SameMode
  <2>5. QuietOK(t)
    BY <2>2, <2>3 DEF FitsBut, QuietOK, Quiet, SamePause, SameOutside, SameScheduler, isScheduledForResume
  <2>6. FitsBut(t, 0, 0, 0) /\ (isScheduledForResume(t) <=> isScheduledForResume(d))
    BY <2>2, <2>3, <2>4, <2>5, ParserFits
  <2>7. /\ Pushable(t.calls, "executeScriptsWaitingForParsing", NoToken, Tokens(t))
        /\ AdmitsWith(t, Names(t.calls) \cup {"executeScriptsWaitingForParsing"})
        /\ "executeScriptsWaitingForParsing" \in StepNames \ (Nested \cup Pumped \cup Split)
    <3>1. Pushable(t.calls, "executeScriptsWaitingForParsing", NoToken, Tokens(t))
      BY <2>3 DEF Pushable, Calls, First, Outermost
    <3>2. AdmitsWith(t, Names(t.calls)) /\ ~isScheduledForResume(t)
      BY <1>2, <1>3, <2>6 DEF FitsBut, Quiet
    <3>3. AdmitsWith(t, Names(t.calls) \cup {"executeScriptsWaitingForParsing"})
      BY <1>2, <1>3, <2>3, <3>2 DEF AdmitsWith, StopSteps
    <3> QED BY <3>1, <3>3 DEF StepNames, Nested, Pumped, Split
  <2>8. /\ FitsBut(e, 0, 0, 0) /\ Top(e.calls) = "executeScriptsWaitingForParsing" /\ SameButCalls(t, e)
        /\ Names(e.calls) = Names(t.calls) \cup {"executeScriptsWaitingForParsing"}
        /\ e.calls # <<>> /\ Tokens(e) = Tokens(t)
    BY <2>6, <2>7, PushPlain
  <2> HIDE DEF e
  <2>9. /\ e.state # "parsing" /\ ~e.suspended /\ e.watching = d.watching
        /\ Names(e.calls) \cap Nested = {}
    BY <1>3, <2>2, <2>3, <2>8 DEF SameButCalls, SameOutside, SameMode, SameWait, Nested
  <2>10. first \in Tokens(e) /\ e.watching \subseteq {first}
    BY <1>3, <1>5, <1>7, <2>3, <2>8, <2>9 DEF Watched, first
  <2> QED BY <2>1, <2>8, <2>9, <2>10, ExecutePendingScriptGoes
<1> QED BY <1>4, <1>6, <1>7

LEMMA ExecuteScriptsWaitingStepGoes ==
    ASSUME NEW r, NEW arg, Ready(r, "executeScriptsWaitingForParsing", arg)
    PROVE  Goes(executeScriptsWaitingForParsing(r))
<1>1. FitsBut(r, 0, 0, 0)
  BY ReadyPlain DEF Nested, Pumped, Split
<1>2. /\ Pushable(r.calls, "executeScriptsWaitingForParsing", arg, Tokens(r)) /\ ~r.suspended
      /\ Before(r, "executeScriptsWaitingForParsing")
      /\ AdmitsWith(r, Names(r.calls) \cup {"executeScriptsWaitingForParsing"})
  BY DEF Ready
<1>3. r.calls # <<>> /\ Top(r.calls) = "endIfNoneDeferred" /\ Names(r.calls) \cap Nested = {}
  BY <1>2 DEF Pushable, Calls, Bottom, Outermost
<1>4. r.state # "parsing"
  BY <1>2 DEF AdmitsWith, Stops
<1>5. Watched(r) /\ r.watching = {}
  BY <1>2, <1>4 DEF Before, Bottom
<1> QED BY <1>1, <1>2, <1>3, <1>5, ExecuteScriptsWaitingGoes

LEMMA AttemptToRunDeferredGoes ==
    ASSUME NEW d, FitsBut(d, 0, 0, 0), Watched(d), ~d.suspended, d.state = "stopping", d.parsing,
           Names(d.calls) \subseteq {"releaseResources"},
           d.watching # {} => Head(d.afterParsing) \in d.loaded
    PROVE  Goes(attemptToRunDeferredScriptsAndEnd(d))
<1> DEFINE c == check(d, d.state = "stopping" /\ ~hasInsertionPoint(d))
           e == later(c, "endIfNoneDeferred", NoToken)
<1>1. attemptToRunDeferredScriptsAndEnd(d) = executeScriptsWaitingForParsing(e)
  BY DEF attemptToRunDeferredScriptsAndEnd
<1>2. ~hasInsertionPoint(d)
  <2>1. Names(d.calls) \cap Split = {} /\ StackedBut(d, 0, 0, 0)
    BY DEF Split, FitsBut
  <2>2. Count(d.calls, Split) = 0
    BY <2>1, Counts
  <2> QED BY <2>1, <2>2 DEF StackedBut, hasInsertionPoint
<1>3. SameDoc(d, c) /\ c.loaded = d.loaded
  <2>1. c.loaded = d.loaded
    BY DEF check, FitsBut, IsDoc, Fields
  <2> QED BY <1>2, <2>1, CheckHolds DEF FitsBut
<1> HIDE DEF c
<1>4. /\ FitsBut(c, 0, 0, 0) /\ c.calls = d.calls /\ c.state = "stopping" /\ c.parsing
      /\ c.afterParsing = d.afterParsing /\ ~c.suspended /\ c.watching = d.watching
  BY <1>3, SameFits DEF SameDoc, SameStack, SameOutside, SameMode, SameWait
<1>5. Top(d.calls) = "releaseResources" \/ d.calls = <<>>
  BY TopIn DEF FitsBut
<1>6. /\ Pushable(c.calls, "endIfNoneDeferred", NoToken, Tokens(c))
      /\ AdmitsWith(c, Names(c.calls) \cup {"endIfNoneDeferred"})
      /\ "endIfNoneDeferred" \in StepNames \ (Nested \cup Pumped \cup Split)
  <2>1. Pushable(c.calls, "endIfNoneDeferred", NoToken, Tokens(c))
    BY <1>4, <1>5 DEF Pushable, Calls, Bottom, First, Outermost
  <2>2. AdmitsWith(c, Names(c.calls)) /\ ~isScheduledForResume(c)
    BY <1>4 DEF FitsBut, QuietOK, Quiet
  <2>3. AdmitsWith(c, Names(c.calls) \cup {"endIfNoneDeferred"})
    BY <1>4, <2>2 DEF AdmitsWith, StopSteps
  <2> QED BY <2>1, <2>3 DEF StepNames, Nested, Pumped, Split
<1>7. /\ FitsBut(e, 0, 0, 0) /\ Top(e.calls) = "endIfNoneDeferred" /\ SameButCalls(c, e)
      /\ Names(e.calls) = Names(c.calls) \cup {"endIfNoneDeferred"} /\ e.calls # <<>>
  BY <1>4, <1>6, PushPlain
<1>8. e.loaded = c.loaded
  BY <1>3 DEF later, SameDoc, SameOutside, IsDoc, Fields
<1> HIDE DEF e
<1>9. Watched(e) /\ ~e.suspended /\ Names(e.calls) \cap Nested = {}
      /\ (e.watching # {} => Head(e.afterParsing) \in e.loaded)
  BY <1>3, <1>4, <1>7, <1>8 DEF Watched, SameButCalls, SameOutside, SameMode, SameWait, Nested
<1> QED BY <1>1, <1>7, <1>9, ExecuteScriptsWaitingGoes

LEMMA EndIfNoneDeferredGoes ==
    ASSUME NEW r, NEW arg, Ready(r, "endIfNoneDeferred", arg)
    PROVE  Goes(endIfNoneDeferred(r))
<1>1. FitsBut(r, 0, 0, 0)
  BY ReadyPlain DEF Nested, Pumped, Split
<1>2. /\ Pushable(r.calls, "endIfNoneDeferred", arg, Tokens(r)) /\ ~r.suspended
      /\ Before(r, "endIfNoneDeferred") /\ AdmitsWith(r, Names(r.calls) \cup {"endIfNoneDeferred"})
  BY DEF Ready
<1>3. Names(r.calls) \subseteq {"releaseResources"} /\ Top(r.calls) \in {"none", "releaseResources"}
  <2>1. Names(r.calls) \subseteq {"releaseResources"}
    BY <1>2 DEF Pushable, First
  <2> QED BY <1>1, <2>1, TopIn DEF FitsBut, Top
<1>4. r.state = "stopping" /\ r.parsing
  BY <1>1, <1>2 DEF AdmitsWith, Stops, FitsBut, ModeOK
<1>5. Watched(r)
  BY <1>2 DEF Before
<1>6. CASE r.afterParsing = <<>>
  <2>1. endIfNoneDeferred(r) = end(r)
    BY <1>6 DEF endIfNoneDeferred
  <2> QED BY <1>1, <1>2, <1>3, <1>4, <1>5, <1>6, <2>1, EndGoes
<1>7. CASE r.afterParsing # <<>>
  <2>1. endIfNoneDeferred(r) = r
    BY <1>7 DEF endIfNoneDeferred
  <2>2. Before(r, Top(r.calls))
    BY <1>3, <1>4, <1>5 DEF Before, Bottom
  <2> QED BY <1>1, <1>2, <2>1, <2>2 DEF Goes, DocOK
<1> QED BY <1>6, <1>7

LEMMA StopParsingGoes ==
    ASSUME NEW r, NEW arg, Ready(r, "stopParsing", arg)
    PROVE  Goes(stopParsing(r))
<1> DEFINE c == check(r, r.state = "parsing")
           e == [c EXCEPT !.state = "stopping"]
<1>1. FitsBut(r, 0, 0, 0)
  BY ReadyPlain DEF Nested, Pumped, Split
<1>2. /\ Pushable(r.calls, "stopParsing", arg, Tokens(r)) /\ ~r.suspended /\ Quiet(r)
      /\ Before(r, "stopParsing") /\ AdmitsWith(r, Names(r.calls) \cup {"stopParsing"})
  BY DEF Ready
<1>3. Names(r.calls) \subseteq {"releaseResources"}
  BY <1>2 DEF Pushable, First
<1>4. r.state = "parsing" /\ r.parsing /\ r.finished /\ r.endDelayed = FALSE
  BY <1>1, <1>2 DEF AdmitsWith, StopSteps, FitsBut, ModeOK
<1>5. r.watching = {}
  BY <1>1, <1>2, <1>4, PageFacts DEF Before, Watched, Quiet, FitsBut, WaitOK
<1>6. SameDoc(r, c)
  BY <1>1, <1>4, CheckHolds DEF FitsBut
<1>7. stopParsing(r) = attemptToRunDeferredScriptsAndEnd(e)
  BY <1>4 DEF stopParsing, isStopped
<1> HIDE DEF c
<1>8. /\ IsDoc(e) /\ SameScheduler(c, e) /\ SamePause(c, e) /\ SameWait(c, e) /\ SameStack(c, e)
      /\ SameRunner(c, e) /\ SameLoad(c, e)
      /\ e.requests = c.requests /\ e.failed = c.failed /\ e.input = c.input /\ e.parsing = c.parsing
      /\ e.page = c.page /\ e.state = "stopping"
      /\ e.finished = c.finished /\ e.endDelayed = c.endDelayed /\ e.suspended = c.suspended
      /\ e.chunks = c.chunks /\ e.suspends = c.suspends
  BY <1>6 DEF SameDoc, SameOutside, SameScheduler, SamePause, SameWait, SameRunner, SameStack,
              SameLoad, IsDoc, Fields
<1> HIDE DEF e
<1>9. /\ FitsBut(c, 0, 0, 0) /\ c.calls = r.calls /\ c.parsing /\ c.finished /\ c.endDelayed = FALSE
      /\ ~c.suspended /\ c.watching = {}
  BY <1>1, <1>2, <1>4, <1>5, <1>6, SameFits DEF SameDoc, SameStack, SameOutside, SameMode, SameWait
<1>10. ModeOK(e) /\ Tokens(e) = Tokens(c) /\ e.calls = c.calls
  BY <1>8, <1>9 DEF FitsBut, ModeOK, Tokens, SameStack
<1>11. WaitOK(e) /\ LoadOK(e) /\ Asserted(e)
  BY <1>8, <1>9, <1>10 DEF FitsBut, WaitOK, SameWait, LoadOK, SameLoad, SameRunner, Asserted
<1>12. AdmitsWith(e, Names(c.calls)) /\ QuietOK(e)
  <2>1. Quiet(e)
    BY <1>2, <1>6, <1>8 DEF Quiet, SameDoc, SameOutside, SameScheduler, isScheduledForResume, SamePause, SameWait
  <2> QED BY <1>3, <1>8, <1>9, <2>1 DEF AdmitsWith, QuietOK, StopSteps, Quiet
<1>13. FitsBut(e, 0, 0, 0)
  BY <1>8, <1>9, <1>10, <1>11, <1>12, PhaseFits DEF SameRunner, SameScripts
<1>14. /\ Watched(e) /\ ~e.suspended /\ e.parsing /\ e.watching = {}
       /\ Names(e.calls) \subseteq {"releaseResources"}
  BY <1>3, <1>8, <1>9, <1>10 DEF Watched, SameWait
<1> QED BY <1>7, <1>8, <1>13, <1>14, AttemptToRunDeferredGoes

LEMMA PrepareToStopParsingGoes ==
    ASSUME NEW d, FitsBut(d, 0, 0, 0), Watched(d), ~d.suspended, d.state = "parsing", Quiet(d),
           d.finished, d.endDelayed = FALSE, Names(d.calls) \subseteq {"releaseResources"}
    PROVE  Goes(prepareToStopParsing(d))
<1> DEFINE c == check(d, ~hasInsertionPoint(d))
           e == later(c, "stopParsing", NoToken)
<1>1. prepareToStopParsing(d) = pumpTokenizerIfPossible(e, "ForceSynchronous")
  BY DEF prepareToStopParsing
<1>2. ~hasInsertionPoint(d)
  <2>1. Names(d.calls) \cap Split = {} /\ StackedBut(d, 0, 0, 0)
    BY DEF Split, FitsBut
  <2>2. Count(d.calls, Split) = 0
    BY <2>1, Counts
  <2> QED BY <2>1, <2>2 DEF StackedBut, hasInsertionPoint
<1>3. SameDoc(d, c)
  BY <1>2, CheckHolds DEF FitsBut
<1> HIDE DEF c
<1>4. /\ FitsBut(c, 0, 0, 0) /\ c.calls = d.calls /\ c.state = "parsing" /\ c.finished
      /\ c.endDelayed = FALSE /\ ~c.suspended /\ c.watching = d.watching /\ c.blocking = d.blocking
  BY <1>3, SameFits DEF SameDoc, SameStack, SameOutside, SameMode, SameWait
<1>5. Quiet(c)
  BY <1>3 DEF Quiet, SameDoc, SameOutside, SameScheduler, isScheduledForResume, SamePause, SameWait
<1>6. Top(d.calls) = "releaseResources" \/ d.calls = <<>>
  BY TopIn DEF FitsBut
<1>7. /\ Pushable(c.calls, "stopParsing", NoToken, Tokens(c))
      /\ AdmitsWith(c, Names(c.calls) \cup {"stopParsing"})
      /\ "stopParsing" \in StepNames \ (Nested \cup Pumped \cup Split)
  <2>1. Pushable(c.calls, "stopParsing", NoToken, Tokens(c))
    BY <1>4, <1>6 DEF Pushable, Calls, Bottom, First, Outermost
  <2>2. AdmitsWith(c, Names(c.calls)) /\ ~isScheduledForResume(c) /\ c.parsing
    BY <1>4, <1>5 DEF FitsBut, Quiet, ModeOK
  <2>3. AdmitsWith(c, Names(c.calls) \cup {"stopParsing"})
    BY <1>4, <2>2 DEF AdmitsWith, Stops, LastPump
  <2> QED BY <2>1, <2>3 DEF StepNames, Nested, Pumped, Split
<1>8. /\ FitsBut(e, 0, 0, 0) /\ Top(e.calls) = "stopParsing" /\ SameButCalls(c, e) /\ e.calls # <<>>
      /\ isScheduledForResume(e) <=> isScheduledForResume(c)
  BY <1>4, <1>5, <1>7, PushPlain
<1> HIDE DEF e
<1>9. /\ Watched(e) /\ ~e.suspended /\ e.state = "parsing" /\ ~isScheduledForResume(e) /\ ~e.paused
      /\ e.blocking = NoToken /\ e.script = NoToken
  BY <1>4, <1>5, <1>8 DEF Watched, SameButCalls, SameOutside, SameMode, SameWait, SamePause, Quiet
<1>10. Calls("stopParsing", "endPump") /\ "ForceSynchronous" \in Modes /\ "ForceSynchronous" # "AllowYield"
  BY DEF Calls, Modes
<1> QED BY <1>1, <1>8, <1>9, <1>10, PumpTokenizerIfPossibleGoes

LEMMA EndIfDelayedGoes ==
    ASSUME NEW r, NEW arg, Ready(r, "endIfDelayed", arg)
    PROVE  Goes(endIfDelayed(r))
<1> DEFINE e == [r EXCEPT !.endDelayed = FALSE]
<1>1. FitsBut(r, 0, 0, 0)
  BY ReadyPlain DEF Nested, Pumped, Split
<1>2. /\ Pushable(r.calls, "endIfDelayed", arg, Tokens(r)) /\ ~r.suspended
      /\ Before(r, "endIfDelayed") /\ AdmitsWith(r, Names(r.calls) \cup {"endIfDelayed"})
  BY DEF Ready
<1>3. Names(r.calls) \subseteq {"releaseResources"} /\ Top(r.calls) \in {"none", "releaseResources"}
  <2>1. Names(r.calls) \subseteq {"releaseResources"}
    BY <1>2 DEF Pushable, First
  <2> QED BY <1>1, <2>1, TopIn DEF FitsBut, Top
<1>4. r.state = "parsing" /\ r.parsing
  BY <1>1, <1>2 DEF AdmitsWith, StopSteps, FitsBut, ModeOK
<1>5. Watched(r) /\ Rests(r)
  BY <1>2, <1>4 DEF Before, Bottom
<1>6. CASE ~r.endDelayed \/ shouldDelayEnd(r)
  <2>1. endIfDelayed(r) = r
    BY <1>6 DEF endIfDelayed
  <2>2. Before(r, Top(r.calls))
    BY <1>3, <1>4, <1>5 DEF Before, Bottom
  <2> QED BY <1>1, <1>2, <2>1, <2>2 DEF Goes, DocOK
<1>7. CASE r.endDelayed /\ ~shouldDelayEnd(r)
  <2>1. endIfDelayed(r) = prepareToStopParsing(e)
    BY <1>4, <1>7 DEF endIfDelayed, isStopped
  <2>2. /\ IsDoc(e) /\ SameScheduler(r, e) /\ SamePause(r, e) /\ SameWait(r, e) /\ SameStack(r, e)
        /\ SameRunner(r, e) /\ SameLoad(r, e)
        /\ e.requests = r.requests /\ e.failed = r.failed /\ e.input = r.input /\ e.parsing = r.parsing
        /\ e.page = r.page /\ e.state = r.state
        /\ e.finished = r.finished /\ e.endDelayed = FALSE /\ e.suspended = r.suspended
        /\ e.chunks = r.chunks /\ e.suspends = r.suspends
    BY <1>1 DEF FitsBut, SameScheduler, SamePause, SameWait, SameRunner, SameStack,
                SameLoad, IsDoc, Fields
  <2> HIDE DEF e
  <2>3. ModeOK(e) /\ Tokens(e) = Tokens(r) /\ e.calls = r.calls
    BY <1>1, <2>2 DEF FitsBut, ModeOK, Tokens, SameStack
  <2>4. WaitOK(e) /\ LoadOK(e) /\ Asserted(e)
    BY <1>1, <2>2, <2>3 DEF FitsBut, WaitOK, SameWait, LoadOK, SameLoad, SameRunner, Asserted
  <2>5. AdmitsWith(e, Names(r.calls)) /\ QuietOK(e)
    BY <1>1, <2>2, <2>3 DEF FitsBut, AdmitsWith, QuietOK, Quiet, SameScheduler, isScheduledForResume,
                            SamePause, SameWait
  <2>6. FitsBut(e, 0, 0, 0)
    BY <1>1, <2>2, <2>3, <2>4, <2>5, PhaseFits DEF SameRunner, SameScripts
  <2>7. Quiet(r)
    BY <1>5, <1>7 DEF shouldDelayEnd, Rests, Quiet
  <2>8. Quiet(e)
    BY <2>2, <2>7 DEF Quiet, SameScheduler, isScheduledForResume, SamePause, SameWait
  <2>9. Watched(e) /\ ~e.suspended /\ e.state = "parsing" /\ e.finished
    BY <1>1, <1>2, <1>4, <1>5, <1>7, <2>2 DEF Watched, SameWait, FitsBut, ModeOK
  <2> QED BY <1>3, <2>1, <2>2, <2>3, <2>6, <2>8, <2>9, PrepareToStopParsingGoes
<1>8. r.endDelayed \in BOOLEAN
  BY <1>1 DEF FitsBut, ModeOK
<1> QED BY <1>6, <1>7, <1>8

LEMMA ResumeAfterScriptGoes ==
    ASSUME NEW d, FitsBut(d, 0, 0, 0), Watched(d), ~d.suspended, Busy(d), ~d.paused, d.blocking = NoToken,
           Names(d.calls) \subseteq {"releaseResources"}
    PROVE  Goes(resumeParsingAfterScriptExecution(d))
<1> DEFINE c == check(d, d.nesting = 0 /\ ~d.paused)
           m == modifiesInput(c)
           e == later(m, "endIfDelayed", NoToken)
<1>1. resumeParsingAfterScriptExecution(d) = pumpTokenizerIfPossible(e, "AllowYield")
  BY DEF resumeParsingAfterScriptExecution
<1>2. d.nesting = 0
  <2>1. Names(d.calls) \cap Nested = {} /\ StackedBut(d, 0, 0, 0)
    BY DEF Nested, FitsBut
  <2>2. Count(d.calls, Nested) = 0
    BY <2>1, Counts
  <2> QED BY <2>1, <2>2 DEF StackedBut
<1>3. SameDoc(d, c)
  BY <1>2, CheckHolds DEF FitsBut
<1>4. SameDoc(c, m)
  BY <1>3, LabelsOnly DEF SameDoc, SameOutside
<1> HIDE DEF c, m
<1>5. FitsBut(c, 0, 0, 0)
  BY <1>3, SameFits
<1>6. FitsBut(m, 0, 0, 0)
  BY <1>4, <1>5, SameFits
<1>7. /\ m.calls = d.calls /\ m.state = "parsing" /\ ~m.suspended /\ m.watching = d.watching
      /\ m.blocking = NoToken /\ m.script = NoToken /\ ~m.paused /\ ~isScheduledForResume(m)
  BY <1>3, <1>4 DEF SameDoc, SameStack, SameOutside, SameMode, SameWait, SamePause, SameScheduler,
                    isScheduledForResume, Busy
<1>8. Top(d.calls) = "releaseResources" \/ d.calls = <<>>
  BY TopIn DEF FitsBut
<1>9. /\ Pushable(m.calls, "endIfDelayed", NoToken, Tokens(m))
      /\ AdmitsWith(m, Names(m.calls) \cup {"endIfDelayed"})
      /\ "endIfDelayed" \in StepNames \ (Nested \cup Pumped \cup Split)
  <2>1. Pushable(m.calls, "endIfDelayed", NoToken, Tokens(m))
    BY <1>7, <1>8 DEF Pushable, Calls, Bottom, First, Outermost
  <2>2. AdmitsWith(m, Names(m.calls)) /\ m.parsing
    BY <1>6, <1>7 DEF FitsBut, ModeOK
  <2>3. AdmitsWith(m, Names(m.calls) \cup {"endIfDelayed"})
    BY <1>7, <2>2 DEF AdmitsWith, Stops
  <2> QED BY <2>1, <2>3 DEF StepNames, Nested, Pumped, Split
<1>10. /\ FitsBut(e, 0, 0, 0) /\ Top(e.calls) = "endIfDelayed" /\ SameButCalls(m, e) /\ e.calls # <<>>
      /\ (isScheduledForResume(e) <=> isScheduledForResume(m))
      /\ Names(e.calls) = Names(m.calls) \cup {"endIfDelayed"}
  BY <1>6, <1>9, PushPlain
<1> HIDE DEF e
<1>11. /\ Watched(e) /\ ~e.suspended /\ e.state = "parsing" /\ ~isScheduledForResume(e) /\ ~e.paused
       /\ e.blocking = NoToken /\ e.script = NoToken /\ Names(e.calls) \subseteq Yielding
  BY <1>7, <1>10 DEF Watched, SameButCalls, SameOutside, SameMode, SameWait, SamePause, Yielding, Busy
<1>12. Calls("endIfDelayed", "endPump") /\ "AllowYield" \in Modes
  BY DEF Calls, Modes
<1> QED BY <1>1, <1>10, <1>11, <1>12, PumpTokenizerIfPossibleGoes

\* The parser is paused, or not, and nothing else changes.
LEMMA PauseFits ==
    ASSUME NEW d, FitsBut(d, 0, 0, 0), d.state = "parsing", "stopParsing" \notin Names(d.calls), NEW paused \in BOOLEAN
    PROVE  LET e == [d EXCEPT !.paused = paused]
           IN  /\ FitsBut(e, 0, 0, 0) /\ SameOutside(d, e) /\ SameWait(d, e) /\ SameStack(d, e)
               /\ e.script = d.script /\ e.paused = paused /\ e.input = d.input
               /\ isScheduledForResume(e) <=> isScheduledForResume(d)
<1> DEFINE e == [d EXCEPT !.paused = paused]
<1>1. /\ SameOutside(d, e) /\ SameWait(d, e) /\ SameStack(d, e) /\ e.script = d.script
      /\ e.input = d.input /\ e.requests = d.requests /\ e.failed = d.failed
      /\ e.paused = paused
  BY DEF FitsBut, SameOutside, SameMode, SameScheduler, SameWait, SameStack, SameRunner, SameLoad, IsDoc, Fields
<1> HIDE DEF e
<1>2. Tokens(e) = Tokens(d) /\ e.state = d.state /\ e.calls = d.calls
  BY <1>1 DEF SameOutside, SameMode, Tokens, SameStack
<1>3. PauseOK(e) /\ WaitOK(e) /\ QuietOK(e) /\ StackedBut(e, 0, 0, 0)
  BY <1>1, <1>2 DEF FitsBut, PauseOK, WaitOK, QuietOK, StackedBut, SameWait, SameStack,
                                      SameOutside, SameMode
<1>4. FitsBut(e, 0, 0, 0) /\ (isScheduledForResume(e) <=> isScheduledForResume(d))
  BY <1>1, <1>2, <1>3, ParserFits DEF Asserted
<1> QED BY <1>1, <1>4 DEF e

LEMMA ResumeUnlessBlockedGoes ==
    ASSUME NEW r, NEW arg, Ready(r, "resumeUnlessBlocked", arg)
    PROVE  Goes(resumeUnlessBlocked(r))
<1>1. FitsBut(r, 0, 0, 0)
  BY ReadyPlain DEF Nested, Pumped, Split
<1>2. /\ Pushable(r.calls, "resumeUnlessBlocked", arg, Tokens(r)) /\ ~r.suspended
      /\ Before(r, "resumeUnlessBlocked") /\ AdmitsWith(r, Names(r.calls) \cup {"resumeUnlessBlocked"})
  BY DEF Ready
<1>3. Names(r.calls) \subseteq {"releaseResources"} /\ Top(r.calls) \in {"none", "releaseResources"}
  <2>1. Names(r.calls) \subseteq {"releaseResources"}
    BY <1>2 DEF Pushable, First
  <2> QED BY <1>1, <2>1, TopIn DEF FitsBut, Top
<1>4. r.state = "parsing" /\ "stopParsing" \notin Names(r.calls)
  BY <1>2, <1>3 DEF AdmitsWith, StopSteps
<1>5. Watched(r) /\ Busy(r)
  BY <1>2, <1>4 DEF Before, Bottom, Busy
<1>6. CASE haveParsingBlockingScript(r)
  <2> DEFINE e == [r EXCEPT !.paused = TRUE]
  <2>1. resumeUnlessBlocked(r) = e
    BY <1>6 DEF resumeUnlessBlocked
  <2>2. /\ FitsBut(e, 0, 0, 0) /\ SameOutside(r, e) /\ SameWait(r, e) /\ SameStack(r, e)
        /\ e.script = r.script /\ e.paused = TRUE /\ e.input = r.input
        /\ isScheduledForResume(e) <=> isScheduledForResume(r)
    BY <1>1, <1>4, PauseFits
  <2> HIDE DEF e
  <2>3. e.state = "parsing" /\ ~e.suspended /\ Watched(e) /\ Rests(e) /\ e.calls = r.calls
    BY <1>2, <1>4, <1>5, <1>6, <2>2 DEF SameOutside, SameMode, SameWait, SameStack, Watched, Rests, Busy,
                                   haveParsingBlockingScript
  <2>4. Before(e, Top(e.calls))
    BY <1>3, <2>3 DEF Before, Bottom
  <2> QED BY <2>1, <2>2, <2>3, <2>4 DEF Goes, DocOK
<1>7. CASE ~haveParsingBlockingScript(r)
  <2> DEFINE e == [r EXCEPT !.paused = FALSE]
  <2>1. resumeUnlessBlocked(r) = resumeParsingAfterScriptExecution(e)
    BY <1>7 DEF resumeUnlessBlocked
  <2>2. /\ FitsBut(e, 0, 0, 0) /\ SameOutside(r, e) /\ SameWait(r, e) /\ SameStack(r, e)
        /\ e.script = r.script /\ e.paused = FALSE /\ e.input = r.input
        /\ isScheduledForResume(e) <=> isScheduledForResume(r)
    BY <1>1, <1>4, PauseFits
  <2> HIDE DEF e
  <2>3. Busy(e) /\ ~e.suspended /\ Watched(e) /\ e.calls = r.calls /\ e.blocking = NoToken
    BY <1>2, <1>4, <1>5, <1>7, <2>2 DEF SameOutside, SameMode, SameWait, SameStack, Watched, Busy,
                                   haveParsingBlockingScript
  <2> QED BY <1>3, <2>1, <2>2, <2>3, ResumeAfterScriptGoes
<1> QED BY <1>6, <1>7

LEMMA UnpauseGoes ==
    ASSUME NEW d, FitsBut(d, 0, 0, 0), Watched(d), ~d.suspended, Busy(d), d.paused,
           d.calls # <<>>, Names(d.calls) \subseteq {"releaseResources"}
    PROVE  Goes(unpause(d))
<1> DEFINE c == check(d, d.paused /\ d.nesting = 0)
           f == [c EXCEPT !.paused = FALSE]
           e == later(f, "resumeUnlessBlocked", NoToken)
<1>1. unpause(d) = executeParsingBlockingScripts(e)
  BY DEF unpause
<1>2. d.nesting = 0 /\ Top(d.calls) = "releaseResources"
  <2>1. Names(d.calls) \cap Nested = {} /\ StackedBut(d, 0, 0, 0)
    BY DEF Nested, FitsBut
  <2>2. Count(d.calls, Nested) = 0
    BY <2>1, Counts
  <2>3. d.nesting = 0
    BY <2>1, <2>2 DEF StackedBut
  <2>4. Top(d.calls) \in Names(d.calls)
    BY <2>1, TopIn
  <2>5. Top(d.calls) = "releaseResources"
    BY <2>4
  <2> QED BY <2>3, <2>5
<1>3. SameDoc(d, c)
  BY <1>2, CheckHolds DEF FitsBut
<1> HIDE DEF c
<1>4. /\ FitsBut(c, 0, 0, 0) /\ c.calls = d.calls /\ c.state = "parsing" /\ ~c.suspended
      /\ c.watching = d.watching /\ c.script = NoToken /\ ~isScheduledForResume(c)
      /\ c.blocking = d.blocking
  BY <1>3, SameFits DEF SameDoc, SameStack, SameOutside, SameMode, SameWait, SamePause, SameScheduler,
                        isScheduledForResume, Busy
<1>5. /\ FitsBut(f, 0, 0, 0) /\ SameOutside(c, f) /\ SameWait(c, f) /\ SameStack(c, f)
      /\ f.script = c.script /\ (isScheduledForResume(f) <=> isScheduledForResume(c))
  <2>1. "stopParsing" \notin Names(c.calls) /\ FALSE \in BOOLEAN
    BY <1>4
  <2> QED BY <1>4, <2>1, PauseFits
<1> HIDE DEF f
<1>6. /\ f.calls = d.calls /\ f.state = "parsing" /\ ~f.suspended /\ f.watching = d.watching
      /\ f.script = NoToken /\ ~isScheduledForResume(f) /\ f.blocking = d.blocking
  BY <1>4, <1>5 DEF SameOutside, SameMode, SameWait, SameStack
<1>7. /\ Pushable(f.calls, "resumeUnlessBlocked", NoToken, Tokens(f))
      /\ AdmitsWith(f, Names(f.calls) \cup {"resumeUnlessBlocked"})
      /\ "resumeUnlessBlocked" \in StepNames \ (Nested \cup Pumped \cup Split)
  <2>1. Pushable(f.calls, "resumeUnlessBlocked", NoToken, Tokens(f))
    BY <1>2, <1>6 DEF Pushable, Calls, Bottom, First, Outermost
  <2>2. AdmitsWith(f, Names(f.calls)) /\ f.parsing
    BY <1>5, <1>6 DEF FitsBut, ModeOK
  <2>3. AdmitsWith(f, Names(f.calls) \cup {"resumeUnlessBlocked"})
    BY <1>6, <2>2 DEF AdmitsWith, Stops
  <2> QED BY <2>1, <2>3 DEF StepNames, Nested, Pumped, Split
<1>8. /\ FitsBut(e, 0, 0, 0) /\ Top(e.calls) = "resumeUnlessBlocked" /\ SameButCalls(f, e) /\ e.calls # <<>>
      /\ (isScheduledForResume(e) <=> isScheduledForResume(f))
      /\ Names(e.calls) = Names(f.calls) \cup {"resumeUnlessBlocked"}
  BY <1>5, <1>7, PushPlain
<1> HIDE DEF e
<1>9. /\ Watched(e) /\ ~e.suspended /\ Busy(e) /\ Names(e.calls) \cap Nested = {}
  BY <1>6, <1>8 DEF Watched, SameButCalls, SameOutside, SameMode, SameWait, SamePause, Nested, Busy
<1> QED BY <1>1, <1>8, <1>9, ExecuteParsingBlockingScriptsGoes

-----------------------------------------------------------------------------
(* The stack is emptied. *)

LEMMA StepGoes ==
    ASSUME NEW d, Goes(d), d.calls # <<>>
    PROVE  Goes(step(d))
<1> DEFINE top == d.calls[Len(d.calls)]
           name == top.name
           arg == top.arg
           r == [d EXCEPT !.calls = SubSeq(@, 1, Len(@) - 1)]
<1>1. step(d) =
        CASE name = "takeTokens" -> takeTokens(r, arg)
          [] name = "pauseIfBlocked" -> pauseIfBlocked(r, arg)
          [] name = "endPump" -> endPump(r)
          [] name = "endInsert" -> endInsert(r)
          [] name = "insertScripts" -> insertScripts(r, d.page.inserts[arg])
          [] name = "leaveOutermost" -> leaveOutermost(r)
          [] name = "nextBlockingScript" -> nextBlockingScript(r)
          [] name = "endRunScript" -> endRunScript(r)
          [] name = "executeScriptsWaitingForParsing" -> executeScriptsWaitingForParsing(r)
          [] name = "endIfNoneDeferred" -> endIfNoneDeferred(r)
          [] name = "stopParsing" -> stopParsing(r)
          [] name = "endIfDelayed" -> endIfDelayed(r)
          [] name = "resumeUnlessBlocked" -> resumeUnlessBlocked(r)
          [] name = "releaseResources" -> releaseResources(r, arg)
  BY DEF step
<1>2. r.page = d.page /\ r.suspended = d.suspended
  BY DEF Goes, DocOK, FitsBut, IsDoc, Fields
<1>3. Ready(r, name, arg) /\ name \in StepNames
  <2>1. DocOK(d)
    BY DEF Goes
  <2>2. /\ FitsBut(r, Bit(name, Nested), Bit(name, Pumped), Bit(name, Split))
        /\ name \in StepNames /\ arg \in Tokens(r) \cup Modes \cup {NoToken}
        /\ Pushable(r.calls, name, arg, Tokens(r)) /\ AdmitsWith(r, Names(r.calls) \cup {name})
        /\ Before(r, name) /\ (name = "stopParsing" => Quiet(r))
    BY <2>1, PopFits
  <2> HIDE DEF r, name, arg
  <2> QED BY <1>2, <2>2 DEF Ready, Goes
<1> HIDE DEF r, name, arg, top
<1>4. CASE name = "takeTokens"
  BY <1>1, <1>3, <1>4, TakeTokensGoes
<1>5. CASE name = "pauseIfBlocked"
  BY <1>1, <1>3, <1>5, PauseIfBlockedGoes
<1>6. CASE name = "endPump"
  BY <1>1, <1>3, <1>6, EndPumpGoes
<1>7. CASE name = "endInsert"
  BY <1>1, <1>3, <1>7, EndInsertGoes
<1>8. CASE name = "insertScripts"
  BY <1>1, <1>2, <1>3, <1>8, InsertScriptsGoes
<1>9. CASE name = "leaveOutermost"
  BY <1>1, <1>3, <1>9, LeaveOutermostGoes
<1>10. CASE name = "nextBlockingScript"
  BY <1>1, <1>3, <1>10, NextBlockingScriptGoes
<1>11. CASE name = "endRunScript"
  BY <1>1, <1>3, <1>11, EndRunScriptGoes
<1>12. CASE name = "executeScriptsWaitingForParsing"
  BY <1>1, <1>3, <1>12, ExecuteScriptsWaitingStepGoes
<1>13. CASE name = "endIfNoneDeferred"
  BY <1>1, <1>3, <1>13, EndIfNoneDeferredGoes
<1>14. CASE name = "stopParsing"
  BY <1>1, <1>3, <1>14, StopParsingGoes
<1>15. CASE name = "endIfDelayed"
  BY <1>1, <1>3, <1>15, EndIfDelayedGoes
<1>16. CASE name = "resumeUnlessBlocked"
  BY <1>1, <1>3, <1>16, ResumeUnlessBlockedGoes
<1>17. CASE name = "releaseResources"
  BY <1>1, <1>3, <1>17, ReleaseResourcesGoes
<1> QED BY <1>3, <1>4, <1>5, <1>6, <1>7, <1>8, <1>9, <1>10, <1>11, <1>12, <1>13, <1>14, <1>15, <1>16,
           <1>17 DEF StepNames

\* One round of run.
Stepped(b) == IF b.calls = <<>> THEN b ELSE step(b)

\* f is the function run defines, up to n.
Running(f, d, n) == f = [i \in 0..n |-> IF i = 0 THEN d ELSE Stepped(f[i - 1])]

LEMMA RunningExists ==
    ASSUME NEW d, NEW n \in Nat
    PROVE  \E f : Running(f, d, n)
<1> DEFINE T == {k \in Nat : ~\E f : Running(f, d, k)}
<1>1. ASSUME T # {} PROVE FALSE
  <2>1. PICK k \in T : \A j \in T : ~(j < k)
    <3>1. T \subseteq Nat
      OBVIOUS
    <3> HIDE DEF T
    <3> QED BY <1>1, <3>1, LeastOf
  <2>2. CASE k = 0
    <3> DEFINE f == [i \in 0..0 |-> d]
    <3>1. f = [i \in 0..0 |-> IF i = 0 THEN d ELSE Stepped(f[i - 1])]
      OBVIOUS
    <3>2. Running(f, d, 0)
      BY <3>1 DEF Running
    <3> QED BY <2>2, <3>2
  <2>3. CASE k # 0
    <3>1. k - 1 \in Nat /\ k - 1 \notin T
      BY <2>1, <2>3
    <3>2. PICK g : Running(g, d, k - 1)
      BY <3>1
    <3> DEFINE f == [i \in 0..k |-> IF i = 0 THEN d ELSE Stepped(g[i - 1])]
    <3>3. ASSUME NEW i \in 0..(k - 1) PROVE f[i] = g[i]
      <4>1. i \in 0..k
        BY <3>1
      <4>2. g = [j \in 0..(k - 1) |-> IF j = 0 THEN d ELSE Stepped(g[j - 1])]
        BY <3>2 DEF Running
      <4>3. g[i] = IF i = 0 THEN d ELSE Stepped(g[i - 1])
        BY <4>2
      <4> QED BY <4>1, <4>3
    <3>4. \A i \in 0..k : i # 0 => i - 1 \in 0..(k - 1)
      BY <3>1
    <3>5. f = [i \in 0..k |-> IF i = 0 THEN d ELSE Stepped(f[i - 1])]
      <4>1. \A i \in 0..k : i # 0 => f[i - 1] = g[i - 1]
        BY <3>3, <3>4
      <4> QED BY <4>1
    <3>6. Running(f, d, k)
      BY <3>5 DEF Running
    <3> QED BY <3>6
  <2> QED BY <2>2, <2>3
<1> QED BY <1>1

-----------------------------------------------------------------------------
(* Only the timer of the load event makes a document complete. *)

Keeps(d, e) ==
    /\ IsDoc(e) /\ e.isComplete = d.isComplete /\ e.page = d.page /\ e.loaded = d.loaded
    /\ e.ran = d.ran /\ e.lastInOrder = d.lastInOrder /\ d.now \subseteq e.now /\ e.late = d.late
    /\ e.misfired = d.misfired /\ (d.strayed => e.strayed)
    /\ Ordered(d, d.now, {}) => Ordered(e, e.now, {})

\* ... and most operations do nothing to the scripts of the script runner.
Plain(d, e) ==
    /\ IsDoc(e) /\ e.isComplete = d.isComplete /\ e.page = d.page /\ e.loaded = d.loaded
    /\ e.ran = d.ran /\ e.lastInOrder = d.lastInOrder /\ d.now \subseteq e.now /\ e.late = d.late
    /\ e.eventActionToFinish = d.eventActionToFinish /\ e.asyncTimers = d.asyncTimers
    /\ e.inOrderTimer = d.inOrderTimer /\ e.runnerSuspended = d.runnerSuspended
    /\ e.inOrder = d.inOrder /\ e.misfired = d.misfired /\ e.strayed = d.strayed

LEMMA KeepsTrans ==
    ASSUME NEW d, NEW e, NEW f, Keeps(d, e), Keeps(e, f)
    PROVE  Keeps(d, f)
BY DEF Keeps

LEMMA AddArcPlain ==
    ASSUME NEW d, IsDoc(d), NEW labels
    PROVE  Plain(d, addArc(d, labels))
BY DEF Plain, IsDoc, Fields, addArc

LEMMA CheckPlain ==
    ASSUME NEW d, IsDoc(d), NEW holds
    PROVE  Plain(d, check(d, holds))
BY DEF Plain, IsDoc, Fields, check

LEMMA RequestPlain ==
    ASSUME NEW d, IsDoc(d), NEW resources
    PROVE  Plain(d, request(d, resources))
BY DEF Plain, IsDoc, Fields, request

LEMMA LaterPlain ==
    ASSUME NEW d, IsDoc(d), NEW name, NEW arg
    PROVE  Plain(d, later(d, name, arg))
BY DEF Plain, IsDoc, Fields, later

LEMMA ModifiesInputPlain ==
    ASSUME NEW d, IsDoc(d)
    PROVE  Plain(d, modifiesInput(d))
BY DEF Plain, IsDoc, Fields, modifiesInput, addArc

LEMMA ChainPlain ==
    ASSUME NEW d, IsDoc(d)
    PROVE  Plain(d, chain(d))
BY DEF Plain, IsDoc, Fields, chain, addArc

LEMMA ScheduleForResumePlain ==
    ASSUME NEW d, IsDoc(d)
    PROVE  Plain(d, scheduleForResume(d))
BY DEF Plain, IsDoc, Fields, scheduleForResume

LEMMA CheckCompletedPlain ==
    ASSUME NEW d, IsDoc(d)
    PROVE  Plain(d, checkCompleted(d))
BY DEF Plain, IsDoc, Fields, checkCompleted

LEMMA ConstructTreePlain ==
    ASSUME NEW d, IsDoc(d)
    PROVE  Plain(d, constructTreeFromToken(d))
BY DEF Plain, IsDoc, Fields, constructTreeFromToken, request

LEMMA ScanPreloadsPlain ==
    ASSUME NEW d, IsDoc(d)
    PROVE  Plain(d, scanPreloads(d))
BY DEF Plain, IsDoc, Fields, scanPreloads, request

LEMMA OrderedGrows ==
    ASSUME NEW d, NEW now, NEW but, Ordered(d, now, but), NEW e, NEW then, now \subseteq then,
           e.page = d.page, e.loaded = d.loaded,
           e.eventActionToFinish = d.eventActionToFinish, e.asyncTimers = d.asyncTimers,
           e.inOrderTimer = d.inOrderTimer, e.runnerSuspended = d.runnerSuspended,
           e.inOrder = d.inOrder, e.strayed = d.strayed
    PROVE  Ordered(e, then, but)
<1>1. Tokens(e) = Tokens(d)
  BY DEF Tokens
<1>2. \A action, label : Has(action, now, label) => Has(action, then, label)
  BY DEF Has
<1> QED BY <1>1, <1>2 DEF Ordered

LEMMA ExecutedGrows ==
    ASSUME NEW d, NEW now, Executed(d, now), NEW e, NEW then, now \subseteq then,
           e.page = d.page, e.ran = d.ran, e.lastInOrder = d.lastInOrder,
           e.misfired = d.misfired, d.strayed => e.strayed
    PROVE  Executed(e, then)
<1>1. Tokens(e) = Tokens(d)
  BY DEF Tokens
<1>2. \A action, label : Has(action, now, label) => Has(action, then, label)
  BY DEF Has
<1> QED BY <1>1, <1>2 DEF Executed

LEMMA SameLogged ==
    ASSUME NEW d, NEW now, Logged(d, now), NEW e, SameLog(d, e), NEW then, now \subseteq then
    PROVE  Logged(e, then)
BY OrderedGrows, ExecutedGrows DEF Logged, SameLog, Addable, Tokens

LEMMA KeepsLogged ==
    ASSUME NEW d, Logged(d, d.now), NEW e, Keeps(d, e)
    PROVE  Logged(e, e.now)
BY ExecutedGrows DEF Keeps, Logged, Addable, Tokens

LEMMA PlainKeeps ==
    ASSUME NEW d, NEW e, Plain(d, e)
    PROVE  Keeps(d, e)
<1>1. Ordered(d, d.now, {}) => Ordered(e, e.now, {})
  BY OrderedGrows DEF Plain
<1> QED BY <1>1 DEF Plain, Keeps

\* What changes the script runner but neither runs nor forgets a script.
Runs(d, e) ==
    /\ IsDoc(e) /\ e.isComplete = d.isComplete /\ e.page = d.page /\ e.loaded = d.loaded
    /\ e.ran = d.ran /\ e.lastInOrder = d.lastInOrder /\ d.now \subseteq e.now /\ e.late = d.late
    /\ e.misfired = d.misfired /\ (d.strayed => e.strayed)

LEMMA UpdateInOrderTimerRuns ==
    ASSUME NEW d, IsDoc(d)
    PROVE  /\ Runs(d, updateInOrderTimer(d))
           /\ \A but : Ordered(d, d.now, but) => Ordered(updateInOrderTimer(d), d.now, but)
<1> DEFINE t == startOneShot(d.inOrderTimer)
           u == [d EXCEPT !.inOrderTimer = t, !.strayed = @ \/ d.suspended]
           stays == d.inOrder = <<>> \/ Head(d.inOrder) \notin d.loaded \/ isActive(d.inOrderTimer)
<1>1. updateInOrderTimer(d) = IF stays THEN d ELSE u
  BY DEF updateInOrderTimer
<1> HIDE DEF t
<1>2. /\ Runs(d, u) /\ u.eventActionToFinish = d.eventActionToFinish /\ u.asyncTimers = d.asyncTimers
      /\ u.runnerSuspended = d.runnerSuspended /\ u.inOrder = d.inOrder /\ u.now = d.now
      /\ Runs(d, d)
  BY DEF Runs, IsDoc, Fields
<1> HIDE DEF u
<1>3. ASSUME NEW but, Ordered(d, d.now, but), ~stays PROVE Ordered(u, d.now, but)
  <2>1. Tokens(u) = Tokens(d)
    BY <1>2 DEF Tokens, Runs
  <2>2. u.inOrder # <<>> /\ Head(u.inOrder) \in u.loaded
    BY <1>2, <1>3 DEF Runs
  <2> QED BY <1>2, <1>3, <2>1, <2>2 DEF Ordered, Runs
<1>4. CASE stays
  <2>1. updateInOrderTimer(d) = d
    BY <1>1, <1>4
  <2> QED BY <1>2, <2>1
<1>5. CASE ~stays
  <2>1. updateInOrderTimer(d) = u
    BY <1>1, <1>5
  <2> QED BY <1>2, <1>3, <1>5, <2>1
<1> QED BY <1>4, <1>5

LEMMA NotifyScriptReadyRuns ==
    ASSUME NEW d, IsDoc(d), NEW script \in Tokens(d)
    PROVE  /\ Runs(d, notifyScriptReady(d, script))
           /\ Ordered(d, d.now, {script}) =>
                 Ordered(notifyScriptReady(d, script), notifyScriptReady(d, script).now, {})
<1> DEFINE r == [d EXCEPT !.eventActionToFinish[script] = Now, !.now = @ \cup {<<"ready", script>>}]
           c == check(r, script \in d.async)
           t == startOneShot(NewTimer)
           a == [c EXCEPT !.async = @ \ {script}, !.asyncTimers[script] = t]
           c2 == check(r, d.inOrder # <<>>)
           u == updateInOrderTimer(c2)
<1>1. notifyScriptReady(d, script) = IF IsAsync(d, script) THEN a ELSE u
  BY DEF notifyScriptReady
<1>2. /\ Runs(d, r) /\ r.now = d.now \cup {<<"ready", script>>}
      /\ r.eventActionToFinish = [d.eventActionToFinish EXCEPT ![script] = Now]
      /\ r.asyncTimers = d.asyncTimers /\ r.inOrderTimer = d.inOrderTimer
      /\ r.runnerSuspended = d.runnerSuspended /\ r.inOrder = d.inOrder /\ r.async = d.async
      /\ r.strayed = d.strayed
  BY DEF Runs, IsDoc, Fields
<1> HIDE DEF r
<1>3. Plain(r, c) /\ Plain(r, c2) /\ c.async = r.async
  <2>1. IsDoc(r)
    BY <1>2 DEF Runs
  <2>2. c.async = r.async
    BY <2>1 DEF check, IsDoc, Fields
  <2> QED BY <2>1, <2>2, CheckPlain
<1> HIDE DEF c, c2, t
<1>4. /\ Runs(c, a) /\ a.now = c.now /\ a.eventActionToFinish = c.eventActionToFinish
      /\ a.asyncTimers = [c.asyncTimers EXCEPT ![script] = t] /\ a.inOrderTimer = c.inOrderTimer
      /\ a.runnerSuspended = c.runnerSuspended /\ a.inOrder = c.inOrder /\ a.strayed = c.strayed
  BY <1>3 DEF Runs, Plain, IsDoc, Fields
<1> HIDE DEF a
<1>5. /\ Runs(c2, u)
      /\ \A but : Ordered(c2, c2.now, but) => Ordered(u, c2.now, but)
  BY <1>3, UpdateInOrderTimerRuns DEF Plain
<1>6. Runs(d, a) /\ Runs(d, u)
  BY <1>2, <1>3, <1>4, <1>5 DEF Runs, Plain
<1>7. ASSUME Ordered(d, d.now, {script}) PROVE Ordered(r, r.now, {})
  <2>1. Tokens(r) = Tokens(d)
    BY <1>2 DEF Tokens, Runs
  <2>2. /\ DOMAIN r.eventActionToFinish = Tokens(d)
        /\ \A s \in Tokens(d) : r.eventActionToFinish[s] = IF s = script THEN Now ELSE d.eventActionToFinish[s]
    BY <1>2, <1>7 DEF Ordered
  <2>3. \A action, label : Has(action, d.now, label) => Has(action, r.now, label)
    BY <1>2 DEF Has
  <2>4. Has(Now, r.now, <<"ready", script>>) /\ Now # {}
    BY <1>2 DEF Has, Now
  <2>5. ASSUME NEW s \in Tokens(r)
        PROVE  /\ r.eventActionToFinish[s] # {} => Has(r.eventActionToFinish[s], r.now, <<"ready", s>>)
               /\ TimerPending(r.asyncTimers[s]) => Has(r.asyncTimers[s].starter, r.now, <<"ready", s>>)
    BY <1>2, <1>7, <2>1, <2>2, <2>3, <2>4 DEF Ordered
  <2>7. ASSUME NEW k \in 1..Len(r.inOrder), r.inOrder[k] \in (r.loaded \ {}) \ r.page.denied
        PROVE  r.eventActionToFinish[r.inOrder[k]] # {}
    <3>1. r.inOrder[k] \in Tokens(d) /\ r.inOrder[k] = d.inOrder[k] /\ k \in 1..Len(d.inOrder)
      BY <1>2, <1>7 DEF Ordered
    <3>2. CASE r.inOrder[k] = script
      BY <2>2, <2>4, <3>1, <3>2
    <3>3. CASE r.inOrder[k] # script
      <4>1. d.eventActionToFinish[d.inOrder[k]] # {}
        BY <1>2, <1>7, <2>7, <3>1, <3>3 DEF Ordered, Runs
      <4> QED BY <2>2, <3>1, <3>3, <4>1
    <3> QED BY <3>2, <3>3
  <2> QED BY <1>2, <1>7, <2>1, <2>2, <2>5, <2>7 DEF Ordered, Runs
<1>8. CASE IsAsync(d, script)
  <2>1. ASSUME Ordered(r, r.now, {}) PROVE Ordered(a, a.now, {})
    <3>1. Ordered(c, c.now, {})
      BY <1>3, <2>1, OrderedGrows DEF Plain
    <3>2. Tokens(a) = Tokens(c) /\ script \in Tokens(c) /\ DOMAIN c.asyncTimers = Tokens(c)
      BY <1>2, <1>3, <1>4, <3>1 DEF Tokens, Runs, Plain, Ordered
    <3>3. Has(t.starter, a.now, <<"ready", script>>)
      <4>1. t.starter = Now
        BY DEF t, startOneShot, NewTimer
      <4>2. <<"ready", script>> \in a.now
        BY <1>2, <1>3, <1>4 DEF Plain
      <4> QED BY <4>1, <4>2 DEF Has
    <3>4. /\ DOMAIN a.asyncTimers = Tokens(a)
          /\ \A s \in Tokens(a) : a.asyncTimers[s] = IF s = script THEN t ELSE c.asyncTimers[s]
      BY <1>4, <3>2
    <3>5. \A s \in Tokens(a) : TimerPending(a.asyncTimers[s]) => Has(a.asyncTimers[s].starter, a.now, <<"ready", s>>)
      BY <1>4, <3>1, <3>2, <3>3, <3>4 DEF Ordered
    <3> QED BY <1>4, <3>1, <3>2, <3>4, <3>5 DEF Ordered, Runs
  <2> QED BY <1>1, <1>6, <1>7, <1>8, <2>1
<1>9. CASE ~IsAsync(d, script)
  <2>1. ASSUME Ordered(r, r.now, {}) PROVE Ordered(u, u.now, {})
    <3>1. Ordered(u, c2.now, {})
      BY <1>3, <1>5, <2>1, OrderedGrows DEF Plain
    <3> QED BY <1>5, <3>1, OrderedGrows DEF Runs
  <2> QED BY <1>1, <1>6, <1>7, <1>9, <2>1
<1> QED BY <1>8, <1>9

LEMMA ScriptFinishedRuns ==
    ASSUME NEW d, IsDoc(d), NEW script \in Tokens(d)
    PROVE  /\ Runs(d, scriptFinished(d, script))
           /\ Ordered(d, d.now, {script}) =>
                 Ordered(scriptFinished(d, script), scriptFinished(d, script).now, {})
<1>1. CASE script \in d.page.denied
  <2>1. scriptFinished(d, script) = d /\ Runs(d, d)
    BY <1>1 DEF scriptFinished, Runs
  <2>2. (d.loaded \ {}) \ d.page.denied = (d.loaded \ {script}) \ d.page.denied
    BY <1>1
  <2>3. Ordered(d, d.now, {script}) => Ordered(d, d.now, {})
    BY <2>2 DEF Ordered
  <2> QED BY <2>1, <2>3
<1>2. CASE script \notin d.page.denied
  BY <1>2, NotifyScriptReadyRuns DEF scriptFinished
<1> QED BY <1>1, <1>2

LEMMA QueueScriptKeeps ==
    ASSUME NEW d, IsDoc(d), NEW script \in Addable(d)
    PROVE  Keeps(d, queueScriptForExecution(d, script))
<1> DEFINE r == request(d, {script})
           c == [r EXCEPT !.delayCount = @ + 1, !.addedSince = @ \cup {script}]
           q == IF IsAsync(d, script) THEN [c EXCEPT !.async = @ \cup {script}]
                ELSE [c EXCEPT !.inOrder = Append(@, script)]
           n == scriptFinished(q, script)
<1>0. script \in Tokens(d) /\ (~IsAsync(d, script) => d.page.kind[script] = "inOrder")
  BY DEF Addable, IsAsync
<1>1. queueScriptForExecution(d, script) = IF script \in d.loaded THEN n ELSE q
  BY DEF queueScriptForExecution
<1>2. Plain(d, r)
  BY RequestPlain
<1> HIDE DEF r
<1>3. Plain(r, c)
  BY <1>2 DEF Plain, IsDoc, Fields
<1> HIDE DEF c
<1>4. /\ Runs(c, q) /\ q.now = c.now /\ q.eventActionToFinish = c.eventActionToFinish
      /\ q.asyncTimers = c.asyncTimers /\ q.inOrderTimer = c.inOrderTimer
      /\ q.runnerSuspended = c.runnerSuspended /\ q.strayed = c.strayed
      /\ q.inOrder = IF IsAsync(d, script) THEN c.inOrder ELSE Append(c.inOrder, script)
  BY <1>3 DEF Runs, Plain, IsDoc, Fields
<1> HIDE DEF q
<1>5. Runs(d, q) /\ Tokens(q) = Tokens(d)
  BY <1>2, <1>3, <1>4 DEF Runs, Plain, Tokens
<1>6. ASSUME Ordered(d, d.now, {})
      PROVE  Ordered(q, q.now, {script}) /\ (script \notin d.loaded => Ordered(q, q.now, {}))
  <2>1. Ordered(c, c.now, {}) /\ Tokens(q) = Tokens(c) /\ c.loaded = d.loaded
    BY <1>2, <1>3, <1>5, <1>6, OrderedGrows DEF Plain, Tokens
  <2>2. /\ q.inOrder \in Seq(Tokens(q)) /\ c.inOrder \in Seq(Tokens(q))
        /\ \A k \in 1..Len(q.inOrder) : q.inOrder[k] = script \/ (k \in 1..Len(c.inOrder) /\ q.inOrder[k] = c.inOrder[k])
        /\ c.inOrder # <<>> => q.inOrder # <<>> /\ Head(q.inOrder) = Head(c.inOrder)
    <3>1. c.inOrder \in Seq(Tokens(q)) /\ script \in Tokens(q)
      BY <1>0, <1>5, <2>1 DEF Ordered
    <3> QED BY <1>4, <3>1
  <2>3. \A k \in 1..Len(q.inOrder) :
          q.inOrder[k] \in (q.loaded \ {script}) \ q.page.denied => q.eventActionToFinish[q.inOrder[k]] # {}
    BY <1>4, <2>1, <2>2 DEF Ordered, Runs
  <2>6. \A k \in 1..Len(q.inOrder) : q.page.kind[q.inOrder[k]] = "inOrder"
    <3>1. ASSUME NEW k \in 1..Len(q.inOrder) PROVE q.page.kind[q.inOrder[k]] = "inOrder"
      <4>1. q.page = d.page /\ c.page = d.page
        BY <1>2, <1>3, <1>5 DEF Plain, Runs
      <4>2. CASE IsAsync(d, script)
        BY <1>4, <2>1, <4>1, <4>2 DEF Ordered
      <4>3. CASE ~IsAsync(d, script)
        BY <1>0, <2>1, <2>2, <4>1, <4>3 DEF Ordered
      <4> QED BY <4>2, <4>3
    <3> QED BY <3>1
  <2>4. Ordered(q, q.now, {script})
    BY <1>4, <2>1, <2>2, <2>3, <2>6 DEF Ordered, Runs
  <2>5. ASSUME script \notin d.loaded PROVE Ordered(q, q.now, {})
    <3>1. q.loaded \ {script} = q.loaded \ {}
      BY <1>5, <2>5 DEF Runs
    <3> QED BY <2>4, <3>1 DEF Ordered
  <2> QED BY <2>4, <2>5
<1>7. Runs(q, n) /\ (Ordered(q, q.now, {script}) => Ordered(n, n.now, {}))
  BY <1>0, <1>5, ScriptFinishedRuns DEF Runs
<1> HIDE DEF n
<1> QED BY <1>1, <1>5, <1>6, <1>7 DEF Runs, Keeps

LEMMA PumpTokenizerPlain ==
    ASSUME NEW d, IsDoc(d), NEW mode
    PROVE  Plain(d, pumpTokenizer(d, mode))
<1> DEFINE a == check(d, ~isStopped(d) /\ ~isScheduledForResume(d))
           c == chain(a)
           b == addArc(c, d.inputJoin)
           j == [b EXCEPT !.inputJoin = {}, !.lastParse = Now, !.pumps = @ + 1]
           l == later(j, "endPump", NoToken)
           m == later(l, "takeTokens", mode)
<1>1. pumpTokenizer(d, mode) = m
  BY DEF pumpTokenizer
<1>2. Plain(d, a)
  BY CheckPlain
<1> HIDE DEF a
<1>3. Plain(a, c)
  BY <1>2, ChainPlain DEF Plain
<1> HIDE DEF c
<1>4. Plain(c, b)
  BY <1>3, AddArcPlain DEF Plain
<1> HIDE DEF b
<1>5. Plain(b, j)
  BY <1>4 DEF Plain, IsDoc, Fields
<1> HIDE DEF j
<1>6. Plain(j, l)
  BY <1>5, LaterPlain DEF Plain
<1> HIDE DEF l
<1>7. Plain(l, m)
  BY <1>6, LaterPlain DEF Plain
<1> QED BY <1>1, <1>2, <1>3, <1>4, <1>5, <1>6, <1>7 DEF Plain

LEMMA EndPumpPlain ==
    ASSUME NEW d, IsDoc(d)
    PROVE  Plain(d, endPump(d))
BY ScanPreloadsPlain DEF Plain, IsDoc, Fields, endPump

LEMMA PumpIfPossiblePlain ==
    ASSUME NEW d, IsDoc(d), NEW mode
    PROVE  Plain(d, pumpTokenizerIfPossible(d, mode))
BY CheckPlain, PumpTokenizerPlain DEF Plain, IsDoc, Fields, pumpTokenizerIfPossible

LEMMA TakeNextTokenPlain ==
    ASSUME NEW d, IsDoc(d), NEW mode
    PROVE  Plain(d, takeNextToken(d, mode))
BY ConstructTreePlain, ScheduleForResumePlain, LaterPlain DEF Plain, IsDoc, Fields, takeNextToken

LEMMA InsertPlain ==
    ASSUME NEW d, IsDoc(d), NEW tokens
    PROVE  Plain(d, insert(d, tokens))
BY ModifiesInputPlain, LaterPlain, PumpIfPossiblePlain DEF Plain, IsDoc, Fields, insert

LEMMA ExecuteScriptPlain ==
    ASSUME NEW d, IsDoc(d), NEW script
    PROVE  Plain(d, executeScript(d, script))
<1> DEFINE r == [d EXCEPT !.tree = Append(@, script), !.now = @ \cup {<<"ran", script>>}]
           b == later(r, "insertScripts", script)
           i == insert(b, d.page.writes[script])
<1>1. executeScript(d, script) = IF hasInsertionPoint(d) /\ d.page.writes[script] # <<>> THEN i ELSE b
  BY DEF executeScript
<1>2. Plain(d, r)
  BY DEF Plain, IsDoc, Fields
<1> HIDE DEF r
<1>3. Plain(r, b)
  BY <1>2, LaterPlain DEF Plain
<1> HIDE DEF b
<1>4. Plain(b, i)
  BY <1>3, InsertPlain DEF Plain
<1> QED BY <1>1, <1>2, <1>3, <1>4 DEF Plain

LEMMA LeaveOutermostPlain ==
    ASSUME NEW d, IsDoc(d)
    PROVE  Plain(d, leaveOutermost(d))
BY CheckPlain DEF Plain, IsDoc, Fields, leaveOutermost

LEMMA DispatchErrorEventPlain ==
    ASSUME NEW d, IsDoc(d), NEW script
    PROVE  Plain(d, dispatchErrorEvent(d, script))
BY DEF Plain, IsDoc, Fields, dispatchErrorEvent

LEMMA ExecutePendingPlain ==
    ASSUME NEW d, IsDoc(d), NEW script
    PROVE  Plain(d, executePendingScript(d, script))
<1> DEFINE a == addArc(d, d.loadAction[script])
           o == IF script \in d.loaded THEN a ELSE d
           w == [o EXCEPT !.watching = @ \ {script}, !.nesting = @ + 1]
           l == later(w, "leaveOutermost", NoToken)
           x == executeScript(l, script)
           y == dispatchErrorEvent(l, script)
<1>1. executePendingScript(d, script) = IF script \in d.page.failing THEN y ELSE x
  BY DEF executePendingScript
<1>2. Plain(d, a)
  BY AddArcPlain
<1> HIDE DEF a
<1>3. Plain(d, o)
  BY <1>2 DEF Plain
<1> HIDE DEF o
<1>4. Plain(o, w)
  BY <1>3 DEF Plain, IsDoc, Fields
<1> HIDE DEF w
<1>5. Plain(w, l)
  BY <1>4, LaterPlain DEF Plain
<1> HIDE DEF l
<1>6. Plain(l, x) /\ Plain(l, y)
  BY <1>5, ExecuteScriptPlain, DispatchErrorEventPlain DEF Plain
<1> QED BY <1>1, <1>3, <1>4, <1>5, <1>6 DEF Plain

LEMMA ExecuteBlockingPlain ==
    ASSUME NEW d, IsDoc(d)
    PROVE  Plain(d, executeParsingBlockingScripts(d))
<1> DEFINE a == [d EXCEPT !.waitsForSheets = d.sheets # {}]
           c == check(a, d.nesting = 0)
           b == [c EXCEPT !.blocking = NoToken]
           s == splitInput(b)
           l == later(s, "nextBlockingScript", NoToken)
           x == executePendingScript(l, d.blocking)
<1>1. executeParsingBlockingScripts(d) =
         IF ~haveParsingBlockingScript(d) THEN d
         ELSE IF ~isPendingScriptReady(a, d.blocking) THEN a ELSE x
  BY DEF executeParsingBlockingScripts
<1>2. Plain(d, a)
  BY DEF Plain, IsDoc, Fields
<1> HIDE DEF a
<1>7. Plain(a, c)
  BY <1>2, CheckPlain DEF Plain
<1> HIDE DEF c
<1>3. Plain(c, b)
  BY <1>7 DEF Plain, IsDoc, Fields
<1> HIDE DEF b
<1>4. Plain(b, s)
  BY <1>3 DEF Plain, IsDoc, Fields, splitInput
<1> HIDE DEF s
<1>5. Plain(s, l)
  BY <1>4, LaterPlain DEF Plain
<1> HIDE DEF l
<1>6. Plain(l, x)
  BY <1>5, ExecutePendingPlain DEF Plain
<1> QED BY <1>1, <1>2, <1>3, <1>4, <1>5, <1>6, <1>7 DEF Plain

LEMMA NextBlockingPlain ==
    ASSUME NEW d, IsDoc(d)
    PROVE  Plain(d, nextBlockingScript(d))
BY ExecuteBlockingPlain DEF Plain, IsDoc, Fields, nextBlockingScript, mergeInput

LEMMA EndRunScriptPlain ==
    ASSUME NEW d, IsDoc(d)
    PROVE  Plain(d, endRunScript(d))
<1> DEFINE m == mergeInput(d)
           l == [m EXCEPT !.nesting = @ - 1]
<1>1. endRunScript(d) = executeBlockingIfOutermost(l)
  BY DEF endRunScript
<1>2. Plain(d, m)
  BY DEF Plain, IsDoc, Fields, mergeInput
<1> HIDE DEF m
<1>3. Plain(m, l)
  BY <1>2 DEF Plain, IsDoc, Fields
<1> HIDE DEF l
<1>4. Plain(l, executeBlockingIfOutermost(l))
  BY <1>3, ExecuteBlockingPlain DEF Plain, executeBlockingIfOutermost
<1> QED BY <1>1, <1>2, <1>3, <1>4 DEF Plain

LEMMA PrepareScriptKeeps ==
    ASSUME NEW d, IsDoc(d), NEW script \in Tokens(d), d.page.kind[script] \in ScriptKinds
    PROVE  Keeps(d, prepareScript(d, script))
<1> DEFINE r == request(d, {script})
           x == executeScript(d, script)
           b == [d EXCEPT !.blocking = script]
           w == [r EXCEPT !.blocking = script,
                          !.watching = IF script \in d.loaded THEN @ ELSE @ \cup {script}]
           a == [r EXCEPT !.afterParsing = Append(@, script)]
           q == queueScriptForExecution(d, script)
<1>1. /\ prepareScript(d, script) \in {x, b, w, a, q}
      /\ d.page.kind[script] # "async" => prepareScript(d, script) \in {x, b, w, a}
  BY DEF prepareScript, ScriptKinds
<1>2. Plain(d, r) /\ Plain(d, x)
  BY RequestPlain, ExecuteScriptPlain
<1> HIDE DEF r, x
<1>3. Plain(d, b) /\ Plain(r, w) /\ Plain(r, a)
  BY <1>2 DEF Plain, IsDoc, Fields
<1> HIDE DEF b, w, a
<1>4. Keeps(d, w) /\ Keeps(d, a) /\ Keeps(d, b) /\ Keeps(d, x)
  BY <1>2, <1>3, PlainKeeps, KeepsTrans
<1>5. d.page.kind[script] = "async" => Keeps(d, q)
  BY QueueScriptKeeps DEF Addable
<1> HIDE DEF q
<1> QED BY <1>1, <1>4, <1>5

LEMMA ExecuteKeeps ==
    ASSUME NEW d, IsDoc(d), NEW script \in Tokens(d), d.page.kind[script] \in ScriptKinds
    PROVE  Keeps(d, execute(d, script))
<1> DEFINE c == check(d, ~haveParsingBlockingScript(d))
           s == splitInput(c)
           l == later(s, "endRunScript", NoToken)
           o == [l EXCEPT !.nesting = @ + 1]
           x == prepareScript(o, script)
<1>1. execute(d, script) = x
  BY DEF execute
<1>2. Plain(d, c)
  BY CheckPlain
<1> HIDE DEF c
<1>3. Plain(c, s)
  BY <1>2 DEF Plain, IsDoc, Fields, splitInput
<1> HIDE DEF s
<1>4. Plain(s, l)
  BY <1>3, LaterPlain DEF Plain
<1> HIDE DEF l
<1>5. Plain(l, o)
  BY <1>4 DEF Plain, IsDoc, Fields
<1> HIDE DEF o
<1>6. Plain(d, o)
  BY <1>2, <1>3, <1>4, <1>5 DEF Plain
<1>7. Keeps(o, x)
  <2>1. IsDoc(o) /\ o.page = d.page /\ script \in Tokens(o)
    BY <1>6 DEF Plain, Tokens
  <2> QED BY <2>1, PrepareScriptKeeps
<1> QED BY <1>1, <1>6, <1>7, PlainKeeps, KeepsTrans

LEMMA RunScriptsKeeps ==
    ASSUME NEW d, IsDoc(d), d.script \in Tokens(d), d.page.kind[d.script] \in ScriptKinds
    PROVE  Keeps(d, runScriptsForPausedTreeBuilder(d))
<1> DEFINE c == check(d, d.script # NoToken)
           u == [c EXCEPT !.paused = FALSE, !.script = NoToken]
           x == execute(u, d.script)
<1>1. runScriptsForPausedTreeBuilder(d) = x
  BY DEF runScriptsForPausedTreeBuilder
<1>2. Plain(d, c)
  BY CheckPlain
<1> HIDE DEF c
<1>3. Plain(c, u)
  BY <1>2 DEF Plain, IsDoc, Fields
<1> HIDE DEF u
<1>4. Plain(d, u)
  BY <1>2, <1>3 DEF Plain
<1>5. Keeps(u, x)
  <2>1. IsDoc(u) /\ u.page = d.page /\ d.script \in Tokens(u)
    BY <1>4 DEF Plain, Tokens
  <2> QED BY <2>1, ExecuteKeeps
<1> QED BY <1>1, <1>4, <1>5, PlainKeeps, KeepsTrans

LEMMA TakeTokensKeeps ==
    ASSUME NEW d, IsDoc(d), NEW mode,
           d.paused => d.script \in Tokens(d) /\ d.page.kind[d.script] \in ScriptKinds
    PROVE  Keeps(d, takeTokens(d, mode))
<1> DEFINE l == later(d, "pauseIfBlocked", mode)
           x == runScriptsForPausedTreeBuilder(l)
<1>1. takeTokens(d, mode) = IF d.paused THEN x ELSE takeNextToken(d, mode)
  BY DEF takeTokens
<1>2. Plain(d, l) /\ l.script = d.script
  BY LaterPlain DEF IsDoc, Fields, later
<1> HIDE DEF l
<1>3. d.paused => Keeps(l, x)
  <2>1. IsDoc(l) /\ l.page = d.page /\ Tokens(l) = Tokens(d)
    BY <1>2 DEF Plain, Tokens
  <2> QED BY <1>2, <2>1, RunScriptsKeeps
<1>4. Keeps(d, takeNextToken(d, mode))
  BY TakeNextTokenPlain, PlainKeeps
<1> QED BY <1>1, <1>2, <1>3, <1>4, PlainKeeps, KeepsTrans

LEMMA PauseIfBlockedPlain ==
    ASSUME NEW d, IsDoc(d), NEW mode
    PROVE  Plain(d, pauseIfBlocked(d, mode))
BY TakeNextTokenPlain DEF Plain, IsDoc, Fields, pauseIfBlocked

LEMMA ExecuteWaitingPlain ==
    ASSUME NEW d, IsDoc(d)
    PROVE  Plain(d, executeScriptsWaitingForParsing(d))
BY CheckPlain, LaterPlain, ExecutePendingPlain DEF Plain, IsDoc, Fields, executeScriptsWaitingForParsing

LEMMA AttemptToRunPlain ==
    ASSUME NEW d, IsDoc(d)
    PROVE  Plain(d, attemptToRunDeferredScriptsAndEnd(d))
BY CheckPlain, LaterPlain, ExecuteWaitingPlain DEF Plain, IsDoc, Fields, attemptToRunDeferredScriptsAndEnd

LEMMA PrepareToStopPlain ==
    ASSUME NEW d, IsDoc(d)
    PROVE  Plain(d, prepareToStopParsing(d))
BY CheckPlain, LaterPlain, PumpIfPossiblePlain DEF Plain, IsDoc, Fields, prepareToStopParsing

LEMMA StopParsingPlain ==
    ASSUME NEW d, IsDoc(d)
    PROVE  Plain(d, stopParsing(d))
BY CheckPlain, AttemptToRunPlain DEF Plain, IsDoc, Fields, stopParsing

LEMMA AttemptToEndPlain ==
    ASSUME NEW d, IsDoc(d)
    PROVE  Plain(d, attemptToEnd(d))
BY PrepareToStopPlain DEF Plain, IsDoc, Fields, attemptToEnd

LEMMA EndIfDelayedPlain ==
    ASSUME NEW d, IsDoc(d)
    PROVE  Plain(d, endIfDelayed(d))
BY PrepareToStopPlain DEF Plain, IsDoc, Fields, endIfDelayed

LEMMA EndInsertPlain ==
    ASSUME NEW d, IsDoc(d)
    PROVE  Plain(d, endInsert(d))
BY ScanPreloadsPlain, EndIfDelayedPlain DEF Plain, IsDoc, Fields, endInsert

LEMMA AppendPlain ==
    ASSUME NEW d, IsDoc(d), NEW tokens
    PROVE  Plain(d, append(d, tokens))
BY ModifiesInputPlain, LaterPlain, ScanPreloadsPlain, PumpIfPossiblePlain DEF Plain, IsDoc, Fields, append

LEMMA FinishPlain ==
    ASSUME NEW d, IsDoc(d), NEW eof
    PROVE  Plain(d, finish(d, eof))
BY ModifiesInputPlain, AttemptToEndPlain DEF Plain, IsDoc, Fields, finish

LEMMA ResumeAfterYieldPlain ==
    ASSUME NEW d, IsDoc(d)
    PROVE  Plain(d, resumeParsingAfterYield(d))
BY LaterPlain, PumpTokenizerPlain DEF Plain, IsDoc, Fields, resumeParsingAfterYield

LEMMA ResumeAfterScriptPlain ==
    ASSUME NEW d, IsDoc(d)
    PROVE  Plain(d, resumeParsingAfterScriptExecution(d))
BY CheckPlain, ModifiesInputPlain, LaterPlain, PumpIfPossiblePlain DEF Plain, IsDoc, Fields, resumeParsingAfterScriptExecution

LEMMA UnpausePlain ==
    ASSUME NEW d, IsDoc(d)
    PROVE  Plain(d, unpause(d))
BY CheckPlain, LaterPlain, ExecuteBlockingPlain DEF Plain, IsDoc, Fields, unpause

LEMMA ResumeUnlessBlockedPlain ==
    ASSUME NEW d, IsDoc(d)
    PROVE  Plain(d, resumeUnlessBlocked(d))
BY ResumeAfterScriptPlain DEF Plain, IsDoc, Fields, resumeUnlessBlocked

LEMMA NotifyFinishedPlain ==
    ASSUME NEW d, IsDoc(d), NEW script
    PROVE  Plain(d, notifyFinished(d, script))
BY ModifiesInputPlain, CheckPlain, AttemptToRunPlain, UnpausePlain DEF Plain, IsDoc, Fields, notifyFinished

LEMMA StylesheetsPlain ==
    ASSUME NEW d, IsDoc(d)
    PROVE  Plain(d, executeScriptsWaitingForStylesheets(d))
BY UnpausePlain DEF Plain, IsDoc, Fields, executeScriptsWaitingForStylesheets

LEMMA ReleaseResourcesPlain ==
    ASSUME NEW d, IsDoc(d), NEW resource
    PROVE  Plain(d, releaseResources(d, resource))
BY CheckCompletedPlain, ZenonT(60) DEF Plain, IsDoc, Fields, releaseResources

LEMMA InsertScriptsKeeps ==
    ASSUME NEW d, IsDoc(d), NEW scripts \in Seq(Addable(d))
    PROVE  Keeps(d, insertScripts(d, scripts))
<1> DEFINE n == Len(scripts)
           inserted == CHOOSE f : f = [i \in 0..n |-> IF i = 0 THEN d
                                          ELSE queueScriptForExecution(f[i - 1], scripts[i])]
<1>1. n \in Nat /\ \A i \in 1..n : scripts[i] \in Addable(d)
  OBVIOUS
<1>2. insertScripts(d, scripts) = inserted[n]
  BY DEF insertScripts
<1>3. \E f : f = [i \in 0..n |-> IF i = 0 THEN d ELSE queueScriptForExecution(f[i - 1], scripts[i])]
  <2> HIDE DEF n
  <2>1. \E f : Inserting(f, d, scripts, n)
    BY <1>1, InsertingExists
  <2> QED BY <2>1, Zenon DEF Inserting
<1>4. inserted = [i \in 0..n |-> IF i = 0 THEN d ELSE queueScriptForExecution(inserted[i - 1], scripts[i])]
  BY <1>3
<1> HIDE DEF inserted
<1>5. \A i \in 0..n : inserted[i] = IF i = 0 THEN d ELSE queueScriptForExecution(inserted[i - 1], scripts[i])
  BY <1>4
<1> HIDE DEF n
<1> DEFINE T == {i \in Nat : i \in 0..n /\ ~Keeps(d, inserted[i])}
<1>7. ASSUME T # {} PROVE FALSE
  <2>1. PICK i \in T : \A j \in T : ~(j < i)
    <3>1. T \subseteq Nat
      OBVIOUS
    <3> HIDE DEF T
    <3> QED BY <1>7, <3>1, LeastOf
  <2>2. i \in 0..n /\ ~Keeps(d, inserted[i])
    BY <2>1
  <2>3. i # 0
    <3>1. Keeps(d, d)
      BY DEF Keeps
    <3>2. i = 0 => inserted[i] = d
      BY <1>5, <2>2
    <3> QED BY <2>2, <3>1, <3>2
  <2>4. i - 1 \in 0..n /\ i - 1 \in Nat /\ i - 1 < i /\ i \in 1..n
    BY <1>1, <2>2, <2>3
  <2> DEFINE b == inserted[i - 1]
  <2>5. Keeps(d, b)
    BY <2>1, <2>4
  <2>6. inserted[i] = queueScriptForExecution(b, scripts[i])
    BY <1>5, <2>2, <2>3
  <2> HIDE DEF b
  <2>7. IsDoc(b) /\ scripts[i] \in Addable(b)
    BY <1>1, <2>4, <2>5 DEF Keeps, Tokens, Addable
  <2>8. Keeps(b, queueScriptForExecution(b, scripts[i]))
    BY <2>7, QueueScriptKeeps
  <2> QED BY <2>2, <2>5, <2>6, <2>8, KeepsTrans
<1>8. Keeps(d, inserted[n])
  BY <1>1, <1>7
<1> QED BY <1>2, <1>8

LEMMA EndKeeps ==
    ASSUME NEW d, IsDoc(d), d.page.onContentLoaded \in Seq(Addable(d))
    PROVE  Keeps(d, end(d))
<1> DEFINE c == check(d, ~isStopped(d) /\ ~isScheduledForResume(d))
           p == [c EXCEPT !.parsing = FALSE, !.parsingJoin = @ \cup Now]
           q == insertScripts(p, d.page.onContentLoaded)
           x == checkCompleted(q)
<1>1. end(d) = x
  BY DEF end
<1>2. Plain(d, c)
  BY CheckPlain
<1> HIDE DEF c
<1>3. Plain(c, p)
  BY <1>2 DEF Plain, IsDoc, Fields
<1> HIDE DEF p
<1>4. Plain(d, p)
  BY <1>2, <1>3 DEF Plain
<1>5. IsDoc(p) /\ Addable(p) = Addable(d)
  BY <1>4 DEF Plain, Addable, Tokens
<1>6. Keeps(p, q)
  BY <1>5, InsertScriptsKeeps
<1> HIDE DEF q
<1>7. Plain(q, x)
  BY <1>6, CheckCompletedPlain DEF Keeps
<1> QED BY <1>1, <1>4, <1>6, <1>7, PlainKeeps, KeepsTrans

LEMMA StepKeeps ==
    ASSUME NEW d, Goes(d), d.calls # <<>>
    PROVE  Keeps(d, step(d))
<1> DEFINE top == d.calls[Len(d.calls)]
           name == top.name
           arg == top.arg
           r == [d EXCEPT !.calls = SubSeq(@, 1, Len(@) - 1)]
<1>1. step(d) =
        CASE name = "takeTokens" -> takeTokens(r, arg)
          [] name = "pauseIfBlocked" -> pauseIfBlocked(r, arg)
          [] name = "endPump" -> endPump(r)
          [] name = "endInsert" -> endInsert(r)
          [] name = "insertScripts" -> insertScripts(r, d.page.inserts[arg])
          [] name = "leaveOutermost" -> leaveOutermost(r)
          [] name = "nextBlockingScript" -> nextBlockingScript(r)
          [] name = "endRunScript" -> endRunScript(r)
          [] name = "executeScriptsWaitingForParsing" -> executeScriptsWaitingForParsing(r)
          [] name = "endIfNoneDeferred" -> endIfNoneDeferred(r)
          [] name = "stopParsing" -> stopParsing(r)
          [] name = "endIfDelayed" -> endIfDelayed(r)
          [] name = "resumeUnlessBlocked" -> resumeUnlessBlocked(r)
          [] name = "releaseResources" -> releaseResources(r, arg)
  BY DEF step
<1>2. r.page = d.page /\ r.suspended = d.suspended /\ Plain(d, r) /\ IsDoc(r)
  BY DEF Goes, DocOK, FitsBut, IsDoc, Fields, Plain
<1>18. Keeps(d, r)
  BY <1>2, PlainKeeps
<1>3. Ready(r, name, arg) /\ name \in StepNames
  <2>1. DocOK(d)
    BY DEF Goes
  <2>2. /\ FitsBut(r, Bit(name, Nested), Bit(name, Pumped), Bit(name, Split))
        /\ name \in StepNames /\ arg \in Tokens(r) \cup Modes \cup {NoToken}
        /\ Pushable(r.calls, name, arg, Tokens(r)) /\ AdmitsWith(r, Names(r.calls) \cup {name})
        /\ Before(r, name) /\ (name = "stopParsing" => Quiet(r))
    BY <2>1, PopFits
  <2> HIDE DEF r, name, arg
  <2> QED BY <1>2, <2>2 DEF Ready, Goes
<1> HIDE DEF r, name, arg, top
<1>4. CASE name = "takeTokens"
  <2>1. FitsBut(r, Bit(name, Nested), Bit(name, Pumped), Bit(name, Split)) /\ Before(r, "takeTokens")
    BY <1>3, <1>4 DEF Ready
  <2>2. r.paused => r.script \in Tokens(r) /\ r.page.kind[r.script] \in ScriptKinds
    BY <2>1 DEF Before, Bottom, FitsBut, PauseOK, QuietOK, Quiet
  <2> QED BY <1>1, <1>2, <1>4, <1>18, <2>2, TakeTokensKeeps, KeepsTrans
<1>5. CASE name = "pauseIfBlocked"
  BY <1>1, <1>2, <1>5, <1>18, PauseIfBlockedPlain, PlainKeeps, KeepsTrans
<1>6. CASE name = "endPump"
  BY <1>1, <1>2, <1>6, <1>18, EndPumpPlain, PlainKeeps, KeepsTrans
<1>7. CASE name = "endInsert"
  BY <1>1, <1>2, <1>7, <1>18, EndInsertPlain, PlainKeeps, KeepsTrans
<1>8. CASE name = "insertScripts"
  <2>1. /\ FitsBut(r, Bit(name, Nested), Bit(name, Pumped), Bit(name, Split))
        /\ Pushable(r.calls, "insertScripts", arg, Tokens(r))
    BY <1>3, <1>8 DEF Ready
  <2>2. arg \in Tokens(r)
    BY <2>1 DEF Pushable, Calls, Bottom, Nested
  <2>3. r.page.inserts[arg] \in Seq(Addable(r))
    BY <2>1, <2>2, PageFacts DEF FitsBut
  <2>4. Keeps(r, insertScripts(r, r.page.inserts[arg]))
    BY <1>2, <2>3, InsertScriptsKeeps
  <2> QED BY <1>1, <1>2, <1>8, <1>18, <2>4, KeepsTrans
<1>9. CASE name = "leaveOutermost"
  BY <1>1, <1>2, <1>9, <1>18, LeaveOutermostPlain, PlainKeeps, KeepsTrans
<1>10. CASE name = "nextBlockingScript"
  BY <1>1, <1>2, <1>10, <1>18, NextBlockingPlain, PlainKeeps, KeepsTrans
<1>11. CASE name = "endRunScript"
  BY <1>1, <1>2, <1>11, <1>18, EndRunScriptPlain, PlainKeeps, KeepsTrans
<1>12. CASE name = "executeScriptsWaitingForParsing"
  BY <1>1, <1>2, <1>12, <1>18, ExecuteWaitingPlain, PlainKeeps, KeepsTrans
<1>13. CASE name = "endIfNoneDeferred"
  <2>1. r.page.onContentLoaded \in Seq(Addable(r))
    BY <1>3, PageFacts DEF Ready, FitsBut
  <2>2. Keeps(r, end(r))
    BY <1>2, <2>1, EndKeeps
  <2> QED BY <1>1, <1>13, <1>18, <2>2, KeepsTrans DEF endIfNoneDeferred
<1>14. CASE name = "stopParsing"
  BY <1>1, <1>2, <1>14, <1>18, StopParsingPlain, PlainKeeps, KeepsTrans
<1>15. CASE name = "endIfDelayed"
  BY <1>1, <1>2, <1>15, <1>18, EndIfDelayedPlain, PlainKeeps, KeepsTrans
<1>16. CASE name = "resumeUnlessBlocked"
  BY <1>1, <1>2, <1>16, <1>18, ResumeUnlessBlockedPlain, PlainKeeps, KeepsTrans
<1>17. CASE name = "releaseResources"
  BY <1>1, <1>2, <1>17, <1>18, ReleaseResourcesPlain, PlainKeeps, KeepsTrans
<1> QED BY <1>3, <1>4, <1>5, <1>6, <1>7, <1>8, <1>9, <1>10, <1>11, <1>12, <1>13, <1>14, <1>15, <1>16,
           <1>17 DEF StepNames

\* An event action keeps the invariant, however far its stack is emptied, and
\* does not make the document complete.
LEMMA RunGoes ==
    ASSUME NEW d, Goes(d), NEW max \in Nat
    PROVE  Goes(run(d, max)) /\ Keeps(d, run(d, max))
<1> DEFINE after == CHOOSE f : f = [i \in 0..max |-> IF i = 0 THEN d ELSE Stepped(f[i - 1])]
           Fine(e) == Goes(e) /\ Keeps(d, e)
<1>1. run(d, max) = after[max]
  BY DEF run, Stepped
<1>2. \E f : f = [i \in 0..max |-> IF i = 0 THEN d ELSE Stepped(f[i - 1])]
  <2>1. \E f : Running(f, d, max)
    BY RunningExists
  <2> QED BY <2>1, Zenon DEF Running
<1>3. after = [i \in 0..max |-> IF i = 0 THEN d ELSE Stepped(after[i - 1])]
  BY <1>2
<1> HIDE DEF after
<1>4. \A i \in 0..max : after[i] = IF i = 0 THEN d ELSE Stepped(after[i - 1])
  BY <1>3
<1>5. Fine(d)
  BY DEF Goes, DocOK, FitsBut, Keeps
<1>6. ASSUME NEW b, Fine(b) PROVE Fine(Stepped(b))
  BY <1>6, StepGoes, StepKeeps, KeepsTrans DEF Stepped
<1> HIDE DEF Fine
<1> DEFINE T == {i \in Nat : i \in 0..max /\ ~Fine(after[i])}
<1>7. ASSUME T # {} PROVE FALSE
  <2>1. PICK i \in T : \A j \in T : ~(j < i)
    <3>1. T \subseteq Nat
      OBVIOUS
    <3> HIDE DEF T
    <3> QED BY <1>7, <3>1, LeastOf
  <2>2. i \in 0..max /\ ~Fine(after[i])
    BY <2>1
  <2>3. i # 0
    BY <1>4, <1>5, <2>2
  <2>4. i - 1 \in 0..max /\ i - 1 \in Nat /\ i - 1 < i
    BY <2>2, <2>3
  <2>5. Fine(after[i - 1])
    BY <2>1, <2>4
  <2>6. after[i] = Stepped(after[i - 1])
    BY <1>4, <2>2, <2>3
  <2> QED BY <1>6, <2>2, <2>5, <2>6
<1>8. Fine(after[max])
  BY <1>7
<1> QED BY <1>1, <1>8 DEF Fine

-----------------------------------------------------------------------------
(* Timers. *)

LEMMA TimerFiredDoes ==
    ASSUME NEW t0, TimerOK(t0), t0.queued > 0
    PROVE  /\ TimerOK(timerFired(t0)) /\ ~TimerPending(timerFired(t0)) /\ ~isActive(timerFired(t0))
           /\ t0.queued = 1 /\ t0.flag /\ ~t0.inHeap /\ TimerPending(t0) /\ isActive(t0)
<1>1. t0.queued = 1 /\ t0.flag /\ ~t0.inHeap
  BY DEF TimerOK
<1> DEFINE t == timerFired(t0)
<1>2. /\ {"inHeap", "queued", "flag", "starter"} \subseteq DOMAIN t /\ t.inHeap = FALSE
      /\ t.queued = 0 /\ t.flag = FALSE
  BY <1>1 DEF TimerOK, timerFired
<1>3. 0 # 1 /\ ~(0 > 0) /\ 1 > 0
  OBVIOUS
<1> HIDE DEF t
<1>4. TimerOK(t)
  BY <1>2, <1>3, Zenon DEF TimerOK
<1>5. ~TimerPending(t) /\ ~isActive(t)
  BY <1>2, <1>3, Zenon DEF TimerPending, isActive
<1> QED BY <1>1, <1>3, <1>4, <1>5 DEF TimerPending, isActive, t

LEMMA TimerDueDoes ==
    ASSUME NEW t0, TimerOK(t0), t0.inHeap
    PROVE  /\ TimerOK(timerDue(t0)) /\ TimerPending(timerDue(t0)) /\ isActive(timerDue(t0))
           /\ TimerPending(t0) /\ isActive(t0)
<1>1. t0.queued = 0
  BY DEF TimerOK
<1> DEFINE t == timerDue(t0)
<1>2. /\ {"inHeap", "queued", "flag", "starter"} \subseteq DOMAIN t /\ t.inHeap = FALSE
      /\ t.queued = 1 /\ t.flag = TRUE
  BY <1>1 DEF TimerOK, timerDue
<1>3. 1 > 0
  OBVIOUS
<1> HIDE DEF t
<1>4. TimerOK(t)
  BY <1>2, Zenon DEF TimerOK
<1>5. TimerPending(t) /\ isActive(t)
  BY <1>2, <1>3, Zenon DEF TimerPending, isActive
<1> QED BY <1>4, <1>5 DEF TimerPending, isActive, t

LEMMA StopTimerDoes ==
    ASSUME NEW t0, TimerOK(t0)
    PROVE  TimerOK(stopTimer(t0)) /\ ~TimerPending(stopTimer(t0))
<1> DEFINE t == stopTimer(t0)
<1>1. t0.flag \in BOOLEAN /\ (~t0.flag => t0.queued = 0)
  BY DEF TimerOK
<1>2. /\ {"inHeap", "queued", "flag", "starter"} \subseteq DOMAIN t /\ t.inHeap = FALSE
      /\ t.queued = 0 /\ t.flag = t0.flag
  BY <1>1 DEF TimerOK, stopTimer
<1>3. 0 # 1 /\ ~(0 > 0)
  OBVIOUS
<1> HIDE DEF t
<1>4. TimerOK(t)
  BY <1>1, <1>2, <1>3, Zenon DEF TimerOK
<1>5. ~TimerPending(t)
  BY <1>2, <1>3, Zenon DEF TimerPending
<1> QED BY <1>4, <1>5 DEF t

LEMMA StartTimerDoes ==
    ASSUME NEW t0, TimerOK(t0), ~TimerPending(t0)
    PROVE  TimerOK(startOneShot(t0)) /\ TimerPending(startOneShot(t0)) /\ isActive(startOneShot(t0))
<1> DEFINE t == startOneShot(t0)
<1>1. t0.flag \in BOOLEAN /\ t0.queued = 0
  BY DEF TimerOK, TimerPending
<1>2. /\ {"inHeap", "queued", "flag", "starter"} \subseteq DOMAIN t /\ t.inHeap = TRUE
      /\ t.queued = 0 /\ t.flag = t0.flag
  BY <1>1 DEF TimerOK, startOneShot
<1>3. 0 # 1
  OBVIOUS
<1> HIDE DEF t
<1>4. TimerOK(t)
  BY <1>1, <1>2, <1>3, Zenon DEF TimerOK
<1>5. TimerPending(t) /\ isActive(t)
  BY <1>2, Zenon DEF TimerPending, isActive
<1> QED BY <1>4, <1>5 DEF t

-----------------------------------------------------------------------------
(* The entries of the parser: an event action of its own, in which nothing *)
(* is on the stack yet, or the load of a script, after which the request   *)
(* for it is released.                                                     *)

\* Between event actions.
Idle(d) == DocOK(d) /\ d.calls = <<>>

LEMMA IdleFacts ==
    ASSUME NEW d, Idle(d)
    PROVE  /\ FitsBut(d, 0, 0, 0) /\ Before(d, "none") /\ Watched(d) /\ (d.state = "parsing" => Rests(d))
           /\ d.nesting = 0 /\ d.pumps = 0 /\ Len(d.input) = 1 /\ Names(d.calls) = {} /\ d.calls = <<>>
           /\ d.input \in Seq(Seq(Tokens(d))) /\ Top(d.calls) = "none"
<1>1. FitsBut(d, 0, 0, 0) /\ Before(d, "none") /\ d.calls = <<>>
  BY DEF Idle, DocOK, Top
<1>2. /\ Names(d.calls) = {} /\ Count(d.calls, Nested) = 0 /\ Count(d.calls, Pumped) = 0
      /\ Count(d.calls, Split) = 0 /\ Top(d.calls) = "none"
  BY <1>1, EmptyStack
<1>3. d.nesting = 0 /\ d.pumps = 0 /\ Len(d.input) = 1 /\ d.input \in Seq(Seq(Tokens(d)))
  BY <1>1, <1>2 DEF FitsBut, StackedBut
<1> QED BY <1>1, <1>2, <1>3 DEF Before

\* Tokens are added at the end of the input.
Added(d, tokens) == [d EXCEPT !.input[Len(d.input)] = tokens]

LEMMA AddedInput ==
    ASSUME NEW d, Idle(d), d.state = "parsing", NEW tokens \in Seq(Tokens(d)),
           NEW e, e = Added(d, tokens)
    PROVE  /\ FitsBut(e, 0, 0, 0) /\ e.calls = <<>> /\ e.input[1] = tokens
           /\ SameOutside(d, e) /\ SamePause(d, e) /\ SameWait(d, e)
           /\ (isScheduledForResume(e) <=> isScheduledForResume(d)) /\ Tokens(e) = Tokens(d)
           /\ d.paused \/ isScheduledForResume(d) => Before(e, "none")
<1>1. /\ FitsBut(d, 0, 0, 0) /\ Before(d, "none") /\ Rests(d) /\ Len(d.input) = 1
      /\ d.input \in Seq(Seq(Tokens(d))) /\ d.calls = <<>> /\ Names(d.calls) = {}
  BY IdleFacts
<1>2. /\ SameOutside(d, e) /\ SamePause(d, e) /\ SameWait(d, e) /\ SameStack(d, e)
      /\ e.requests = d.requests /\ e.failed = d.failed
      /\ e.input = [d.input EXCEPT ![Len(d.input)] = tokens]
  BY <1>1 DEF SameOutside, SameMode, SameScheduler, SamePause, SameWait, SameStack, SameRunner,
              SameLoad, IsDoc, Fields, FitsBut, Added
<1>3. e.input = [d.input EXCEPT ![1] = tokens]
  BY <1>1, <1>2
<1>5. e.input \in Seq(Seq(Tokens(d))) /\ Len(e.input) = 1 /\ e.input[1] = tokens
  BY <1>1, <1>3
<1>6. ModeOK(e) /\ Tokens(e) = Tokens(d)
  BY <1>1, <1>2 DEF FitsBut, SameOutside, SameMode, ModeOK, Tokens
<1>7. StackedBut(e, 0, 0, 0)
  BY <1>1, <1>2, <1>5, <1>6 DEF FitsBut, StackedBut, SameStack
<1>8. SameButCounters(d, e)
  BY <1>2 DEF SameButCounters, SameStack, Asserted
<1>9. FitsBut(e, 0, 0, 0) /\ (isScheduledForResume(e) <=> isScheduledForResume(d))
  BY <1>1, <1>7, <1>8, RecountFits
<1>10. d.paused \/ isScheduledForResume(d) => Before(e, "none")
  <2>1. d.paused \/ isScheduledForResume(d) => Rests(e)
    BY <1>1, <1>2, <1>9 DEF Rests, SamePause, SameWait
  <2>2. Watched(e) /\ e.state = "parsing"
    BY <1>1, <1>2 DEF Before, Watched, SameOutside, SameMode, SameWait
  <2> QED BY <2>1, <2>2 DEF Before, Bottom
<1> QED BY <1>1, <1>2, <1>5, <1>6, <1>9, <1>10 DEF SameStack

\* What is done last in most event actions of the parser.
LEMMA PushEndIfDelayed ==
    ASSUME NEW d, FitsBut(d, 0, 0, 0), d.calls = <<>>, d.state = "parsing"
    PROVE  LET e == later(d, "endIfDelayed", NoToken)
           IN  /\ FitsBut(e, 0, 0, 0) /\ Top(e.calls) = "endIfDelayed" /\ SameButCalls(d, e)
               /\ e.calls # <<>> /\ (isScheduledForResume(e) <=> isScheduledForResume(d))
               /\ Names(e.calls) = {"endIfDelayed"}
               /\ (Before(d, "none") => Before(e, "endIfDelayed"))
<1>1. Names(d.calls) = {}
  BY EmptyStack
<1>2. Pushable(d.calls, "endIfDelayed", NoToken, Tokens(d))
  BY <1>1 DEF Pushable, Bottom, First, Outermost
<1>3. AdmitsWith(d, Names(d.calls)) /\ d.parsing
  BY DEF FitsBut, ModeOK
<1>4. AdmitsWith(d, Names(d.calls) \cup {"endIfDelayed"})
  BY <1>1, <1>3 DEF AdmitsWith, Stops, Yielding
<1>5. "endIfDelayed" \in StepNames \ (Nested \cup Pumped \cup Split)
  BY DEF StepNames, Nested, Pumped, Split
<1> DEFINE e == later(d, "endIfDelayed", NoToken)
<1>6. /\ FitsBut(e, 0, 0, 0) /\ Top(e.calls) = "endIfDelayed" /\ SameButCalls(d, e) /\ e.calls # <<>>
      /\ (isScheduledForResume(e) <=> isScheduledForResume(d))
      /\ Names(e.calls) = Names(d.calls) \cup {"endIfDelayed"}
      /\ \A other : Before(d, other) => Before(e, other)
  BY <1>2, <1>4, <1>5, PushPlain
<1> HIDE DEF e
<1>7. Names(e.calls) = {"endIfDelayed"}
  BY <1>1, <1>6
<1>8. \A f : Before(f, "none") => Before(f, "endIfDelayed")
  BY DEF Before, Bottom
<1>9. Before(d, "none") => Before(e, "endIfDelayed")
  BY <1>6, <1>8
<1> QED BY <1>6, <1>7, <1>9 DEF e

LEMMA AppendGoes ==
    ASSUME NEW d, Idle(d), d.state = "parsing", ~d.suspended, NEW tokens \in Seq(Tokens(d))
    PROVE  Goes(append(d, tokens))
<1> DEFINE m == modifiesInput(d)
           a == [m EXCEPT !.input[Len(d.input)] = @ \o tokens]
           l == later(a, "endIfDelayed", NoToken)
           e == scanPreloads(l)
<1>1. append(d, tokens) = pumpTokenizerIfPossible(e, "AllowYield")
  BY DEF append, isStopped
<1>2. SameDoc(d, m) /\ FitsBut(d, 0, 0, 0)
  BY LabelsOnly DEF Idle, DocOK, FitsBut
<1> HIDE DEF m
<1>3. /\ Idle(m) /\ m.state = "parsing" /\ ~m.suspended /\ Tokens(m) = Tokens(d) /\ m.input = d.input
  <2>1. FitsBut(m, 0, 0, 0) /\ (\A name : Before(d, name) => Before(m, name))
    BY <1>2, SameFits
  <2> QED BY <1>2, <2>1 DEF SameDoc, SameStack, SameOutside, SameMode, Idle, DocOK, Tokens
<1> DEFINE all == m.input[1] \o tokens
<1>4. a = Added(m, all) /\ all \in Seq(Tokens(m))
  <2>1. m.input \in Seq(Seq(Tokens(m))) /\ Len(m.input) = 1
    BY <1>3, IdleFacts
  <2>2. m.input[1] \in Seq(Tokens(m)) /\ tokens \in Seq(Tokens(m))
    BY <1>3, <2>1
  <2>3. m.input[1] \o tokens \in Seq(Tokens(m))
    BY <2>2
  <2> QED BY <1>3, <2>1, <2>3 DEF Added
<1> HIDE DEF a, all
<1>5. /\ FitsBut(a, 0, 0, 0) /\ a.calls = <<>> /\ SameOutside(m, a) /\ SamePause(m, a) /\ SameWait(m, a)
      /\ (isScheduledForResume(a) <=> isScheduledForResume(m))
      /\ m.paused \/ isScheduledForResume(m) => Before(a, "none")
  BY <1>3, <1>4, AddedInput
<1>6. /\ Watched(m) /\ Rests(m)
  BY <1>3, IdleFacts
<1>7. a.state = "parsing" /\ a.suspended = FALSE /\ Watched(a) /\ a.parsing
  BY <1>3, <1>5, <1>6 DEF SameOutside, SameMode, SameWait, Watched, FitsBut, ModeOK
<1>8. /\ FitsBut(l, 0, 0, 0) /\ Top(l.calls) = "endIfDelayed" /\ SameButCalls(a, l) /\ l.calls # <<>>
      /\ (isScheduledForResume(l) <=> isScheduledForResume(a)) /\ Names(l.calls) = {"endIfDelayed"}
      /\ (Before(a, "none") => Before(l, "endIfDelayed"))
  BY <1>5, <1>7, PushEndIfDelayed
<1> HIDE DEF l
<1>9. l.parsing /\ l.state = "parsing" /\ ~l.suspended /\ Watched(l) /\ l.paused = m.paused
      /\ l.script = m.script /\ l.blocking = m.blocking
  BY <1>5, <1>7, <1>8 DEF SameButCalls, SameOutside, SameMode, SameWait, SamePause, Watched
<1>10. /\ FitsBut(e, 0, 0, 0) /\ SameOutside(l, e) /\ SamePause(l, e) /\ SameWait(l, e)
       /\ SameStack(l, e) /\ (isScheduledForResume(e) <=> isScheduledForResume(l))
       /\ \A name : Before(l, name) => Before(e, name)
  BY <1>8, <1>9, ScanPreloadsFits
<1> HIDE DEF e
<1>11. /\ Watched(e) /\ ~e.suspended /\ e.state = "parsing" /\ e.calls # <<>>
       /\ Names(e.calls) \subseteq Yielding /\ Top(e.calls) = "endIfDelayed" /\ e.paused = m.paused
       /\ e.script = m.script /\ e.blocking = m.blocking
       /\ (isScheduledForResume(e) <=> isScheduledForResume(m))
  BY <1>5, <1>8, <1>9, <1>10 DEF SameOutside, SameMode, SameWait, SamePause, SameStack, Watched, Yielding
<1>12. e.paused \/ isScheduledForResume(e) => Before(e, Top(e.calls))
  BY <1>5, <1>8, <1>10, <1>11
<1>13. ~e.paused /\ ~isScheduledForResume(e) => e.blocking = NoToken /\ e.script = NoToken
  BY <1>6, <1>11 DEF Rests
<1>14. Calls("endIfDelayed", "endPump") /\ "AllowYield" \in Modes
  BY DEF Calls, Modes
<1> QED BY <1>1, <1>10, <1>11, <1>12, <1>13, <1>14, PumpTokenizerIfPossibleGoes

LEMMA FinishGoes ==
    ASSUME NEW d, Idle(d), d.state = "parsing", ~d.suspended, d.finished, d.endDelayed = FALSE
    PROVE  Goes(finish(d, "eof"))
<1> DEFINE m == modifiesInput(d)
           a == [m EXCEPT !.input[Len(d.input)] = Append(@, "eof")]
<1>1. finish(d, "eof") = attemptToEnd(a)
  BY DEF finish
<1>2. SameDoc(d, m) /\ FitsBut(d, 0, 0, 0)
  BY LabelsOnly DEF Idle, DocOK, FitsBut
<1> HIDE DEF m
<1>3. /\ Idle(m) /\ m.state = "parsing" /\ ~m.suspended /\ m.input = d.input /\ m.finished
      /\ m.endDelayed = FALSE /\ ModeOK(m)
  <2>1. FitsBut(m, 0, 0, 0) /\ (\A name : Before(d, name) => Before(m, name))
    BY <1>2, SameFits
  <2> QED BY <1>2, <2>1 DEF SameDoc, SameStack, SameOutside, SameMode, Idle, DocOK, Tokens, FitsBut
<1>4. /\ Watched(m) /\ Rests(m) /\ m.nesting = 0 /\ m.pumps = 0 /\ Len(m.input) = 1
      /\ m.input \in Seq(Seq(Tokens(m)))
  BY <1>3, IdleFacts
<1> DEFINE all == Append(m.input[1], "eof")
<1>5. a = Added(m, all) /\ all \in Seq(Tokens(m)) /\ (m.input[1] = <<>> => all = <<"eof">>)
  <2>1. m.input[1] \in Seq(Tokens(m)) /\ "eof" \in Tokens(m)
    BY <1>3, <1>4, PageFacts
  <2>2. all \in Seq(Tokens(m))
    BY <2>1
  <2>3. m.input[1] = <<>> => all = <<"eof">>
    OBVIOUS
  <2> QED BY <1>3, <1>4, <2>2, <2>3 DEF Added
<1> HIDE DEF a, all
<1>6. /\ FitsBut(a, 0, 0, 0) /\ a.calls = <<>> /\ SameOutside(m, a) /\ SamePause(m, a) /\ SameWait(m, a)
      /\ (isScheduledForResume(a) <=> isScheduledForResume(m)) /\ a.input[1] = all
      /\ m.paused \/ isScheduledForResume(m) => Before(a, "none")
  BY <1>3, <1>5, AddedInput
<1>7. /\ a.state = "parsing" /\ a.suspended = FALSE /\ Watched(a) /\ a.parsing /\ a.finished
      /\ a.endDelayed = FALSE
  BY <1>3, <1>4, <1>6 DEF SameOutside, SameMode, SameWait, Watched, FitsBut, ModeOK
<1>8. a.nesting = 0 /\ a.pumps = 0 /\ Names(a.calls) = {} /\ Top(a.calls) = "none"
  <2>1. /\ Names(a.calls) = {} /\ Count(a.calls, Nested) = 0 /\ Count(a.calls, Pumped) = 0
        /\ Top(a.calls) = "none"
    BY <1>6, EmptyStack
  <2> QED BY <1>6, <2>1 DEF FitsBut, StackedBut
<1>9. CASE shouldDelayEnd(a)
  <2> DEFINE e == [a EXCEPT !.endDelayed = TRUE]
  <2>1. attemptToEnd(a) = e
    BY <1>9 DEF attemptToEnd
  <2>2. a.paused \/ isScheduledForResume(a)
    BY <1>8, <1>9 DEF shouldDelayEnd
  <2>3. Before(a, "none")
    BY <1>6, <2>2 DEF SamePause
  <2>4. /\ IsDoc(e) /\ e.page = a.page /\ e.suspended = a.suspended /\ SameScheduler(a, e)
        /\ SamePause(a, e) /\ SameWait(a, e) /\ SameStack(a, e) /\ SameRunner(a, e) /\ SameLoad(a, e)
        /\ e.input = a.input /\ e.requests = a.requests /\ e.failed = a.failed
        /\ e.state = a.state /\ e.parsing = a.parsing /\ e.finished = a.finished
        /\ e.endDelayed = TRUE /\ e.chunks = a.chunks /\ e.suspends = a.suspends
    BY <1>6 DEF FitsBut, SameScheduler, SamePause, SameWait, SameRunner, SameStack, SameLoad, IsDoc, Fields
  <2> HIDE DEF e
  <2>5. ModeOK(e) /\ Tokens(e) = Tokens(a)
    BY <1>6, <1>7, <2>4 DEF FitsBut, ModeOK, Tokens
  <2>6. WaitOK(e) /\ LoadOK(e) /\ Asserted(e)
    BY <1>6, <2>4, <2>5 DEF FitsBut, WaitOK, SameWait, LoadOK, SameLoad, SameRunner, Asserted
  <2>7. AdmitsWith(e, Names(a.calls)) /\ QuietOK(e)
    BY <1>6, <1>7, <1>8, <2>4 DEF AdmitsWith, QuietOK, SameStack
  <2>8. FitsBut(e, 0, 0, 0) /\ (isScheduledForResume(e) <=> isScheduledForResume(a))
    BY <1>6, <2>4, <2>5, <2>6, <2>7, PhaseFits DEF SameRunner, SameScripts
  <2>9. Before(e, "none")
    BY <2>3, <2>4, <2>8 DEF Before, Rests, Watched, SamePause, SameWait
  <2> QED BY <1>1, <1>7, <1>8, <2>1, <2>4, <2>8, <2>9 DEF Goes, DocOK, SameStack
<1>10. CASE ~shouldDelayEnd(a)
  <2>1. attemptToEnd(a) = prepareToStopParsing(a)
    BY <1>10 DEF attemptToEnd
  <2>2. ~a.paused /\ ~isScheduledForResume(a)
    BY <1>10 DEF shouldDelayEnd
  <2>3. ~m.paused /\ ~isScheduledForResume(m)
    BY <1>6, <2>2 DEF SamePause
  <2>4. m.script = NoToken /\ m.blocking = NoToken /\ a.input[1] = <<"eof">>
    BY <1>4, <1>5, <1>6, <2>3 DEF Rests
  <2>5. Quiet(a)
    BY <1>6, <2>2, <2>4 DEF Quiet, SamePause, SameWait
  <2> QED BY <1>1, <1>6, <1>7, <1>8, <2>1, <2>5, PrepareToStopParsingGoes
<1> QED BY <1>9, <1>10

\* All but the scheduler of the parser.
SameButScheduler(d, e) ==
    /\ IsDoc(e) /\ SameMode(d, e) /\ SamePause(d, e) /\ SameWait(d, e) /\ SameStack(d, e)
    /\ SameRunner(d, e) /\ SameLoad(d, e) /\ e.input = d.input /\ e.requests = d.requests
    /\ e.failed = d.failed

LEMMA SchedulerFits ==
    ASSUME NEW d, FitsBut(d, 0, 0, 0), NEW e, SameButScheduler(d, e), SchedulerOK(e),
           AdmitsWith(e, Names(d.calls)), QuietOK(e)
    PROVE  FitsBut(e, 0, 0, 0) /\ Tokens(e) = Tokens(d)
<1>1. ModeOK(e) /\ Tokens(e) = Tokens(d) /\ PauseOK(e) /\ WaitOK(e) /\ LoadOK(e) /\ Asserted(e)
  BY DEF FitsBut, SameButScheduler, SameMode, ModeOK, Tokens, PauseOK, SamePause, WaitOK, SameWait,
         LoadOK, SameLoad, SameRunner, Asserted
<1>2. RunnerOK(e, 0)
  <2>1. \A t : IsAsync(e, t) <=> IsAsync(d, t)
    BY DEF IsAsync, SameButScheduler, SameMode
  <2>2. PendingAsync(e) = PendingAsync(d)
    BY <1>1 DEF PendingAsync, SameButScheduler, SameRunner
  <2> QED BY <1>1, <2>1, <2>2 DEF FitsBut, RunnerOK, Delays, SameButScheduler, SameRunner, SameMode
<1>3. StackedBut(e, 0, 0, 0)
  BY <1>1 DEF FitsBut, StackedBut, SameButScheduler, SameStack
<1> QED BY <1>1, <1>2, <1>3 DEF FitsBut, SameButScheduler, SameStack

LEMMA ResumeAfterYieldGoes ==
    ASSUME NEW d, Idle(d), d.parserTimer.queued > 0, NEW labels
    PROVE  Goes(resumeParsingAfterYield([[d EXCEPT !.now = labels]
                                           EXCEPT !.parserTimer = timerFired(@)]))
<1> DEFINE e == [[d EXCEPT !.now = labels] EXCEPT !.parserTimer = timerFired(@)]
           f == later(e, "endIfDelayed", NoToken)
<1>1. /\ FitsBut(d, 0, 0, 0) /\ Watched(d) /\ (d.state = "parsing" => Rests(d))
      /\ d.calls = <<>> /\ Names(d.calls) = {}
  BY IdleFacts
<1>2. TimerOK(d.parserTimer) /\ TimerPending(d.parserTimer) /\ isActive(d.parserTimer)
  BY <1>1, TimerFiredDoes DEF FitsBut, SchedulerOK
<1>3. isScheduledForResume(d) /\ d.parserSuspended = FALSE /\ d.suspended = FALSE
  BY <1>1, <1>2 DEF isScheduledForResume, FitsBut, SchedulerOK, ModeOK
<1>4. d.state = "parsing"
  BY <1>1, <1>3 DEF FitsBut, QuietOK, Quiet
<1>5. d.blocking = NoToken /\ (d.paused <=> d.script # NoToken)
  BY <1>1, <1>3, <1>4 DEF Rests
<1>6. SameButScheduler(d, e) /\ e.parserTimer = timerFired(d.parserTimer)
      /\ e.parserSuspended = d.parserSuspended
  BY <1>1 DEF FitsBut, SameButScheduler, SameMode, SamePause, SameWait, SameStack, SameRunner,
              SameLoad, IsDoc, Fields
<1> HIDE DEF e
<1>7. TimerOK(e.parserTimer) /\ ~TimerPending(e.parserTimer) /\ ~isActive(e.parserTimer)
  BY <1>2, <1>6, TimerFiredDoes
<1>8. SchedulerOK(e) /\ ~isScheduledForResume(e)
  BY <1>3, <1>6, <1>7 DEF SchedulerOK, isScheduledForResume
<1>9. e.state = "parsing" /\ e.parsing /\ e.calls = <<>> /\ ~e.suspended /\ Watched(e)
      /\ e.blocking = NoToken /\ (e.paused <=> e.script # NoToken)
  BY <1>1, <1>3, <1>4, <1>5, <1>6 DEF SameButScheduler, SameMode, SamePause, SameWait, SameStack,
              FitsBut, ModeOK, Watched
<1>10. AdmitsWith(e, Names(d.calls)) /\ QuietOK(e)
  BY <1>1, <1>8, <1>9 DEF AdmitsWith, QuietOK
<1>11. FitsBut(e, 0, 0, 0)
  BY <1>1, <1>6, <1>8, <1>10, SchedulerFits
<1>12. /\ FitsBut(f, 0, 0, 0) /\ Top(f.calls) = "endIfDelayed" /\ SameButCalls(e, f)
       /\ f.calls # <<>> /\ (isScheduledForResume(f) <=> isScheduledForResume(e))
       /\ Names(f.calls) = {"endIfDelayed"}
  BY <1>9, <1>11, PushEndIfDelayed
<1>13. resumeParsingAfterYield(e) = pumpTokenizer(f, "AllowYield")
  BY DEF resumeParsingAfterYield
<1> HIDE DEF f
<1>14. /\ Watched(f) /\ ~f.suspended /\ f.state = "parsing" /\ ~isScheduledForResume(f)
       /\ f.blocking = NoToken /\ (f.paused <=> f.script # NoToken)
       /\ Names(f.calls) \subseteq Yielding
  BY <1>8, <1>9, <1>12 DEF Watched, SameButCalls, SameOutside, SameMode, SameWait, SamePause, Yielding
<1>15. Calls("endIfDelayed", "endPump") /\ "AllowYield" \in Modes
  BY DEF Calls, Modes
<1>16. Goes(pumpTokenizer(f, "AllowYield"))
  BY <1>12, <1>14, <1>15, PumpTokenizerGoes
<1> QED BY <1>13, <1>16 DEF e

\* A script or a style sheet s is loaded, in an event action that ends with
\* the release of the request for it.
Loading(d) ==
    /\ FitsBut(d, 0, 0, 0) /\ Before(d, "releaseResources") /\ ~d.suspended
    /\ Names(d.calls) = {"releaseResources"} /\ Top(d.calls) = "releaseResources"
    /\ d.calls # <<>>

LEMMA LoadingStarts ==
    ASSUME NEW d, Idle(d), ~d.suspended, NEW e, SameDoc(d, e), NEW s \in Tokens(d)
    PROVE  /\ Loading(later(e, "releaseResources", s)) /\ SameButCalls(e, later(e, "releaseResources", s))
           /\ Tokens(e) = Tokens(d)
<1> DEFINE g == later(e, "releaseResources", s)
<1>1. FitsBut(d, 0, 0, 0) /\ Before(d, "none") /\ d.calls = <<>>
  BY IdleFacts
<1>2. FitsBut(e, 0, 0, 0) /\ Before(e, "none")
  BY <1>1, SameFits
<1>3. e.calls = <<>> /\ Tokens(e) = Tokens(d) /\ e.suspended = d.suspended
  BY <1>1 DEF SameDoc, SameOutside, SameStack, SameMode, Tokens
<1>4. Names(e.calls) = {}
  BY <1>3, EmptyStack
<1>5. Pushable(e.calls, "releaseResources", s, Tokens(e))
  BY <1>3, <1>4 DEF Pushable, Bottom, First, Outermost
<1>6. AdmitsWith(e, Names(e.calls) \cup {"releaseResources"})
  BY <1>2, <1>4 DEF AdmitsWith, Stops, StopSteps, Yielding, FitsBut
<1>7. "releaseResources" \in StepNames \ (Nested \cup Pumped \cup Split)
      /\ s \in Tokens(e) \cup Modes \cup {NoToken}
  BY <1>3 DEF StepNames, Nested, Pumped, Split
<1>8. /\ FitsBut(g, 0, 0, 0) /\ Top(g.calls) = "releaseResources" /\ SameButCalls(e, g) /\ g.calls # <<>>
      /\ Names(g.calls) = Names(e.calls) \cup {"releaseResources"}
      /\ \A other : Before(e, other) => Before(g, other)
  BY <1>2, <1>5, <1>6, <1>7, PushPlain
<1> HIDE DEF g
<1>9. Before(g, "releaseResources")
  <2>1. Before(g, "none")
    BY <1>2, <1>8
  <2> QED BY <2>1 DEF Before, Bottom
<1>10. ~g.suspended
  BY <1>3, <1>8 DEF SameButCalls, SameOutside, SameMode
<1> QED BY <1>3, <1>4, <1>8, <1>9, <1>10 DEF Loading, g

LEMMA LoadingGoes ==
    ASSUME NEW d, Loading(d)
    PROVE  Goes(d)
BY DEF Loading, Goes, DocOK

\* A script that blocks the parser, which waits for it or for a style sheet.
LEMMA LoadingBlocked ==
    ASSUME NEW d, Loading(d), d.blocking # NoToken
    PROVE  d.state = "parsing" /\ d.paused /\ Busy(d)
<1>1. d.state = "parsing"
  BY DEF Loading, FitsBut, QuietOK, Quiet
<1>2. Rests(d)
  BY <1>1 DEF Loading, Before, Bottom
<1> QED BY <1>1, <1>2 DEF Rests, Busy

LEMMA NotifyFinishedGoes ==
    ASSUME NEW d, Loading(d), NEW s, s \in d.watching, s \in d.loaded
    PROVE  Goes(notifyFinished(d, s))
<1> DEFINE o == check(d, d.nesting = 0)
           m == modifiesInput(o)
           c == check(m, d.blocking = s)
<1>1. FitsBut(d, 0, 0, 0) /\ Watched(d) /\ ~d.suspended /\ Names(d.calls) = {"releaseResources"}
      /\ d.calls # <<>>
  BY DEF Loading, Before
<1>5. SameDoc(d, o) /\ o.loaded = d.loaded
  <2>1. d.nesting = 0
    BY <1>1, NotNested DEF Nested
  <2>2. o.loaded = d.loaded
    BY <1>1 DEF FitsBut, check, IsDoc, Fields
  <2> QED BY <1>1, <2>1, <2>2, CheckHolds DEF FitsBut
<1>6. IsDoc(o)
  BY <1>5 DEF SameDoc, SameOutside
<1> HIDE DEF o
<1>7. SameDoc(o, m) /\ m.loaded = o.loaded
  BY <1>6, LabelsOnly DEF modifiesInput, addArc, IsDoc, Fields
<1>2. SameDoc(d, m) /\ m.loaded = d.loaded
  BY <1>5, <1>7, SameDocTrans
<1>3. CASE d.state # "parsing"
  <2>1. d.afterParsing # <<>> /\ s = Head(d.afterParsing) /\ d.watching # {}
    BY <1>1, <1>3 DEF Watched
  <2>2. d.parsing /\ d.state = "stopping"
    BY <1>1, <1>3, <2>1 DEF FitsBut, WaitOK, ModeOK
  <2>3. notifyFinished(d, s) = attemptToRunDeferredScriptsAndEnd(m)
    BY <2>2 DEF notifyFinished, o
  <2> HIDE DEF m
  <2>4. FitsBut(m, 0, 0, 0)
    BY <1>1, <1>2, SameFits
  <2>5. /\ Watched(m) /\ ~m.suspended /\ m.state = "stopping" /\ m.parsing
        /\ Names(m.calls) \subseteq {"releaseResources"} /\ Head(m.afterParsing) \in m.loaded
    BY <1>1, <1>2, <2>1, <2>2 DEF SameDoc, SameOutside, SameMode, SameWait, SameStack, Watched
  <2> QED BY <2>3, <2>4, <2>5, AttemptToRunDeferredGoes
<1>4. CASE d.state = "parsing"
  <2>1. d.blocking = s /\ d.blocking # NoToken
    <3>1. d.blocking = s /\ s \in Tokens(d)
      BY <1>1, <1>4 DEF Watched, FitsBut, WaitOK
    <3>2. NoToken \notin Tokens(d)
      BY <1>1, PageFacts DEF FitsBut
    <3> QED BY <3>1, <3>2
  <2>2. d.paused /\ Busy(d)
    BY <2>1, LoadingBlocked
  <2>3. notifyFinished(d, s) = unpause(c)
    BY <1>4 DEF notifyFinished, o
  <2>4. SameDoc(m, c)
    BY <1>2, <2>1, CheckHolds DEF SameDoc, SameOutside
  <2> HIDE DEF c, m
  <2>5. FitsBut(m, 0, 0, 0)
    BY <1>1, <1>2, SameFits
  <2>6. FitsBut(c, 0, 0, 0)
    BY <2>4, <2>5, SameFits
  <2>7. /\ Watched(c) /\ ~c.suspended /\ Busy(c) /\ c.paused /\ c.calls # <<>>
        /\ Names(c.calls) \subseteq {"releaseResources"}
    BY <1>1, <1>2, <2>2, <2>4 DEF SameDoc, SameOutside, SameMode, SameWait, SameStack, SamePause,
              SameScheduler, isScheduledForResume, Watched, Busy
  <2> QED BY <2>3, <2>6, <2>7, UnpauseGoes
<1> QED BY <1>3, <1>4

LEMMA StylesheetsGoes ==
    ASSUME NEW d, Loading(d)
    PROVE  Goes(executeScriptsWaitingForStylesheets(d))
<1> DEFINE e == [d EXCEPT !.inputJoin = @ \cup Now]
<1>1. FitsBut(d, 0, 0, 0) /\ Watched(d) /\ ~d.suspended /\ Names(d.calls) = {"releaseResources"}
      /\ d.calls # <<>> /\ d.waitsForSheets \in BOOLEAN
  BY DEF Loading, Before, FitsBut, WaitOK
<1>2. CASE d.waitsForSheets
  <2>1. d.blocking # NoToken
    BY <1>1, <1>2 DEF FitsBut, WaitOK
  <2>2. d.paused /\ Busy(d)
    BY <2>1, LoadingBlocked
  <2>3. executeScriptsWaitingForStylesheets(d) = unpause(e)
    BY <1>2 DEF executeScriptsWaitingForStylesheets
  <2>4. SameDoc(d, e)
    BY <1>1 DEF FitsBut, SameDoc, SameOutside, SameMode, SameScheduler, SamePause, SameWait, SameStack,
                SameRunner, SameLoad, Asserted, IsDoc, Fields
  <2> HIDE DEF e
  <2>5. FitsBut(e, 0, 0, 0)
    BY <1>1, <2>4, SameFits
  <2>6. /\ Watched(e) /\ ~e.suspended /\ Busy(e) /\ e.paused /\ e.calls # <<>>
        /\ Names(e.calls) \subseteq {"releaseResources"}
    BY <1>1, <2>2, <2>4 DEF SameDoc, SameOutside, SameMode, SameWait, SameStack, SamePause,
              SameScheduler, isScheduledForResume, Watched, Busy
  <2> QED BY <2>3, <2>5, <2>6, UnpauseGoes
<1>3. CASE ~d.waitsForSheets
  <2>1. executeScriptsWaitingForStylesheets(d) = d
    BY <1>3 DEF executeScriptsWaitingForStylesheets
  <2> QED BY <2>1, LoadingGoes
<1> QED BY <1>2, <1>3

LEMMA ScriptFinishedLoads ==
    ASSUME NEW d, Loading(d), NEW s \in Tokens(d),
           s \in d.async \/ s \in {d.inOrder[k] : k \in 1..Len(d.inOrder)}
    PROVE  Loading(scriptFinished(d, s)) /\ scriptFinished(d, s).watching = d.watching
<1> DEFINE e == scriptFinished(d, s)
<1>1. /\ FitsBut(d, 0, 0, 0) /\ IsDoc(d) /\ ModeOK(d) /\ RunnerOK(d, 0) /\ LoadOK(d) /\ Asserted(d)
      /\ ~d.suspended /\ Before(d, "releaseResources") /\ 0 \in Nat
  BY DEF Loading, FitsBut
<1>2. IF IsAsync(d, s) THEN s \in d.async ELSE d.inOrder # <<>>
  BY <1>1 DEF RunnerOK
<1>3. /\ RunnerOK(e, 0) /\ SameParser(d, e) /\ e.requests = d.requests
      /\ Asserted(d) => Asserted(e)
      /\ e.delayCount = d.delayCount /\ e.addedSince = d.addedSince
  BY <1>1, <1>2, ScriptFinishedDoes
<1> HIDE DEF e
<1>4. LoadOK(e)
  BY <1>1, <1>3 DEF LoadOK, SameParser, SameMode, SameLoad, Tokens
<1>5. FitsBut(e, 0, 0, 0) /\ Before(e, "releaseResources")
  BY <1>1, <1>3, <1>4, RunnerFits
<1>6. e.calls = d.calls /\ e.suspended = d.suspended /\ e.watching = d.watching
  BY <1>3 DEF SameParser, SameMode, SameStack, SameWait
<1>7. Loading(e)
  BY <1>5, <1>6 DEF Loading
<1> QED BY <1>6, <1>7 DEF e

-----------------------------------------------------------------------------
(* The end of an event action. *)

\* Timers that differ in the labels of the event action that started them.
SameTimer(t, u) ==
    DOMAIN u = DOMAIN t /\ u.inHeap = t.inHeap /\ u.queued = t.queued /\ u.flag = t.flag

SameLabelled(d, e) ==
    /\ IsDoc(e) /\ SameMode(d, e) /\ SamePause(d, e) /\ SameWait(d, e) /\ SameStack(d, e)
    /\ e.input = d.input /\ e.requests = d.requests /\ e.failed = d.failed
    /\ SameTimer(d.parserTimer, e.parserTimer) /\ e.parserSuspended = d.parserSuspended
    /\ e.delayCount = d.delayCount /\ e.inOrder = d.inOrder /\ e.async = d.async
    /\ e.runnerSuspended = d.runnerSuspended /\ e.strayed = d.strayed
    /\ e.addedSince = d.addedSince
    /\ DOMAIN e.asyncTimers = Tokens(d)
    /\ \A t \in Tokens(d) : SameTimer(d.asyncTimers[t], e.asyncTimers[t])
    /\ ~d.strayed => SameTimer(d.inOrderTimer, e.inOrderTimer)
    /\ e.isComplete = d.isComplete /\ SameTimer(d.loadedTimer, e.loadedTimer)

LEMMA SameTimerKept ==
    ASSUME NEW t, NEW u, SameTimer(t, u)
    PROVE  /\ TimerOK(t) => TimerOK(u)
           /\ TimerPending(u) <=> TimerPending(t)
           /\ isActive(u) <=> isActive(t)
BY Zenon DEF SameTimer, TimerOK, TimerPending, isActive

LEMMA LabelledFits ==
    ASSUME NEW d, FitsBut(d, 0, 0, 0), NEW e, SameLabelled(d, e)
    PROVE  FitsBut(e, 0, 0, 0) /\ (\A name : Before(d, name) => Before(e, name))
<1>1. ModeOK(e) /\ Tokens(e) = Tokens(d) /\ PauseOK(e) /\ WaitOK(e) /\ Asserted(e)
  BY DEF FitsBut, SameLabelled, SameMode, ModeOK, Tokens, PauseOK, SamePause, WaitOK, SameWait, Asserted
<1>2. TimerOK(e.parserTimer) /\ (TimerPending(e.parserTimer) <=> TimerPending(d.parserTimer))
      /\ (isActive(e.parserTimer) <=> isActive(d.parserTimer))
  BY SameTimerKept DEF SameLabelled, FitsBut, SchedulerOK
<1>3. SchedulerOK(e) /\ (isScheduledForResume(e) <=> isScheduledForResume(d))
  BY <1>2 DEF FitsBut, SchedulerOK, isScheduledForResume, SameLabelled, SameMode
<1>4. LoadOK(e)
  <2>1. DOMAIN e.loadedTimer = DOMAIN d.loadedTimer
        /\ (TimerPending(e.loadedTimer) <=> TimerPending(d.loadedTimer))
    BY SameTimerKept DEF SameLabelled, SameTimer
  <2> QED BY <1>1, <2>1 DEF FitsBut, LoadOK, SameLabelled, SameMode
<1>5. StackedBut(e, 0, 0, 0) /\ e.calls = d.calls
  BY <1>1 DEF FitsBut, StackedBut, SameLabelled, SameStack
<1>6. AdmitsWith(e, Names(e.calls)) /\ QuietOK(e)
  BY <1>3, <1>5 DEF FitsBut, AdmitsWith, QuietOK, Quiet, SameLabelled, SameMode, SamePause, SameWait
<1>7. RunnerOK(e, 0)
  <2>1. \A t : IsAsync(e, t) <=> IsAsync(d, t)
    BY DEF IsAsync, SameLabelled, SameMode
  <2>2. \A t \in Tokens(d) : /\ TimerOK(e.asyncTimers[t])
                             /\ TimerPending(e.asyncTimers[t]) <=> TimerPending(d.asyncTimers[t])
    BY SameTimerKept DEF SameLabelled, FitsBut, RunnerOK
  <2>3. PendingAsync(e) = PendingAsync(d)
    BY <1>1, <2>2 DEF PendingAsync
  <2>4. ~d.strayed => /\ TimerOK(e.inOrderTimer)
                      /\ TimerPending(e.inOrderTimer) <=> TimerPending(d.inOrderTimer)
                      /\ isActive(e.inOrderTimer) <=> isActive(d.inOrderTimer)
    BY SameTimerKept DEF SameLabelled, FitsBut, RunnerOK
  <2>5. RunnerOK(d, 0)
    BY DEF FitsBut
  <2>6. Delays(e, 0)
    BY <2>3, <2>5 DEF RunnerOK, Delays, SameLabelled
  <2>7. \A t \in Tokens(e) : /\ TimerOK(e.asyncTimers[t])
                             /\ TimerPending(e.asyncTimers[t]) => IsAsync(e, t)
    BY <1>1, <2>1, <2>2, <2>5 DEF RunnerOK
  <2> QED BY <1>1, <2>1, <2>4, <2>5, <2>6, <2>7 DEF RunnerOK, SameLabelled, SameMode
<1>8. \A name : Before(d, name) => Before(e, name)
  BY <1>3 DEF SameLabelled, SameMode, SameWait, SamePause, Before, Rests, Watched
<1> QED BY <1>1, <1>3, <1>4, <1>5, <1>6, <1>7, <1>8 DEF FitsBut, SameLabelled

LEMMA SettledLabelled ==
    ASSUME NEW d, FitsBut(d, 0, 0, 0)
    PROVE  SameLabelled(d, Settled(d))
<1> DEFINE past == d.now \ Now
           settle(action) == IF Now \subseteq action THEN (action \ Now) \cup past ELSE action
           settleTimer(t) == [t EXCEPT !.starter = settle(@)]
           e == [d EXCEPT !.now = past,
                  !.lastParse = settle(@), !.lastNonInserted = settle(@),
                  !.inputJoin = settle(@), !.parsingJoin = settle(@),
                  !.requestJoin = settle(@), !.delayJoin = settle(@),
                  !.suspendJoin = settle(@), !.resumeJoin = settle(@),
                  !.lastInOrder = settle(@),
                  !.loadAction = [s \in DOMAIN @ |-> settle(@[s])],
                  !.eventActionToFinish = [s \in DOMAIN @ |-> settle(@[s])],
                  !.asyncTimers = [s \in DOMAIN @ |-> settleTimer(@[s])],
                  !.parserTimer = settleTimer(@), !.inOrderTimer = settleTimer(@),
                  !.loadedTimer = settleTimer(@), !.delayTimer = settleTimer(@)]
<1>1. Settled(d) = e
  BY DEF Settled
<1>2. ASSUME NEW t, {"inHeap", "queued", "flag", "starter"} \subseteq DOMAIN t
      PROVE  SameTimer(t, settleTimer(t))
  <2> HIDE DEF settle
  <2> QED BY <1>2 DEF SameTimer
<1> HIDE DEF settleTimer, settle, past
<1>9. IsDoc(d)
  BY DEF FitsBut
<1>3. IsDoc(e) /\ SameMode(d, e) /\ SamePause(d, e) /\ SameWait(d, e) /\ SameStack(d, e)
  <2>1. IsDoc(e) /\ SameMode(d, e)
    BY <1>9, ZenonT(60) DEF SameMode, IsDoc, Fields
  <2>2. SamePause(d, e) /\ SameWait(d, e) /\ SameStack(d, e)
    BY <1>9 DEF SamePause, SameWait, SameStack, IsDoc, Fields
  <2> QED BY <2>1, <2>2
<1>4. /\ e.input = d.input /\ e.requests = d.requests /\ e.failed = d.failed
      /\ e.parserSuspended = d.parserSuspended /\ e.delayCount = d.delayCount /\ e.inOrder = d.inOrder
      /\ e.async = d.async /\ e.runnerSuspended = d.runnerSuspended /\ e.isComplete = d.isComplete
      /\ e.strayed = d.strayed /\ e.addedSince = d.addedSince
      /\ e.parserTimer = settleTimer(d.parserTimer) /\ e.inOrderTimer = settleTimer(d.inOrderTimer)
      /\ e.loadedTimer = settleTimer(d.loadedTimer)
      /\ e.asyncTimers = [s \in DOMAIN d.asyncTimers |-> settleTimer(d.asyncTimers[s])]
  BY <1>9 DEF IsDoc, Fields
<1> HIDE DEF e
<1>5. /\ SameTimer(d.parserTimer, e.parserTimer) /\ SameTimer(d.loadedTimer, e.loadedTimer)
      /\ ~d.strayed => SameTimer(d.inOrderTimer, e.inOrderTimer)
  BY <1>2, <1>4 DEF FitsBut, SchedulerOK, LoadOK, RunnerOK, TimerOK
<1>6. DOMAIN d.asyncTimers = Tokens(d)
      /\ \A t \in Tokens(d) : {"inHeap", "queued", "flag", "starter"} \subseteq DOMAIN d.asyncTimers[t]
  BY DEF FitsBut, RunnerOK, TimerOK
<1>7. DOMAIN e.asyncTimers = Tokens(d)
      /\ \A t \in Tokens(d) : SameTimer(d.asyncTimers[t], e.asyncTimers[t])
  BY <1>2, <1>4, <1>6
<1>8. SameLabelled(d, e)
  BY <1>3, <1>4, <1>5, <1>7 DEF SameLabelled
<1> QED BY <1>1, <1>8

LEMMA SettledLogged ==
    ASSUME NEW d, FitsBut(d, 0, 0, 0), Logged(d, d.now)
    PROVE  Logged(Settled(d), {}) /\ Settled(d).ran = d.ran /\ Settled(d).now = d.now \ Now
<1> DEFINE past == d.now \ Now
           settle(action) == IF Now \subseteq action THEN (action \ Now) \cup past ELSE action
           settleTimer(t) == [t EXCEPT !.starter = settle(@)]
           e == [d EXCEPT !.now = past,
                  !.lastParse = settle(@), !.lastNonInserted = settle(@),
                  !.inputJoin = settle(@), !.parsingJoin = settle(@),
                  !.requestJoin = settle(@), !.delayJoin = settle(@),
                  !.suspendJoin = settle(@), !.resumeJoin = settle(@),
                  !.lastInOrder = settle(@),
                  !.loadAction = [s \in DOMAIN @ |-> settle(@[s])],
                  !.eventActionToFinish = [s \in DOMAIN @ |-> settle(@[s])],
                  !.asyncTimers = [s \in DOMAIN @ |-> settleTimer(@[s])],
                  !.parserTimer = settleTimer(@), !.inOrderTimer = settleTimer(@),
                  !.loadedTimer = settleTimer(@), !.delayTimer = settleTimer(@)]
<1>1. Settled(d) = e
  BY DEF Settled
<1>2. ASSUME NEW t, {"inHeap", "queued", "flag", "starter"} \subseteq DOMAIN t
      PROVE  SameTimer(t, settleTimer(t)) /\ settleTimer(t).starter = settle(t.starter)
  <2> HIDE DEF settle
  <2> QED BY <1>2 DEF SameTimer
<1>3. ASSUME NEW action, NEW label, label \notin Now, Has(action, d.now, label)
      PROVE  label \in settle(action)
  BY <1>3 DEF Has
<1>4. settle({}) = {}
  BY DEF Now
<1>5. \A x : <<"ready", x>> \notin Now /\ <<"ran", x>> \notin Now
  BY DEF Now
<1>16. ASSUME NEW action, NEW x
       PROVE  /\ Has(action, d.now, <<"ready", x>>) => <<"ready", x>> \in settle(action)
              /\ Has(action, d.now, <<"ran", x>>) => <<"ran", x>> \in settle(action)
  <2> DEFINE ready == <<"ready", x>>
             ran == <<"ran", x>>
  <2>1. ready \notin Now /\ ran \notin Now
    BY <1>5
  <2> HIDE DEF ready, ran, settle
  <2>2. /\ Has(action, d.now, ready) => ready \in settle(action)
        /\ Has(action, d.now, ran) => ran \in settle(action)
    BY <1>3, <2>1
  <2> QED BY <2>2 DEF ready, ran
<1> HIDE DEF settleTimer, settle
<1>6. IsDoc(d)
  BY DEF FitsBut
<1>7. /\ e.page = d.page /\ e.loaded = d.loaded /\ e.ran = d.ran /\ e.inOrder = d.inOrder
      /\ e.runnerSuspended = d.runnerSuspended /\ e.now = past /\ e.late = d.late
      /\ e.strayed = d.strayed /\ e.misfired = d.misfired
      /\ e.lastInOrder = settle(d.lastInOrder) /\ e.inOrderTimer = settleTimer(d.inOrderTimer)
      /\ e.asyncTimers = [s \in DOMAIN d.asyncTimers |-> settleTimer(d.asyncTimers[s])]
      /\ e.eventActionToFinish =
            [s \in DOMAIN d.eventActionToFinish |-> settle(d.eventActionToFinish[s])]
  BY <1>6 DEF IsDoc, Fields
<1> HIDE DEF e
<1>8. /\ Tokens(e) = Tokens(d) /\ Ordered(d, d.now, {}) /\ Executed(d, d.now)
      /\ DOMAIN d.asyncTimers = Tokens(d) /\ DOMAIN d.eventActionToFinish = Tokens(d)
  BY <1>7 DEF Tokens, Logged, Ordered
<1>9. ASSUME NEW s \in Tokens(d)
      PROVE  /\ e.eventActionToFinish[s] = settle(d.eventActionToFinish[s])
             /\ d.eventActionToFinish[s] # {} => <<"ready", s>> \in e.eventActionToFinish[s]
             /\ e.eventActionToFinish[s] # {} => d.eventActionToFinish[s] # {}
             /\ TimerPending(e.asyncTimers[s]) => <<"ready", s>> \in e.asyncTimers[s].starter
  <2>1. e.eventActionToFinish[s] = settle(d.eventActionToFinish[s])
        /\ e.asyncTimers[s] = settleTimer(d.asyncTimers[s])
    BY <1>7, <1>8
  <2>2. /\ d.eventActionToFinish[s] # {} => Has(d.eventActionToFinish[s], d.now, <<"ready", s>>)
        /\ TimerPending(d.asyncTimers[s]) => Has(d.asyncTimers[s].starter, d.now, <<"ready", s>>)
    BY <1>8 DEF Ordered
  <2>3. d.eventActionToFinish[s] # {} => <<"ready", s>> \in e.eventActionToFinish[s]
    BY <1>16, <2>1, <2>2
  <2>4. e.eventActionToFinish[s] # {} => d.eventActionToFinish[s] # {}
    BY <1>4, <2>1
  <2>5. {"inHeap", "queued", "flag", "starter"} \subseteq DOMAIN d.asyncTimers[s]
    BY DEF FitsBut, RunnerOK, TimerOK
  <2>6. /\ TimerPending(e.asyncTimers[s]) <=> TimerPending(d.asyncTimers[s])
        /\ e.asyncTimers[s].starter = settle(d.asyncTimers[s].starter)
    BY <1>2, <2>1, <2>5, SameTimerKept
  <2>7. TimerPending(e.asyncTimers[s]) => <<"ready", s>> \in e.asyncTimers[s].starter
    BY <1>16, <2>2, <2>6
  <2> QED BY <2>1, <2>3, <2>4, <2>7
<1>10. ~d.strayed => (TimerPending(e.inOrderTimer) <=> TimerPending(d.inOrderTimer))
  BY <1>2, <1>7, SameTimerKept DEF FitsBut, RunnerOK, TimerOK
<1>11. DOMAIN e.eventActionToFinish = Tokens(e) /\ DOMAIN e.asyncTimers = Tokens(e)
  BY <1>7, <1>8
<1>12. \A s \in Tokens(e) :
          /\ e.eventActionToFinish[s] # {} => Has(e.eventActionToFinish[s], {}, <<"ready", s>>)
          /\ TimerPending(e.asyncTimers[s]) => Has(e.asyncTimers[s].starter, {}, <<"ready", s>>)
  BY <1>8, <1>9 DEF Has
<1>13. ASSUME NEW k \in 1..Len(e.inOrder), e.inOrder[k] \in (e.loaded \ {}) \ e.page.denied
       PROVE  e.eventActionToFinish[e.inOrder[k]] # {}
  <2>1. d.inOrder[k] \in Tokens(d) /\ d.eventActionToFinish[d.inOrder[k]] # {}
    BY <1>7, <1>8, <1>13 DEF Ordered
  <2> QED BY <1>7, <1>9, <2>1
<1>14. Ordered(e, {}, {})
  BY <1>7, <1>8, <1>10, <1>11, <1>12, <1>13 DEF Ordered
<1>15. Executed(e, {})
  <2>1. ASSUME NEW k \in 1..Len(e.ran), e.page.kind[e.ran[k]] = "inOrder"
        PROVE  Has(e.lastInOrder, {}, <<"ran", e.ran[k]>>)
    <3>1. Has(d.lastInOrder, d.now, <<"ran", d.ran[k]>>)
      BY <1>7, <1>8, <2>1 DEF Executed
    <3>2. <<"ran", d.ran[k]>> \in settle(d.lastInOrder)
      BY <1>16, <3>1
    <3> QED BY <1>7, <3>2 DEF Has
  <2> QED BY <1>7, <1>8, <2>1 DEF Executed
<1> QED BY <1>1, <1>7, <1>14, <1>15 DEF Logged, Addable, Tokens

\* e is what an event action makes of d that executes no script of the script
\* runner.
Advances(d, e) == Idle(e) /\ Logged(e, {}) /\ e.isComplete = d.isComplete /\ e.ran = d.ran

LEMMA SettledIdle ==
    ASSUME NEW d, Idle(d), Logged(d, d.now)
    PROVE  /\ Advances(d, Settled(d)) /\ Settled(d).now = d.now \ Now
           /\ Settled(d).strayed = d.strayed
<1>1. FitsBut(d, 0, 0, 0) /\ Before(d, "none") /\ d.calls = <<>>
  BY IdleFacts
<1>2. SameLabelled(d, Settled(d))
  BY <1>1, SettledLabelled
<1>3. FitsBut(Settled(d), 0, 0, 0) /\ Before(Settled(d), "none")
  BY <1>1, <1>2, LabelledFits
<1>4. Settled(d).calls = <<>>
  BY <1>1, <1>2 DEF SameLabelled, SameStack
<1>5. Logged(Settled(d), {}) /\ Settled(d).ran = d.ran /\ Settled(d).now = d.now \ Now
  BY <1>1, SettledLogged
<1> QED BY <1>2, <1>3, <1>4, <1>5 DEF Advances, Idle, DocOK, Top, SameLabelled

LEMMA PerformsIdle ==
    ASSUME NEW d, Goes(d), Logged(d, d.now), Performs(d)
    PROVE  Advances(d, doc')
<1> DEFINE done == run(d, MaxCalls)
<1>1. done.calls = <<>> /\ doc' = Settled(done)
  BY DEF Performs
<1>2. Goes(done) /\ Keeps(d, done)
  BY RunGoes, PagesAssumption
<1> HIDE DEF done
<1>3. Idle(done) /\ Logged(done, done.now)
  BY <1>1, <1>2, KeepsLogged DEF Goes, Idle
<1> QED BY <1>1, <1>2, <1>3, SettledIdle DEF Advances, Keeps

\* An event action that begins with e, in which only the network and a timer
\* that is not the script runner's have changed.
LEMMA EventActionIdle ==
    ASSUME NEW d, Logged(d, {}), NEW e, SameLog(d, e), e.isComplete = d.isComplete,
           NEW f, Plain(e, f), Goes(f), Performs(f)
    PROVE  Advances(d, doc')
<1>1. Logged(e, e.now)
  BY SameLogged
<1>2. Logged(f, f.now)
  BY <1>1, PlainKeeps, KeepsLogged
<1>3. Advances(f, doc')
  BY <1>2, PerformsIdle
<1> QED BY <1>3 DEF Advances, Plain, SameLog

-----------------------------------------------------------------------------
(* The event actions. *)

\* What does not touch the parser keeps the invariant if its parts hold.
LEMMA IdleKept ==
    ASSUME NEW d, Idle(d), NEW e, IsDoc(e), ModeOK(e), SchedulerOK(e), RunnerOK(e, 0), LoadOK(e), Asserted(e),
           isScheduledForResume(e) <=> isScheduledForResume(d), e.page = d.page,
           e.state = "parsing" <=> d.state = "parsing", e.parsing = d.parsing,
           SamePause(d, e), SameWait(d, e), SameStack(d, e), e.input = d.input
    PROVE  Idle(e)
<1>1. FitsBut(d, 0, 0, 0) /\ Before(d, "none") /\ d.calls = <<>> /\ Names(d.calls) = {}
  BY IdleFacts
<1>2. Tokens(e) = Tokens(d) /\ PauseOK(e) /\ WaitOK(e) /\ e.calls = <<>> /\ Names(e.calls) = {}
  BY <1>1 DEF FitsBut, Tokens, PauseOK, WaitOK, SamePause, SameWait, SameStack
<1>3. StackedBut(e, 0, 0, 0)
  BY <1>1, <1>2 DEF FitsBut, StackedBut, SameStack
<1>4. AdmitsWith(e, Names(e.calls)) /\ QuietOK(e)
  BY <1>1, <1>2 DEF FitsBut, AdmitsWith, QuietOK, Quiet, SamePause, SameWait
<1>5. Before(e, "none")
  BY <1>1 DEF Before, Rests, Watched, SamePause, SameWait, Bottom
<1> QED BY <1>2, <1>3, <1>4, <1>5 DEF Idle, DocOK, FitsBut, Top

\* ... and what touches only the script runner, the load counters and labels.
LEMMA RunnerIdle ==
    ASSUME NEW d, Idle(d), NEW e, SameParser(d, e), RunnerOK(e, 0), LoadOK(e), Asserted(e)
    PROVE  Idle(e)
<1>1. FitsBut(d, 0, 0, 0) /\ Before(d, "none") /\ d.calls = <<>>
  BY IdleFacts
<1>2. FitsBut(e, 0, 0, 0) /\ Before(e, "none")
  BY <1>1, RunnerFits
<1>3. e.calls = <<>>
  BY <1>1 DEF SameParser, SameStack
<1> QED BY <1>2, <1>3 DEF Idle, DocOK, Top

LEMMA SameIdle ==
    ASSUME NEW d, Idle(d), NEW e, SameDoc(d, e)
    PROVE  Idle(e)
<1>1. FitsBut(d, 0, 0, 0) /\ Before(d, "none") /\ d.calls = <<>>
  BY IdleFacts
<1>2. FitsBut(e, 0, 0, 0) /\ Before(e, "none")
  BY <1>1, SameFits
<1>3. e.calls = <<>>
  BY <1>1 DEF SameDoc, SameStack
<1> QED BY <1>2, <1>3 DEF Idle, DocOK, Top

\* The network.
LEMMA ArrivalIdle ==
    ASSUME NEW d, Idle(d), ~d.finished, NEW e, IsDoc(e), SameScheduler(d, e), SamePause(d, e), SameWait(d, e),
           SameStack(d, e), SameRunner(d, e), SameLoad(d, e), e.requests = d.requests,
           e.input = d.input, e.failed = d.failed, e.page = d.page, e.state = d.state,
           e.parsing = d.parsing, e.endDelayed = d.endDelayed, e.suspended = d.suspended,
           e.suspends = d.suspends, e.chunks \in Nat, e.finished \in BOOLEAN,
           e.finished => e.chunks = Len(e.page.chunks)
    PROVE  Idle(e) /\ e.state = "parsing" /\ e.endDelayed = FALSE /\ Tokens(e) = Tokens(d)
<1>1. FitsBut(d, 0, 0, 0)
  BY IdleFacts
<1>2. d.state = "parsing" /\ d.endDelayed = FALSE /\ d.parsing
  BY <1>1 DEF FitsBut, ModeOK
<1>3. ModeOK(e) /\ Tokens(e) = Tokens(d)
  BY <1>1, <1>2 DEF FitsBut, ModeOK, Tokens
<1>4. SchedulerOK(e) /\ (isScheduledForResume(e) <=> isScheduledForResume(d))
  BY <1>1 DEF FitsBut, SchedulerOK, SameScheduler, isScheduledForResume
<1>5. RunnerOK(e, 0)
  <2>1. \A t : IsAsync(e, t) <=> IsAsync(d, t)
    BY DEF IsAsync
  <2>2. PendingAsync(e) = PendingAsync(d)
    BY <1>3 DEF PendingAsync, SameRunner
  <2> QED BY <1>1, <1>3, <2>1, <2>2 DEF FitsBut, RunnerOK, Delays, SameRunner
<1>6. LoadOK(e) /\ Asserted(e)
  BY <1>1, <1>3 DEF FitsBut, LoadOK, SameLoad, SameRunner, Asserted
<1> QED BY <1>2, <1>3, <1>4, <1>5, <1>6, IdleKept

LEMMA ReceiveDataIdle ==
    ASSUME Idle(doc), Logged(doc, {}), ReceiveData
    PROVE  Advances(doc, doc')
<1> DEFINE n == doc.chunks + 1
           e == [Entered(<<"append", n>>) EXCEPT !.chunks = n]
<1>1. /\ ~doc.suspended /\ doc.chunks < Len(doc.page.chunks)
      /\ Performs(append(e, doc.page.chunks[n]))
  BY DEF ReceiveData
<1>2. FitsBut(doc, 0, 0, 0) /\ ModeOK(doc)
  BY IdleFacts DEF FitsBut
<1>3. /\ IsDoc(e) /\ SameScheduler(doc, e) /\ SamePause(doc, e) /\ SameWait(doc, e)
      /\ SameStack(doc, e) /\ SameRunner(doc, e) /\ SameLoad(doc, e) /\ e.requests = doc.requests
      /\ e.input = doc.input /\ e.failed = doc.failed /\ e.page = doc.page /\ e.state = doc.state
      /\ e.parsing = doc.parsing /\ e.endDelayed = doc.endDelayed /\ e.suspended = doc.suspended
      /\ e.suspends = doc.suspends /\ e.chunks = n /\ e.finished = doc.finished
  BY <1>2 DEF FitsBut, Entered, SameScheduler, SamePause, SameWait, SameRunner, SameStack, SameLoad,
              IsDoc, Fields
<1>10. SameLog(doc, e)
  BY <1>2 DEF FitsBut, Entered, SameLog, IsDoc, Fields
<1>4. doc.page.chunks \in Seq(Seq(Tokens(doc))) /\ doc.chunks \in Nat /\ doc.finished \in BOOLEAN
  BY <1>2, PageFacts DEF ModeOK
<1>5. ~doc.finished /\ n \in Nat /\ doc.page.chunks[n] \in Seq(Tokens(doc))
  BY <1>1, <1>2, <1>4 DEF ModeOK
<1> HIDE DEF e
<1>6. Idle(e) /\ e.state = "parsing" /\ Tokens(e) = Tokens(doc)
  BY <1>3, <1>4, <1>5, ArrivalIdle
<1> DEFINE tokens == doc.page.chunks[n]
<1>7. tokens \in Seq(Tokens(e)) /\ ~e.suspended /\ Performs(append(e, tokens))
  BY <1>1, <1>3, <1>5, <1>6
<1> HIDE DEF tokens, n
<1>8. Plain(e, append(e, tokens)) /\ e.isComplete = doc.isComplete
  BY <1>3, AppendPlain DEF SameLoad
<1>9. Goes(append(e, tokens))
  BY <1>6, <1>7, AppendGoes
<1> QED BY <1>7, <1>8, <1>9, <1>10, EventActionIdle

LEMMA FinishLoadingIdle ==
    ASSUME Idle(doc), Logged(doc, {}), FinishLoading
    PROVE  Advances(doc, doc')
<1> DEFINE e == [Entered(<<"append", doc.chunks + 1>>) EXCEPT !.finished = TRUE]
<1>1. /\ ~doc.suspended /\ doc.chunks = Len(doc.page.chunks) /\ ~doc.finished
      /\ Performs(finish(e, "eof"))
  BY DEF FinishLoading
<1>2. FitsBut(doc, 0, 0, 0) /\ ModeOK(doc)
  BY IdleFacts DEF FitsBut
<1>3. /\ IsDoc(e) /\ SameScheduler(doc, e) /\ SamePause(doc, e) /\ SameWait(doc, e)
      /\ SameStack(doc, e) /\ SameRunner(doc, e) /\ SameLoad(doc, e) /\ e.requests = doc.requests
      /\ e.input = doc.input /\ e.failed = doc.failed /\ e.page = doc.page /\ e.state = doc.state
      /\ e.parsing = doc.parsing /\ e.endDelayed = doc.endDelayed /\ e.suspended = doc.suspended
      /\ e.suspends = doc.suspends /\ e.chunks = doc.chunks /\ e.finished = TRUE
  BY <1>2 DEF FitsBut, Entered, SameScheduler, SamePause, SameWait, SameRunner, SameStack, SameLoad,
              IsDoc, Fields
<1>7. SameLog(doc, e)
  BY <1>2 DEF FitsBut, Entered, SameLog, IsDoc, Fields
<1> HIDE DEF e
<1>4. Idle(e) /\ e.state = "parsing" /\ e.endDelayed = FALSE
  BY <1>1, <1>2, <1>3, ArrivalIdle DEF ModeOK
<1>5. Plain(e, finish(e, "eof")) /\ e.isComplete = doc.isComplete
  BY <1>3, FinishPlain DEF SameLoad
<1>6. Goes(finish(e, "eof"))
  BY <1>1, <1>3, <1>4, FinishGoes
<1> QED BY <1>1, <1>5, <1>6, <1>7, EventActionIdle

LEMMA ScriptLoadedIdle ==
    ASSUME Idle(doc), Logged(doc, {}), NEW s \in doc.requests, ScriptLoaded(s)
    PROVE  Advances(doc, doc')
<1> DEFINE d == doc
           queued == s \in d.async \/ s \in {d.inOrder[k] : k \in 1..Len(d.inOrder)}
           e == [Entered(<<"loaded", s>>) EXCEPT !.loaded = @ \cup {s}, !.loadAction[s] = Now]
           g == later(e, "releaseResources", s)
           n == scriptFinished(g, s)
           h == IF queued THEN n ELSE g
           x == IF s \in d.watching THEN notifyFinished(h, s) ELSE h
<1>1. ~d.suspended /\ Performs(x)
  BY DEF ScriptLoaded
<1>2. FitsBut(d, 0, 0, 0) /\ s \in Tokens(d)
  BY IdleFacts DEF FitsBut, LoadOK
<1>3. SameDoc(d, e)
  BY <1>2 DEF FitsBut, Entered, SameDoc, SameOutside, SameMode, SameScheduler, SamePause, SameWait,
              SameStack, SameRunner, SameLoad, Asserted, IsDoc, Fields
<1>4. /\ e.loaded = d.loaded \cup {s} /\ e.ran = d.ran /\ e.lastInOrder = d.lastInOrder
      /\ e.eventActionToFinish = d.eventActionToFinish /\ e.isComplete = d.isComplete /\ e.late = d.late
      /\ e.misfired = d.misfired
  BY <1>2 DEF FitsBut, Entered, IsDoc, Fields
<1> HIDE DEF e
<1>5. Loading(g) /\ SameButCalls(e, g) /\ Tokens(e) = Tokens(d)
  BY <1>1, <1>2, <1>3, LoadingStarts
<1>6. Plain(e, g)
  BY <1>3, LaterPlain DEF SameDoc, SameOutside
<1> HIDE DEF g
<1>7. /\ g.watching = d.watching /\ g.async = d.async /\ g.inOrder = d.inOrder
      /\ s \in Tokens(g) /\ g.loaded = d.loaded \cup {s} /\ g.page = d.page /\ Tokens(g) = Tokens(d)
  BY <1>2, <1>3, <1>4, <1>5, <1>6 DEF SameDoc, SameOutside, SameRunner, SameWait, SameButCalls, SameMode,
              Tokens, Plain
<1>8. /\ g.asyncTimers = d.asyncTimers /\ g.inOrderTimer = d.inOrderTimer
      /\ g.runnerSuspended = d.runnerSuspended /\ g.eventActionToFinish = d.eventActionToFinish
      /\ g.ran = d.ran /\ g.lastInOrder = d.lastInOrder /\ g.isComplete = d.isComplete /\ IsDoc(g)
      /\ g.strayed = d.strayed /\ g.misfired = d.misfired
  BY <1>3, <1>4, <1>6 DEF SameDoc, SameOutside, SameRunner, Plain
<1>9. Executed(g, g.now) /\ g.late \subseteq Addable(g) /\ Addable(g) = Addable(d)
  BY <1>4, <1>6, <1>7, <1>8, ExecutedGrows DEF Logged, Addable, Plain
<1>10. Ordered(g, g.now, {s}) /\ (~queued => Ordered(g, g.now, {}))
  <2>1. \A action, label : Has(action, {}, label) => Has(action, g.now, label)
    BY DEF Has
  <2>2. Ordered(d, {}, {})
    BY DEF Logged
  <2>3. \A t \in Tokens(g) :
          /\ g.eventActionToFinish[t] # {} => Has(g.eventActionToFinish[t], g.now, <<"ready", t>>)
          /\ TimerPending(g.asyncTimers[t]) => Has(g.asyncTimers[t].starter, g.now, <<"ready", t>>)
    BY <1>7, <1>8, <2>1, <2>2 DEF Ordered
  <2>4. \A k \in 1..Len(g.inOrder) :
           g.inOrder[k] \in (g.loaded \ {s}) \ g.page.denied => g.eventActionToFinish[g.inOrder[k]] # {}
    BY <1>7, <1>8, <2>2 DEF Ordered
  <2>5. Ordered(g, g.now, {s})
    BY <1>7, <1>8, <2>2, <2>3, <2>4 DEF Ordered
  <2>6. ~queued => \A k \in 1..Len(g.inOrder) : g.inOrder[k] # s
    BY <1>7
  <2>7. ASSUME ~queued PROVE Ordered(g, g.now, {})
    <3>1. \A k \in 1..Len(g.inOrder) :
             g.inOrder[k] \in (g.loaded \ {}) \ g.page.denied => g.eventActionToFinish[g.inOrder[k]] # {}
      BY <2>4, <2>6, <2>7
    <3> QED BY <2>5, <3>1 DEF Ordered
  <2> QED BY <2>5, <2>7
<1>11. Runs(g, n) /\ (Ordered(g, g.now, {s}) => Ordered(n, n.now, {}))
  BY <1>7, <1>8, ScriptFinishedRuns
<1>12. queued => Loading(n) /\ n.watching = g.watching
  BY <1>5, <1>7, ScriptFinishedLoads
<1> HIDE DEF n
<1>13. /\ Loading(h) /\ h.watching = d.watching /\ h.loaded = g.loaded /\ IsDoc(h)
       /\ Logged(h, h.now) /\ h.isComplete = d.isComplete /\ h.ran = d.ran
  <2>1. CASE queued
    <3>1. Executed(n, n.now)
      BY <1>9, <1>11, ExecutedGrows DEF Runs
    <3>2. n.late \subseteq Addable(n)
      BY <1>9, <1>11 DEF Runs, Addable, Tokens
    <3> QED BY <1>7, <1>8, <1>10, <1>11, <1>12, <2>1, <3>1, <3>2 DEF Logged, Runs
  <2>2. CASE ~queued
    BY <1>5, <1>7, <1>8, <1>9, <1>10, <2>2 DEF Logged
  <2> QED BY <2>1, <2>2
<1> HIDE DEF h
<1>14. Goes(x) /\ Keeps(h, x)
  <2>1. CASE s \in d.watching
    <3>1. Goes(notifyFinished(h, s))
      BY <1>7, <1>13, <2>1, NotifyFinishedGoes
    <3> QED BY <1>13, <2>1, <3>1, NotifyFinishedPlain, PlainKeeps
  <2>2. CASE s \notin d.watching
    <3>1. Keeps(h, h)
      BY <1>13 DEF Keeps
    <3> QED BY <1>13, <2>2, <3>1, LoadingGoes
  <2> QED BY <2>1, <2>2
<1> HIDE DEF x
<1>15. Advances(x, doc')
  BY <1>1, <1>13, <1>14, KeepsLogged, PerformsIdle
<1> QED BY <1>13, <1>14, <1>15 DEF Advances, Keeps

LEMMA SheetLoadedIdle ==
    ASSUME Idle(doc), Logged(doc, {}), NEW s \in doc.requests, SheetLoaded(s)
    PROVE  Advances(doc, doc')
<1> DEFINE e == [Entered(<<"loaded", s>>) EXCEPT !.loaded = @ \cup {s}, !.sheets = @ \ {s}]
           g == later(e, "releaseResources", s)
           x == IF s \in doc.sheets /\ g.sheets = {} /\ ~isStopped(g)
                THEN executeScriptsWaitingForStylesheets(g) ELSE g
<1>1. ~doc.suspended /\ Performs(x)
  BY DEF SheetLoaded
<1>2. FitsBut(doc, 0, 0, 0) /\ s \in Tokens(doc)
  BY IdleFacts DEF FitsBut, LoadOK
<1>9. /\ ~doc.suspended /\ doc.page.kind[s] = "sheet"
      /\ e.loaded = doc.loaded \cup {s} /\ e.ran = doc.ran /\ e.lastInOrder = doc.lastInOrder
      /\ e.eventActionToFinish = doc.eventActionToFinish /\ e.late = doc.late /\ e.page = doc.page
      /\ e.inOrder = doc.inOrder /\ e.asyncTimers = doc.asyncTimers /\ e.inOrderTimer = doc.inOrderTimer
      /\ e.runnerSuspended = doc.runnerSuspended /\ e.strayed = doc.strayed /\ e.misfired = doc.misfired
  BY <1>2 DEF FitsBut, Entered, IsDoc, Fields, SheetLoaded
<1>3. SameDoc(doc, e)
  BY <1>2 DEF FitsBut, Entered, SameDoc, SameOutside, SameMode, SameScheduler, SamePause, SameWait,
              SameStack, SameRunner, SameLoad, Asserted, IsDoc, Fields
<1> HIDE DEF e
<1>4. Loading(g)
  BY <1>1, <1>2, <1>3, LoadingStarts
<1>10. Logged(e, e.now)
  <2>1. \A action, label : Has(action, {}, label) => Has(action, e.now, label)
    BY DEF Has
  <2>2. Ordered(doc, {}, {}) /\ Tokens(e) = Tokens(doc)
    BY <1>9 DEF Logged, Tokens
  <2>3. \A t \in Tokens(e) :
          /\ e.eventActionToFinish[t] # {} => Has(e.eventActionToFinish[t], e.now, <<"ready", t>>)
          /\ TimerPending(e.asyncTimers[t]) => Has(e.asyncTimers[t].starter, e.now, <<"ready", t>>)
    BY <1>9, <2>1, <2>2 DEF Ordered
  <2>4. \A k \in 1..Len(e.inOrder) : e.inOrder[k] # s
    BY <1>9, <2>2 DEF Ordered
  <2>5. \A k \in 1..Len(e.inOrder) :
           e.inOrder[k] \in (e.loaded \ {}) \ e.page.denied => e.eventActionToFinish[e.inOrder[k]] # {}
    BY <1>9, <2>2, <2>4 DEF Ordered
  <2>6. Ordered(e, e.now, {})
    BY <1>9, <2>2, <2>3, <2>5 DEF Ordered
  <2>7. Executed(e, e.now) /\ e.late \subseteq Addable(e)
    BY <1>9, ExecutedGrows DEF Logged, Addable, Tokens
  <2> QED BY <2>6, <2>7 DEF Logged
<1>7. IsDoc(g) /\ Plain(e, g) /\ e.isComplete = doc.isComplete
  BY <1>3, LaterPlain DEF SameDoc, SameOutside, SameLoad, Plain
<1> HIDE DEF g
<1>5. Goes(g) /\ Goes(executeScriptsWaitingForStylesheets(g))
  BY <1>4, LoadingGoes, StylesheetsGoes
<1>6. Goes(x) /\ Keeps(g, x)
  <2>1. Keeps(g, g) /\ Keeps(g, executeScriptsWaitingForStylesheets(g))
    BY <1>7, StylesheetsPlain, PlainKeeps DEF Keeps
  <2> QED BY <1>5, <2>1
<1> HIDE DEF x
<1>8. Keeps(e, x)
  BY <1>6, <1>7, PlainKeeps, KeepsTrans
<1>11. Advances(x, doc')
  BY <1>1, <1>6, <1>8, <1>10, KeepsLogged, PerformsIdle
<1> QED BY <1>7, <1>8, <1>9, <1>11 DEF Advances, Keeps

LEMMA ParserTimerFiresIdle ==
    ASSUME Idle(doc), Logged(doc, {}), ParserTimerFires
    PROVE  Advances(doc, doc')
<1> DEFINE e == [[doc EXCEPT !.now = doc.parserTimer.starter] EXCEPT !.parserTimer = timerFired(@)]
<1>1. doc.parserTimer.queued > 0 /\ Performs(resumeParsingAfterYield(e))
  BY DEF ParserTimerFires, EnteredByTimer
<1>2. Goes(resumeParsingAfterYield(e))
  BY <1>1, ResumeAfterYieldGoes
<1>3. IsDoc(e) /\ e.isComplete = doc.isComplete /\ SameLog(doc, e)
  BY DEF Idle, DocOK, FitsBut, IsDoc, Fields, SameLog
<1> HIDE DEF e
<1>4. Plain(e, resumeParsingAfterYield(e))
  BY <1>3, ResumeAfterYieldPlain
<1> QED BY <1>1, <1>2, <1>3, <1>4, EventActionIdle

\* The timers that are due.
LEMMA ParserTimerDueIdle ==
    ASSUME Idle(doc), Logged(doc, {}), ParserTimerDue
    PROVE  Advances(doc, doc')
<1> DEFINE d == doc
           e == [d EXCEPT !.parserTimer = timerDue(@)]
<1>1. d.parserTimer.inHeap /\ doc' = e
  BY DEF ParserTimerDue
<1>2. FitsBut(d, 0, 0, 0) /\ TimerOK(d.parserTimer)
  BY IdleFacts DEF FitsBut, SchedulerOK
<1>3. /\ SameButScheduler(d, e) /\ e.parserTimer = timerDue(d.parserTimer)
      /\ e.parserSuspended = d.parserSuspended
  BY <1>2 DEF FitsBut, SameButScheduler, SameMode, SamePause, SameWait, SameStack, SameRunner,
              SameLoad, IsDoc, Fields
<1>9. SameLog(d, e)
  BY <1>2 DEF FitsBut, IsDoc, Fields, SameLog
<1> HIDE DEF e
<1>4. /\ TimerOK(e.parserTimer) /\ TimerPending(e.parserTimer) /\ isActive(e.parserTimer)
      /\ TimerPending(d.parserTimer) /\ isActive(d.parserTimer)
  BY <1>1, <1>2, <1>3, TimerDueDoes
<1>5. SchedulerOK(e) /\ isScheduledForResume(e) /\ isScheduledForResume(d)
  BY <1>2, <1>3, <1>4 DEF FitsBut, SchedulerOK, isScheduledForResume, SameButScheduler, SameMode
<1>6. AdmitsWith(e, Names(d.calls)) /\ QuietOK(e)
  BY <1>2, <1>3, <1>5 DEF FitsBut, AdmitsWith, QuietOK, Quiet, SameButScheduler, SameMode, SameStack
<1>7. FitsBut(e, 0, 0, 0)
  BY <1>2, <1>3, <1>5, <1>6, SchedulerFits
<1>8. Idle(e)
  BY <1>3, <1>5, <1>7, IdleKept DEF FitsBut, SameButScheduler, SameMode
<1>10. Logged(e, {})
  BY <1>9, SameLogged
<1> QED BY <1>1, <1>3, <1>8, <1>9, <1>10 DEF SameButScheduler, SameLoad, Advances, SameLog

LEMMA InOrderTimerDueIdle ==
    ASSUME Idle(doc), Logged(doc, {}), InOrderTimerDue
    PROVE  Advances(doc, doc')
<1> DEFINE d == doc
           e == [d EXCEPT !.inOrderTimer = timerDue(@)]
<1>1. d.inOrderTimer.inHeap /\ doc' = e
  BY DEF InOrderTimerDue
<1>2. FitsBut(d, 0, 0, 0) /\ RunnerOK(d, 0)
  BY IdleFacts DEF FitsBut
<1>3. /\ SameParser(d, e) /\ e.requests = d.requests /\ e.failed = d.failed
      /\ e.delayCount = d.delayCount /\ e.inOrder = d.inOrder /\ e.async = d.async
      /\ e.asyncTimers = d.asyncTimers /\ e.inOrderTimer = timerDue(d.inOrderTimer)
      /\ e.runnerSuspended = d.runnerSuspended /\ e.strayed = d.strayed /\ e.addedSince = d.addedSince
  BY <1>2 DEF FitsBut, SameParser, SameMode, SameScheduler, SamePause, SameWait, SameStack, SameLoad,
              IsDoc, Fields
<1>10. /\ e.loaded = d.loaded /\ e.ran = d.ran /\ e.lastInOrder = d.lastInOrder /\ e.page = d.page
       /\ e.eventActionToFinish = d.eventActionToFinish /\ e.late = d.late
       /\ e.misfired = d.misfired /\ e.strayed = d.strayed
  BY <1>2 DEF FitsBut, IsDoc, Fields
<1> HIDE DEF e
<1>4. ~d.strayed => /\ TimerOK(e.inOrderTimer) /\ TimerPending(e.inOrderTimer)
                    /\ TimerPending(d.inOrderTimer)
  BY <1>1, <1>2, <1>3, TimerDueDoes DEF RunnerOK
<1>5. Tokens(e) = Tokens(d) /\ e.suspended = d.suspended /\ \A t : IsAsync(e, t) <=> IsAsync(d, t)
  BY <1>3 DEF SameParser, SameMode, Tokens, IsAsync
<1>6. PendingAsync(e) = PendingAsync(d)
  BY <1>3, <1>5 DEF PendingAsync
<1>7. RunnerOK(e, 0)
  BY <1>2, <1>3, <1>4, <1>5, <1>6 DEF RunnerOK, Delays
<1>8. LoadOK(e) /\ Asserted(e)
  BY <1>2, <1>3, <1>5 DEF FitsBut, LoadOK, SameParser, SameMode, SameLoad, Asserted
<1>9. Idle(e)
  BY <1>3, <1>7, <1>8, RunnerIdle
<1>11. Logged(e, {})
  <2>1. Ordered(e, {}, {})
    BY <1>3, <1>4, <1>5, <1>10 DEF Ordered, Logged
  <2>2. Executed(e, {}) /\ e.late \subseteq Addable(e)
    BY <1>10, ExecutedGrows DEF Logged, Addable, Tokens
  <2> QED BY <2>1, <2>2 DEF Logged
<1> QED BY <1>1, <1>3, <1>9, <1>10, <1>11 DEF SameParser, SameLoad, Advances

LEMMA AsyncTimerDueIdle ==
    ASSUME Idle(doc), Logged(doc, {}), NEW s \in DOMAIN doc.page.kind, AsyncTimerDue(s)
    PROVE  Advances(doc, doc')
<1> DEFINE d == doc
           e == [d EXCEPT !.asyncTimers[s] = timerDue(@)]
<1>1. d.asyncTimers[s].inHeap /\ doc' = e /\ s \in Tokens(d)
  BY DEF AsyncTimerDue, Tokens
<1>2. FitsBut(d, 0, 0, 0) /\ RunnerOK(d, 0)
  BY IdleFacts DEF FitsBut
<1>3. /\ SameParser(d, e) /\ e.requests = d.requests /\ e.failed = d.failed
      /\ e.delayCount = d.delayCount /\ e.inOrder = d.inOrder /\ e.async = d.async
      /\ e.asyncTimers = [d.asyncTimers EXCEPT ![s] = timerDue(@)] /\ e.inOrderTimer = d.inOrderTimer
      /\ e.runnerSuspended = d.runnerSuspended /\ e.strayed = d.strayed /\ e.addedSince = d.addedSince
  BY <1>2 DEF FitsBut, SameParser, SameMode, SameScheduler, SamePause, SameWait, SameStack, SameLoad,
              IsDoc, Fields
<1>12. /\ e.loaded = d.loaded /\ e.ran = d.ran /\ e.lastInOrder = d.lastInOrder /\ e.page = d.page
       /\ e.eventActionToFinish = d.eventActionToFinish /\ e.late = d.late
       /\ e.misfired = d.misfired /\ e.strayed = d.strayed
  BY <1>2 DEF FitsBut, IsDoc, Fields
<1> HIDE DEF e
<1>4. /\ TimerOK(timerDue(d.asyncTimers[s])) /\ TimerPending(timerDue(d.asyncTimers[s]))
      /\ TimerPending(d.asyncTimers[s])
  BY <1>1, <1>2, TimerDueDoes DEF RunnerOK
<1>5. Tokens(e) = Tokens(d) /\ e.suspended = d.suspended /\ \A t : IsAsync(e, t) <=> IsAsync(d, t)
  BY <1>3 DEF SameParser, SameMode, Tokens, IsAsync
<1>6. /\ DOMAIN e.asyncTimers = Tokens(d)
      /\ \A t \in Tokens(d) : e.asyncTimers[t] = IF t = s THEN timerDue(d.asyncTimers[s]) ELSE d.asyncTimers[t]
  BY <1>1, <1>2, <1>3 DEF RunnerOK
<1>7. \A t \in Tokens(d) : /\ TimerOK(e.asyncTimers[t])
                           /\ TimerPending(e.asyncTimers[t]) <=> TimerPending(d.asyncTimers[t])
  BY <1>2, <1>4, <1>6 DEF RunnerOK
<1>8. PendingAsync(e) = PendingAsync(d)
  BY <1>5, <1>7 DEF PendingAsync
<1>9. RunnerOK(e, 0)
  BY <1>2, <1>3, <1>5, <1>6, <1>7, <1>8 DEF RunnerOK, Delays
<1>10. LoadOK(e) /\ Asserted(e)
  BY <1>2, <1>3, <1>5 DEF FitsBut, LoadOK, SameParser, SameMode, SameLoad, Asserted
<1>11. Idle(e)
  BY <1>3, <1>9, <1>10, RunnerIdle
<1>13. Logged(e, {})
  <2>1. timerDue(d.asyncTimers[s]).starter = d.asyncTimers[s].starter
    BY <1>1, <1>2 DEF timerDue, RunnerOK, TimerOK
  <2>2. \A t \in Tokens(d) : /\ e.asyncTimers[t].starter = d.asyncTimers[t].starter
                             /\ TimerPending(e.asyncTimers[t]) <=> TimerPending(d.asyncTimers[t])
    BY <1>6, <1>7, <2>1
  <2>3. Ordered(e, {}, {})
    BY <1>3, <1>5, <1>6, <1>12, <2>2 DEF Ordered, Logged
  <2>4. Executed(e, {}) /\ e.late \subseteq Addable(e)
    BY <1>12, ExecutedGrows DEF Logged, Addable, Tokens
  <2> QED BY <2>3, <2>4 DEF Logged
<1> QED BY <1>1, <1>3, <1>11, <1>12, <1>13 DEF SameParser, SameLoad, Advances

\* All but the load event.
SameButLoad(d, e) ==
    /\ IsDoc(e) /\ SameMode(d, e) /\ SameScheduler(d, e) /\ SamePause(d, e) /\ SameWait(d, e)
    /\ SameStack(d, e) /\ SameRunner(d, e) /\ e.input = d.input /\ e.requests = d.requests
    /\ e.failed = d.failed

LEMMA LoadIdle ==
    ASSUME NEW d, Idle(d), NEW e, SameButLoad(d, e), LoadOK(e)
    PROVE  Idle(e)
<1>1. FitsBut(d, 0, 0, 0)
  BY IdleFacts
<1>2. ModeOK(e) /\ Tokens(e) = Tokens(d) /\ Asserted(e)
  BY <1>1 DEF FitsBut, SameButLoad, SameMode, ModeOK, Tokens, Asserted
<1>3. SchedulerOK(e) /\ (isScheduledForResume(e) <=> isScheduledForResume(d))
  BY <1>1 DEF FitsBut, SameButLoad, SameMode, SchedulerOK, SameScheduler, isScheduledForResume
<1>4. RunnerOK(e, 0)
  <2>1. \A t : IsAsync(e, t) <=> IsAsync(d, t)
    BY DEF IsAsync, SameButLoad, SameMode
  <2>2. PendingAsync(e) = PendingAsync(d)
    BY <1>2 DEF PendingAsync, SameButLoad, SameRunner
  <2> QED BY <1>1, <1>2, <2>1, <2>2 DEF FitsBut, RunnerOK, Delays, SameButLoad, SameRunner, SameMode
<1> QED BY <1>2, <1>3, <1>4, IdleKept DEF SameButLoad, SameMode

LEMMA LoadedTimerDueIdle ==
    ASSUME Idle(doc), Logged(doc, {}), LoadedTimerDue
    PROVE  Advances(doc, doc')
<1> DEFINE d == doc
           e == [d EXCEPT !.loadedTimer = timerDue(@)]
<1>1. d.loadedTimer.inHeap /\ doc' = e
  BY DEF LoadedTimerDue
<1>2. FitsBut(d, 0, 0, 0) /\ LoadOK(d)
  BY IdleFacts DEF FitsBut
<1>3. /\ SameButLoad(d, e) /\ e.loadedTimer = timerDue(d.loadedTimer) /\ e.isComplete = d.isComplete
  BY <1>2 DEF FitsBut, SameButLoad, SameMode, SameScheduler, SamePause, SameWait, SameStack, SameRunner,
              IsDoc, Fields
<1>6. SameLog(d, e)
  BY <1>2 DEF FitsBut, IsDoc, Fields, SameLog
<1> HIDE DEF e
<1>4. /\ {"inHeap", "queued", "flag", "starter"} \subseteq DOMAIN e.loadedTimer
      /\ TimerPending(d.loadedTimer)
  BY <1>1, <1>2, <1>3 DEF LoadOK, timerDue, TimerPending
<1>5. LoadOK(e)
  BY <1>2, <1>3, <1>4 DEF LoadOK, SameButLoad, SameMode, SameRunner, Tokens
<1>7. Logged(e, {})
  BY <1>6, SameLogged
<1> QED BY <1>1, <1>3, <1>5, <1>6, <1>7, LoadIdle DEF Advances, SameLog

LEMMA DelayTimerFiresIdle ==
    ASSUME Idle(doc), Logged(doc, {}), DelayTimerFires
    PROVE  Advances(doc, doc')
<1> DEFINE d == doc
           e == [d EXCEPT !.now = {}, !.delayTimer = timerFired(timerDue(@))]
           f == checkCompleted(e)
<1>1. doc' = Settled(f)
  BY DEF DelayTimerFires
<1>2. FitsBut(d, 0, 0, 0)
  BY IdleFacts
<1>3. SameDoc(d, e)
  BY <1>2 DEF FitsBut, SameDoc, SameOutside, SameMode, SameScheduler, SamePause, SameWait,
              SameStack, SameRunner, SameLoad, Asserted, IsDoc, Fields
<1>9. SameLog(d, e)
  BY <1>2 DEF FitsBut, IsDoc, Fields, SameLog
<1> HIDE DEF e
<1>4. Idle(e)
  BY <1>3, SameIdle
<1>5. FitsBut(e, 0, 0, 0) /\ Before(e, "none") /\ e.calls = <<>>
  BY <1>4, IdleFacts
<1>6. FitsBut(f, 0, 0, 0) /\ f.calls = e.calls /\ Before(f, "none")
  BY <1>5, CheckCompletedFits
<1>8. Plain(e, f) /\ e.isComplete = d.isComplete
  BY <1>3, CheckCompletedPlain DEF SameDoc, SameOutside, SameLoad
<1> HIDE DEF f
<1>7. Idle(f)
  BY <1>5, <1>6 DEF Idle, DocOK, Top
<1>10. Logged(f, f.now)
  <2>1. Logged(e, e.now)
    BY <1>9, SameLogged
  <2> QED BY <1>8, <2>1, PlainKeeps, KeepsLogged
<1>11. Advances(f, doc')
  BY <1>1, <1>7, <1>10, SettledIdle
<1> QED BY <1>8, <1>9, <1>11 DEF Advances, Plain, SameLog

LEMMA LoadedTimerFiresIdle ==
    ASSUME Idle(doc), Logged(doc, {}), LoadedTimerFires
    PROVE  /\ Idle(doc') /\ Logged(doc', {}) /\ doc'.ran = doc.ran /\ ~doc.parsing
           /\ ~doc.isComplete => /\ doc.requests \subseteq doc.addedSince
                                 /\ doc.addedSince = {} => doc.delayCount = 0
<1> DEFINE d == doc
           e == [[d EXCEPT !.now = d.loadedTimer.starter] EXCEPT !.loadedTimer = timerFired(@)]
           w == [addArc(e, e.parsingJoin \cup e.requestJoin \cup e.delayJoin) EXCEPT !.isComplete = TRUE]
           x == insertScripts(w, d.page.onComplete)
           y == [x EXCEPT !.didCallImplicitClose = TRUE]
           z == implicitClose(y)
<1>1. doc' = Settled(checkCallImplicitClose(x)) /\ d.loadedTimer.queued > 0
  <2>1. e.page = d.page
    BY IdleFacts DEF FitsBut, IsDoc, Fields
  <2> QED BY <2>1 DEF LoadedTimerFires, EnteredByTimer, documentLoadedTimerFired, becomeComplete
<1>2. FitsBut(d, 0, 0, 0) /\ LoadOK(d)
  BY IdleFacts DEF FitsBut
<1>3. SameButLoad(d, w) /\ w.isComplete = TRUE /\ w.loadedTimer = timerFired(d.loadedTimer)
  BY <1>2 DEF FitsBut, SameButLoad, SameMode, SameScheduler, SamePause, SameWait, SameStack, SameRunner,
              IsDoc, Fields, addArc
<1>4. checkCallImplicitClose(x) = x \/ checkCallImplicitClose(x) = z
  BY DEF checkCallImplicitClose
<1>17. SameLog(d, w)
  BY <1>2 DEF FitsBut, IsDoc, Fields, SameLog, addArc
<1> HIDE DEF w
<1>5. ~d.parsing /\ {"inHeap", "queued", "flag", "starter"} \subseteq DOMAIN w.loadedTimer
  BY <1>1, <1>2, <1>3 DEF LoadOK, timerFired, TimerPending
<1>6. LoadOK(w)
  BY <1>2, <1>3, <1>5 DEF LoadOK, SameButLoad, SameMode, SameRunner, Tokens
<1>21. Idle(w)
  BY <1>3, <1>6, LoadIdle
<1>22. Queues(w, x, 0) /\ Keeps(w, x)
  <2>1. FitsBut(w, 0, 0, 0) /\ w.page = d.page
    BY <1>3, <1>21, IdleFacts DEF SameButLoad, SameMode
  <2>2. IsDoc(w) /\ ModeOK(w) /\ RunnerOK(w, 0) /\ w.requests \subseteq Tokens(w)
    BY <1>6, <2>1 DEF FitsBut, LoadOK
  <2> DEFINE scripts == d.page.onComplete
  <2>3. scripts \in Seq(Tokens(w)) /\ scripts \in Seq(Addable(w))
    BY <2>1, <2>2, PageFacts
  <2> HIDE DEF scripts
  <2>4. Queues(w, insertScripts(w, scripts), 0)
    BY <2>2, <2>3, InsertScriptsDoes
  <2>5. Keeps(w, insertScripts(w, scripts))
    BY <2>2, <2>3, InsertScriptsKeeps
  <2> QED BY <2>4, <2>5 DEF scripts
<1> HIDE DEF x
<1>7. Idle(x)
  <2>1. FitsBut(w, 0, 0, 0) /\ Before(w, "none") /\ w.calls = <<>>
    BY <1>21, IdleFacts
  <2>2. FitsBut(x, 0, 0, 0) /\ x.calls = <<>> /\ Before(x, "none")
    BY <1>22, <2>1, QueueFits
  <2> QED BY <2>2 DEF Idle, DocOK, Top
<1>23. IsDoc(x) /\ x.parsing = d.parsing /\ x.isComplete = TRUE
  BY <1>3, <1>22 DEF Queues, SameParser, SameButLoad, SameMode, SameLoad
<1>8. /\ IsDoc(z) /\ SamePause(x, z) /\ SameWait(x, z) /\ SameStack(x, z) /\ SameRunner(x, z) /\ SameLoad(x, z)
      /\ z.input = x.input /\ z.requests = x.requests /\ z.failed = x.failed /\ z.page = x.page
      /\ z.state = "detached" /\ z.parsing = x.parsing /\ z.finished = x.finished
      /\ z.endDelayed = x.endDelayed /\ z.suspended = x.suspended /\ z.chunks = x.chunks
      /\ z.suspends = x.suspends /\ z.parserTimer = stopTimer(x.parserTimer)
      /\ z.parserSuspended = x.parserSuspended
  BY <1>23 DEF SamePause, SameWait, SameStack, SameRunner, SameLoad, IsDoc, Fields, implicitClose
<1>18. SameLog(x, z)
  BY <1>23 DEF IsDoc, Fields, SameLog, implicitClose
<1> HIDE DEF z
<1>9. FitsBut(x, 0, 0, 0) /\ x.parsing = FALSE
  BY <1>2, <1>5, <1>7, <1>23, IdleFacts DEF FitsBut, ModeOK
<1>10. x.state # "parsing" /\ ~isScheduledForResume(x)
  BY <1>9 DEF FitsBut, ModeOK, QuietOK, Quiet
<1>11. ModeOK(z) /\ Tokens(z) = Tokens(x)
  BY <1>8, <1>9, <1>10 DEF FitsBut, ModeOK, Tokens
<1>12. ~isScheduledForResume(z) /\ SchedulerOK(z)
  <2>1. TimerOK(x.parserTimer) /\ x.parserSuspended = FALSE /\ ~x.parserTimer.flag
    BY <1>9, <1>10 DEF FitsBut, SchedulerOK, isScheduledForResume, isActive
  <2>2. TimerOK(z.parserTimer) /\ ~TimerPending(z.parserTimer)
    BY <1>8, <2>1, StopTimerDoes
  <2>3. ~z.parserTimer.flag /\ ~z.parserTimer.inHeap
    BY <1>8, <2>1 DEF stopTimer, TimerOK
  <2> QED BY <1>8, <2>1, <2>2, <2>3 DEF SchedulerOK, isScheduledForResume, isActive
<1>13. RunnerOK(z, 0)
  <2>1. \A t : IsAsync(z, t) <=> IsAsync(x, t)
    BY <1>8 DEF IsAsync
  <2>2. PendingAsync(z) = PendingAsync(x)
    BY <1>8, <1>11 DEF PendingAsync, SameRunner
  <2> QED BY <1>8, <1>9, <1>11, <2>1, <2>2 DEF FitsBut, RunnerOK, Delays, SameRunner
<1>14. LoadOK(z) /\ Asserted(z)
  BY <1>8, <1>9, <1>11, <1>23 DEF FitsBut, LoadOK, SameLoad, SameRunner, Asserted
<1>15. Idle(z)
  BY <1>7, <1>8, <1>10, <1>11, <1>12, <1>13, <1>14, IdleKept
<1>16. ~d.isComplete => d.requests \subseteq d.addedSince /\ (d.addedSince = {} => d.delayCount = 0)
  BY <1>1, <1>2 DEF LoadOK, TimerPending
<1>19. Logged(x, x.now) /\ Logged(z, z.now) /\ x.ran = d.ran /\ z.ran = d.ran
  <2>1. Logged(w, w.now) /\ w.ran = d.ran
    BY <1>17, SameLogged DEF SameLog
  <2>2. Logged(x, x.now) /\ x.ran = d.ran
    BY <1>22, <2>1, KeepsLogged DEF Keeps
  <2>3. Logged(z, z.now)
    <3>1. z.now = x.now
      BY <1>23 DEF IsDoc, Fields, implicitClose, z
    <3> QED BY <1>18, <2>2, <3>1, SameLogged
  <2> QED BY <1>18, <2>2, <2>3 DEF SameLog
<1>20. Advances(x, Settled(x)) /\ Advances(z, Settled(z))
  BY <1>7, <1>15, <1>19, SettledIdle
<1> QED BY <1>1, <1>4, <1>5, <1>16, <1>19, <1>20 DEF Advances

LEMMA PageCodeAddsScriptIdle ==
    ASSUME Idle(doc), Logged(doc, {}), NEW s \in DOMAIN doc.page.kind, PageCodeAddsScript(s)
    PROVE  Advances(doc, doc')
<1> DEFINE d == doc
           e == [Entered(<<"added", s>>) EXCEPT !.late = @ \ {s}]
           f == queueScriptForExecution(e, s)
<1>1. doc' = Settled(f) /\ ~d.suspended /\ s \in Tokens(d) /\ s \in d.late
  BY DEF PageCodeAddsScript, Tokens
<1>2. FitsBut(d, 0, 0, 0)
  BY IdleFacts
<1>3. SameDoc(d, e)
  BY <1>2 DEF FitsBut, Entered, SameDoc, SameOutside, SameMode, SameScheduler, SamePause, SameWait,
              SameStack, SameRunner, SameLoad, Asserted, IsDoc, Fields
<1>10. SameLog(d, e)
  BY <1>2 DEF FitsBut, Entered, IsDoc, Fields, SameLog
<1> HIDE DEF e
<1>4. Idle(e) /\ e.suspended = d.suspended /\ e.parsing = d.parsing /\ Tokens(e) = Tokens(d)
  BY <1>3, SameIdle DEF SameDoc, SameOutside, SameMode, Tokens
<1>5. FitsBut(e, 0, 0, 0) /\ Before(e, "none") /\ e.calls = <<>>
  BY <1>4, IdleFacts
<1>6. Queues(e, f, 0)
  BY <1>1, <1>4, <1>5, QueueScriptDoes DEF FitsBut, LoadOK
<1>11. Keeps(e, f)
  <2>1. s \in Addable(e) /\ IsDoc(e)
    BY <1>1, <1>5, <1>10 DEF Logged, SameLog, Addable, Tokens, FitsBut
  <2> QED BY <2>1, QueueScriptKeeps
<1> HIDE DEF f
<1>7. FitsBut(f, 0, 0, 0) /\ f.calls = e.calls /\ Before(f, "none")
  BY <1>1, <1>4, <1>5, <1>6, QueueFits
<1>8. Idle(f)
  BY <1>5, <1>7 DEF Idle, DocOK, Top
<1>9. f.isComplete = d.isComplete
  BY <1>3, <1>6 DEF SameDoc, SameOutside, SameLoad, Queues, SameParser
<1>12. Logged(f, f.now)
  <2>1. Logged(e, e.now)
    BY <1>10, SameLogged
  <2> QED BY <1>11, <2>1, KeepsLogged
<1>13. Advances(f, doc')
  BY <1>1, <1>8, <1>12, SettledIdle
<1> QED BY <1>9, <1>10, <1>11, <1>13 DEF Advances, Keeps, SameLog

\* The script runner executes a script: the count that delays the load event
\* is one more than the scripts that are left.
LEMMA ExecuteQueuedDoes ==
    ASSUME NEW d, IsDoc(d), ModeOK(d), RunnerOK(d, 1), LoadOK(d), Asserted(d), NEW script \in Tokens(d)
    PROVE  LET e == decrementLoadEventDelayCount(executeQueued(d, script))
           IN  SameParser(d, e) /\ RunnerOK(e, 0) /\ LoadOK(e) /\ Asserted(e)
<1> DEFINE a == [d EXCEPT !.ran = Append(@, script), !.now = @ \cup {<<"ran", script>>}]
           x == IF script \in d.page.failing THEN a ELSE insertScripts(a, d.page.inserts[script])
           c == check(x, x.delayCount > 0)
           l == [c EXCEPT !.delayCount = @ - 1, !.delayJoin = @ \cup Now]
           t == [l EXCEPT !.delayTimer = startOneShot(@)]
           e == decrementLoadEventDelayCount(x)
<1>1. executeQueued(d, script) = x
  BY DEF executeQueued
<1>2. e = l \/ e = t
  BY DEF decrementLoadEventDelayCount
<1>3. SameDoc(d, a)
  BY DEF SameDoc, SameOutside, SameMode, SameScheduler, SamePause, SameWait,
         SameStack, SameRunner, SameLoad, Asserted, IsDoc, Fields
<1>4. /\ IsDoc(a) /\ ModeOK(a) /\ RunnerOK(a, 1) /\ Asserted(a) /\ a.requests \subseteq Tokens(a)
      /\ Tokens(a) = Tokens(d) /\ a.suspended = d.suspended /\ SameParser(d, a)
      /\ a.delayCount = d.delayCount /\ a.requests = d.requests /\ a.addedSince = d.addedSince
  <2>1. IsDoc(a) /\ ModeOK(a) /\ Tokens(a) = Tokens(d) /\ a.suspended = d.suspended
    BY <1>3 DEF SameDoc, SameOutside, SameMode, ModeOK, Tokens
  <2>2. RunnerOK(a, 1)
    <3>1. \A u : IsAsync(a, u) <=> IsAsync(d, u)
      BY <1>3 DEF IsAsync, SameDoc, SameOutside, SameMode
    <3>2. PendingAsync(a) = PendingAsync(d)
      BY <1>3, <2>1 DEF PendingAsync, SameDoc, SameOutside, SameRunner
    <3> HIDE DEF a
    <3> QED BY <1>3, <2>1, <3>1, <3>2 DEF RunnerOK, Delays, SameDoc, SameOutside, SameRunner
  <2> QED BY <1>3, <2>1, <2>2 DEF SameDoc, SameOutside, SameParser, LoadOK, SameRunner
<1> HIDE DEF a
<1>5. Queues(a, x, 1)
  <2> DEFINE scripts == d.page.inserts[script]
  <2>1. scripts \in Seq(Tokens(a))
    BY <1>4, PageFacts
  <2> HIDE DEF scripts
  <2>2. Queues(a, insertScripts(a, scripts), 1)
    BY <1>4, <2>1, InsertScriptsDoes
  <2>3. Queues(a, a, 1)
    BY <1>4 DEF Queues, SameParser, SameMode, SameScheduler, SamePause, SameWait, SameStack, SameLoad
  <2> QED BY <2>2, <2>3 DEF scripts
<1> HIDE DEF x
<1>6. SameParser(d, x) /\ RunnerOK(x, 1) /\ Asserted(x) /\ x.requests \subseteq Tokens(d)
  BY <1>4, <1>5, SameParserTrans DEF Queues
<1>7. ModeOK(x) /\ IsDoc(x) /\ Tokens(x) = Tokens(d)
  BY <1>6 DEF SameParser, SameMode, ModeOK, Tokens
<1>8. /\ Len(x.inOrder) \in Nat /\ Cardinality(x.async) \in Nat /\ Cardinality(PendingAsync(x)) \in Nat
      /\ x.delayCount \in Nat
  BY <1>6, <1>7, RunnerSizes
<1>9. x.delayCount > 0 /\ x.delayCount - 1 \in Nat
      /\ x.delayCount - 1 >= 0 + Len(x.inOrder) + Cardinality(x.async) + Cardinality(PendingAsync(x))
  BY <1>6, <1>8, SMTT(60) DEF RunnerOK, Delays
<1>10. d.delayCount # 0
  <2>1. /\ Len(d.inOrder) \in Nat /\ Cardinality(d.async) \in Nat /\ Cardinality(PendingAsync(d)) \in Nat
        /\ d.delayCount \in Nat
    BY RunnerSizes
  <2> QED BY <2>1 DEF RunnerOK, Delays
<1>11. SameDoc(x, c)
  BY <1>7, <1>9, CheckHolds
<1> HIDE DEF c
<1>0. IsDoc(c)
  BY <1>11 DEF SameDoc, SameOutside
<1>12. /\ SameParser(c, l) /\ l.requests = c.requests /\ l.failed = c.failed
       /\ l.delayCount = c.delayCount - 1 /\ l.inOrder = c.inOrder /\ l.async = c.async
       /\ l.asyncTimers = c.asyncTimers /\ l.inOrderTimer = c.inOrderTimer
       /\ l.runnerSuspended = c.runnerSuspended /\ l.strayed = c.strayed /\ l.addedSince = c.addedSince
  BY <1>0, SMTT(30) DEF SameParser, SameMode, SameScheduler, SamePause, SameWait, SameStack, SameLoad, IsDoc, Fields
<1>20. /\ SameParser(c, t) /\ t.requests = c.requests /\ t.failed = c.failed
       /\ t.delayCount = c.delayCount - 1 /\ t.inOrder = c.inOrder /\ t.async = c.async
       /\ t.asyncTimers = c.asyncTimers /\ t.inOrderTimer = c.inOrderTimer
       /\ t.runnerSuspended = c.runnerSuspended /\ t.strayed = c.strayed /\ t.addedSince = c.addedSince
  BY <1>0, SMTT(30) DEF SameParser, SameMode, SameScheduler, SamePause, SameWait, SameStack, SameLoad, IsDoc, Fields
<1> HIDE DEF l, t, e
<1>13. SameParser(x, c) /\ SameRunner(x, c) /\ c.requests = x.requests /\ Asserted(c)
  BY <1>6, <1>11 DEF SameDoc, SameOutside, SameParser
<1>14. /\ SameParser(c, e) /\ e.requests = c.requests /\ e.failed = c.failed
       /\ e.delayCount = c.delayCount - 1 /\ e.inOrder = c.inOrder /\ e.async = c.async
       /\ e.asyncTimers = c.asyncTimers /\ e.inOrderTimer = c.inOrderTimer
       /\ e.runnerSuspended = c.runnerSuspended /\ e.strayed = c.strayed /\ e.addedSince = c.addedSince
  BY <1>2, <1>12, <1>20
<1>15. SameParser(x, e) /\ SameParser(d, e)
  <2>1. SameParser(x, e)
    BY <1>13, <1>14, SameParserTrans
  <2> QED BY <1>6, <2>1, SameParserTrans
<1>16. Asserted(e)
  BY <1>13, <1>14 DEF Asserted
<1>17. /\ e.requests = x.requests /\ e.delayCount = x.delayCount - 1 /\ e.inOrder = x.inOrder
       /\ e.async = x.async /\ e.asyncTimers = x.asyncTimers /\ e.inOrderTimer = x.inOrderTimer
       /\ e.runnerSuspended = x.runnerSuspended /\ e.strayed = x.strayed /\ e.addedSince = x.addedSince
  BY <1>13, <1>14 DEF SameRunner
<1>18. RunnerOK(e, 0)
  <2>1. Tokens(e) = Tokens(x) /\ e.suspended = x.suspended /\ \A u : IsAsync(e, u) <=> IsAsync(x, u)
    BY <1>15 DEF SameParser, SameMode, Tokens, IsAsync
  <2>2. PendingAsync(e) = PendingAsync(x)
    BY <1>17, <2>1 DEF PendingAsync
  <2>3. Delays(e, 0) /\ e.delayCount \in Nat
    BY <1>9, <1>17, <2>2 DEF Delays
  <2> QED BY <1>6, <1>17, <2>1, <2>3 DEF RunnerOK
<1>19. LoadOK(e)
  <2>1. /\ e.isComplete = d.isComplete /\ e.loadedTimer = d.loadedTimer /\ e.parsing = d.parsing
        /\ Tokens(e) = Tokens(d)
    BY <1>15 DEF SameParser, SameMode, SameLoad, Tokens
  <2>2. d.addedSince \subseteq e.addedSince /\ e.requests \subseteq d.requests \cup e.addedSince
    BY <1>4, <1>5, <1>17 DEF Queues
  <2>3. ASSUME ~d.isComplete, TimerPending(d.loadedTimer)
        PROVE  e.requests \subseteq e.addedSince /\ e.addedSince # {}
    BY <1>10, <2>2, <2>3 DEF LoadOK
  <2> QED BY <1>6, <1>17, <2>1, <2>3 DEF LoadOK
<1> QED BY <1>1, <1>15, <1>16, <1>18, <1>19 DEF e

\* ... and what the log knows of it.
LEMMA ExecuteQueuedLogs ==
    ASSUME NEW d, IsDoc(d), ModeOK(d), NEW script \in Tokens(d)
    PROVE  LET e == decrementLoadEventDelayCount(executeQueued(d, script))
           IN  /\ IsDoc(e) /\ e.page = d.page /\ e.loaded = d.loaded /\ e.ran = Append(d.ran, script)
               /\ e.lastInOrder = d.lastInOrder /\ e.late = d.late
               /\ d.now \subseteq e.now /\ <<"ran", script>> \in e.now
               /\ e.misfired = d.misfired /\ (d.strayed => e.strayed)
               /\ Ordered(d, d.now, {}) => Ordered(e, e.now, {})
<1> DEFINE a == [d EXCEPT !.ran = Append(@, script), !.now = @ \cup {<<"ran", script>>}]
           x == IF script \in d.page.failing THEN a ELSE insertScripts(a, d.page.inserts[script])
           c == check(x, x.delayCount > 0)
           l == [c EXCEPT !.delayCount = @ - 1, !.delayJoin = @ \cup Now]
           t == [l EXCEPT !.delayTimer = startOneShot(@)]
           e == decrementLoadEventDelayCount(x)
<1>1. executeQueued(d, script) = x
  BY DEF executeQueued
<1>2. e = l \/ e = t
  BY DEF decrementLoadEventDelayCount
<1>3. /\ IsDoc(a) /\ a.page = d.page /\ a.loaded = d.loaded /\ a.ran = Append(d.ran, script)
      /\ a.lastInOrder = d.lastInOrder /\ a.late = d.late /\ a.now = d.now \cup {<<"ran", script>>}
      /\ a.eventActionToFinish = d.eventActionToFinish /\ a.asyncTimers = d.asyncTimers
      /\ a.inOrderTimer = d.inOrderTimer /\ a.runnerSuspended = d.runnerSuspended
      /\ a.inOrder = d.inOrder /\ a.misfired = d.misfired /\ a.strayed = d.strayed
  BY DEF IsDoc, Fields
<1> HIDE DEF a
<1>4. Ordered(d, d.now, {}) => Ordered(a, a.now, {})
  BY <1>3, OrderedGrows
<1>5. Keeps(a, x)
  <2>1. d.page.inserts[script] \in Seq(Addable(a))
    BY <1>3, PageFacts DEF Addable, Tokens
  <2>2. Keeps(a, a)
    BY <1>3 DEF Keeps
  <2> QED BY <1>3, <2>1, <2>2, InsertScriptsKeeps
<1> HIDE DEF x
<1>6. Plain(x, c)
  BY <1>5, CheckPlain DEF Keeps
<1> HIDE DEF c
<1>7. Plain(c, l) /\ Plain(c, t)
  BY <1>6 DEF Plain, IsDoc, Fields
<1> HIDE DEF l, t, e
<1>8. Keeps(a, e)
  BY <1>2, <1>5, <1>6, <1>7, PlainKeeps, KeepsTrans
<1> QED BY <1>1, <1>3, <1>4, <1>8 DEF Keeps, e

\* The scripts that the step from d to e executes come after what made them
\* ready and, in order, after the earlier ones.
Orderly(d, e) ==
    \A k \in (Len(d.ran) + 1)..Len(e.ran) :
       /\ <<"ready", e.ran[k]>> \in e.now \/ e.ran[k] \in d.page.denied \/ e.strayed
       /\ d.page.kind[e.ran[k]] = "inOrder" =>
             \A j \in 1..(k - 1) : d.page.kind[e.ran[j]] = "inOrder" => <<"ran", e.ran[j]>> \in e.now

LEMMA InOrderTimerFiresIdle ==
    ASSUME Idle(doc), Logged(doc, {}), InOrderTimerFires
    PROVE  /\ Idle(doc') /\ Logged(doc', {}) /\ doc'.isComplete = doc.isComplete
           /\ Orderly(doc, doc')
<1> DEFINE d == doc
           b == [[d EXCEPT !.now = d.inOrderTimer.starter] EXCEPT !.inOrderTimer = timerFired(@)]
           script == Head(b.inOrder)
           h == [b EXCEPT !.inOrder = Tail(@)]
           done == decrementLoadEventDelayCount(executeQueued(h, script))
           heard == [done EXCEPT !.misfired =
                        IF b.eventActionToFinish[script] = {} THEN @ \cup {script} ELSE @]
           arcs == addArc(heard, b.lastInOrder \cup b.eventActionToFinish[script] \cup b.resumeJoin)
           o == [arcs EXCEPT !.lastInOrder = Now, !.resumeJoin = {}]
           u == updateInOrderTimer(o)
           f == [b EXCEPT !.misfired = @ \cup {NoToken}]
<1>1. d.inOrderTimer.queued > 0 /\ doc' = Settled(inOrderTimerFired(b))
  BY DEF InOrderTimerFires, EnteredByTimer
<1>2. inOrderTimerFired(b) = IF b.inOrder = <<>> THEN f ELSE u
  BY DEF inOrderTimerFired
<1>3. FitsBut(d, 0, 0, 0) /\ RunnerOK(d, 0) /\ LoadOK(d) /\ Asserted(d) /\ ModeOK(d) /\ IsDoc(d)
  BY IdleFacts DEF FitsBut
<1>4. /\ SameParser(d, b) /\ b.requests = d.requests /\ b.failed = d.failed
      /\ b.delayCount = d.delayCount /\ b.inOrder = d.inOrder /\ b.async = d.async
      /\ b.asyncTimers = d.asyncTimers /\ b.inOrderTimer = timerFired(d.inOrderTimer)
      /\ b.runnerSuspended = d.runnerSuspended /\ b.strayed = d.strayed /\ b.addedSince = d.addedSince
  BY <1>3 DEF SameParser, SameMode, SameScheduler, SamePause, SameWait, SameStack, SameLoad, IsDoc, Fields
<1>12. /\ b.loaded = d.loaded /\ b.ran = d.ran /\ b.lastInOrder = d.lastInOrder /\ b.page = d.page
       /\ b.eventActionToFinish = d.eventActionToFinish /\ b.late = d.late
       /\ b.misfired = d.misfired /\ b.strayed = d.strayed
  BY <1>3 DEF IsDoc, Fields
<1> HIDE DEF b
<1>6. ~d.strayed =>
         /\ TimerOK(b.inOrderTimer) /\ ~TimerPending(b.inOrderTimer) /\ ~isActive(b.inOrderTimer)
         /\ d.inOrder # <<>> /\ d.suspended = FALSE /\ d.runnerSuspended = FALSE
         /\ Head(d.inOrder) \in d.loaded
  <2> SUFFICES ASSUME ~d.strayed
               PROVE  /\ TimerOK(b.inOrderTimer) /\ ~TimerPending(b.inOrderTimer) /\ ~isActive(b.inOrderTimer)
                      /\ d.inOrder # <<>> /\ d.suspended = FALSE /\ d.runnerSuspended = FALSE
                      /\ Head(d.inOrder) \in d.loaded
    OBVIOUS
  <2>1. TimerOK(d.inOrderTimer)
    BY <1>3 DEF RunnerOK
  <2>2. /\ TimerOK(b.inOrderTimer) /\ ~TimerPending(b.inOrderTimer) /\ ~isActive(b.inOrderTimer)
        /\ TimerPending(d.inOrderTimer)
    BY <1>1, <1>4, <2>1, TimerFiredDoes
  <2>3. Head(d.inOrder) \in d.loaded
    BY <2>2 DEF Logged, Ordered
  <2> QED BY <1>3, <2>2, <2>3 DEF RunnerOK, ModeOK
<1>7. Tokens(b) = Tokens(d) /\ b.suspended = d.suspended /\ (\A t : IsAsync(b, t) <=> IsAsync(d, t))
      /\ IsDoc(b) /\ ModeOK(b)
  BY <1>3, <1>4 DEF SameParser, SameMode, Tokens, IsAsync, ModeOK
<1>8. PendingAsync(b) = PendingAsync(d)
  BY <1>4, <1>7 DEF PendingAsync
<1>9. RunnerOK(b, 0) /\ LoadOK(b) /\ Asserted(b)
  <2>1. RunnerOK(b, 0)
    BY <1>3, <1>4, <1>6, <1>7, <1>8 DEF RunnerOK, Delays
  <2> QED BY <1>3, <1>4, <1>7, <2>1 DEF LoadOK, SameParser, SameMode, SameLoad, Asserted
<1>13. /\ Ordered(b, b.now, {}) /\ Executed(b, {}) /\ b.late \subseteq Addable(b)
  <2>1. \A action, label : Has(action, {}, label) => Has(action, b.now, label)
    BY DEF Has
  <2>2. Ordered(d, {}, {})
    BY DEF Logged
  <2>3. \A t \in Tokens(b) :
          /\ b.eventActionToFinish[t] # {} => Has(b.eventActionToFinish[t], b.now, <<"ready", t>>)
          /\ TimerPending(b.asyncTimers[t]) => Has(b.asyncTimers[t].starter, b.now, <<"ready", t>>)
    BY <1>4, <1>7, <1>12, <2>1, <2>2 DEF Ordered
  <2>4. Ordered(b, b.now, {})
    BY <1>4, <1>6, <1>7, <1>12, <2>2, <2>3 DEF Ordered
  <2>5. Executed(b, {}) /\ b.late \subseteq Addable(b)
    BY <1>12, ExecutedGrows DEF Logged, Addable, Tokens
  <2> QED BY <2>4, <2>5
<1>10. CASE b.inOrder = <<>>
  <2>1. d.strayed
    BY <1>4, <1>6, <1>10
  <2>8. /\ IsDoc(f) /\ f.page = b.page /\ f.loaded = b.loaded /\ f.ran = b.ran /\ f.now = b.now
        /\ f.lastInOrder = b.lastInOrder /\ f.late = b.late
        /\ f.eventActionToFinish = b.eventActionToFinish /\ f.asyncTimers = b.asyncTimers
        /\ f.inOrderTimer = b.inOrderTimer /\ f.runnerSuspended = b.runnerSuspended
        /\ f.inOrder = b.inOrder /\ f.strayed = b.strayed /\ f.failed = b.failed
    BY <1>7 DEF IsDoc, Fields
  <2>2. SameParser(b, f) /\ SameRunner(b, f) /\ f.requests = b.requests
    BY <1>7 DEF SameParser, SameRunner, SameMode, SameScheduler, SamePause, SameWait, SameStack,
              SameLoad, IsDoc, Fields
  <2> HIDE DEF f
  <2>3. Tokens(f) = Tokens(b) /\ f.suspended = b.suspended /\ \A t : IsAsync(f, t) <=> IsAsync(b, t)
    BY <2>2 DEF SameParser, SameMode, Tokens, IsAsync
  <2>4. PendingAsync(f) = PendingAsync(b)
    BY <2>2, <2>3 DEF PendingAsync, SameRunner
  <2>5. RunnerOK(f, 0) /\ LoadOK(f) /\ Asserted(f)
    BY <1>9, <2>2, <2>3, <2>4, <2>8 DEF RunnerOK, Delays, SameRunner, LoadOK, SameParser, SameMode,
              SameLoad, Asserted
  <2>6. SameParser(d, f)
    BY <1>4, <2>2, SameParserTrans
  <2>7. Idle(f) /\ f.isComplete = d.isComplete
    BY <2>5, <2>6, RunnerIdle DEF SameParser, SameLoad
  <2>9. Logged(f, f.now)
    <3>1. Ordered(f, f.now, {})
      BY <1>13, <2>8, OrderedGrows
    <3>2. \A label : Has(b.lastInOrder, {}, label) => Has(f.lastInOrder, f.now, label)
      BY <2>8 DEF Has
    <3>3. Executed(f, f.now)
      BY <1>4, <1>13, <2>1, <2>3, <2>8, <3>2 DEF Executed
    <3> QED BY <1>13, <2>3, <2>8, <3>1, <3>3 DEF Logged, Addable
  <2>10. Advances(f, doc')
    BY <1>1, <1>2, <1>10, <2>7, <2>9, SettledIdle
  <2>11. doc'.ran = d.ran /\ Len(d.ran) \in Nat
    BY <1>12, <1>13, <2>8, <2>10 DEF Advances, Executed
  <2>12. \A k : k \notin (Len(d.ran) + 1)..Len(doc'.ran)
    BY <2>11
  <2>13. Orderly(d, doc')
    BY <2>12 DEF Orderly
  <2> QED BY <2>7, <2>10, <2>13 DEF Advances
<1>11. CASE b.inOrder # <<>>
  <2>1. /\ SameParser(b, h) /\ h.requests = b.requests /\ h.failed = b.failed
        /\ h.delayCount = b.delayCount /\ h.inOrder = Tail(b.inOrder) /\ h.async = b.async
        /\ h.asyncTimers = b.asyncTimers /\ h.inOrderTimer = b.inOrderTimer
        /\ h.runnerSuspended = b.runnerSuspended /\ h.strayed = b.strayed /\ h.addedSince = b.addedSince
    BY <1>7 DEF SameParser, SameMode, SameScheduler, SamePause, SameWait, SameStack, SameLoad, IsDoc, Fields
  <2>23. /\ h.loaded = b.loaded /\ h.ran = b.ran /\ h.lastInOrder = b.lastInOrder /\ h.page = b.page
         /\ h.eventActionToFinish = b.eventActionToFinish /\ h.late = b.late /\ h.now = b.now
         /\ h.misfired = b.misfired /\ h.strayed = b.strayed
    BY <1>7 DEF IsDoc, Fields
  <2> HIDE DEF h
  <2>2. b.inOrder \in Seq(Tokens(b)) /\ \A k \in 1..Len(b.inOrder) : ~IsAsync(b, b.inOrder[k])
    BY <1>9 DEF RunnerOK
  <2>3. /\ script \in Tokens(b) /\ Tail(b.inOrder) \in Seq(Tokens(b))
        /\ Len(Tail(b.inOrder)) = Len(b.inOrder) - 1
        /\ \A k \in 1..Len(Tail(b.inOrder)) : Tail(b.inOrder)[k] = b.inOrder[k + 1] /\ k + 1 \in 1..Len(b.inOrder)
    BY <1>11, <2>2
  <2>24. /\ d.strayed \/ script \in d.page.denied \/ b.eventActionToFinish[script] # {}
         /\ b.eventActionToFinish[script] # {} => <<"ready", script>> \in b.eventActionToFinish[script]
    <3>1. ~d.strayed => script \in b.loaded
      BY <1>4, <1>6, <1>12
    <3>2. script = b.inOrder[1] /\ 1 \in 1..Len(b.inOrder)
      BY <1>11, <2>2
    <3>3. d.strayed \/ script \in d.page.denied \/ b.eventActionToFinish[script] # {}
      BY <1>12, <1>13, <3>1, <3>2 DEF Ordered
    <3>4. b.eventActionToFinish[script] # {} => Has(b.eventActionToFinish[script], {}, <<"ready", script>>)
      BY <1>7, <1>12, <2>3 DEF Logged, Ordered
    <3> QED BY <3>3, <3>4 DEF Has
  <2> HIDE DEF script
  <2>4. Tokens(h) = Tokens(b) /\ h.suspended = b.suspended /\ (\A t : IsAsync(h, t) <=> IsAsync(b, t))
        /\ IsDoc(h) /\ ModeOK(h) /\ h.page = d.page
    BY <1>4, <1>7, <2>1 DEF SameParser, SameMode, Tokens, IsAsync, ModeOK
  <2>5. PendingAsync(h) = PendingAsync(b)
    BY <2>1, <2>4 DEF PendingAsync
  <2>6. /\ Len(b.inOrder) \in Nat /\ Cardinality(b.async) \in Nat /\ Cardinality(PendingAsync(b)) \in Nat
        /\ b.delayCount \in Nat
    BY <1>7, <1>9, RunnerSizes
  <2>7. Delays(h, 1)
    BY <1>9, <2>1, <2>3, <2>5, <2>6 DEF RunnerOK, Delays
  <2>8. \A k \in 1..Len(h.inOrder) : ~IsAsync(h, h.inOrder[k])
    BY <2>1, <2>2, <2>3, <2>4
  <2>9. h.inOrder \in Seq(Tokens(h))
    BY <2>1, <2>3, <2>4
  <2>10. RunnerOK(h, 1)
    BY <1>4, <1>6, <1>9, <2>1, <2>4, <2>7, <2>8, <2>9 DEF RunnerOK
  <2>11. LoadOK(h) /\ Asserted(h)
    BY <1>9, <2>1, <2>4 DEF LoadOK, SameParser, SameMode, SameLoad, Asserted
  <2>13. SameParser(h, done) /\ RunnerOK(done, 0) /\ LoadOK(done) /\ Asserted(done)
    BY <2>3, <2>4, <2>10, <2>11, ExecuteQueuedDoes
  <2>25. /\ IsDoc(done) /\ done.page = h.page /\ done.loaded = h.loaded /\ done.ran = Append(h.ran, script)
         /\ done.lastInOrder = h.lastInOrder /\ done.late = h.late
         /\ h.now \subseteq done.now /\ <<"ran", script>> \in done.now
         /\ done.misfired = h.misfired /\ (h.strayed => done.strayed)
         /\ Ordered(h, h.now, {}) => Ordered(done, done.now, {})
    BY <2>3, <2>4, ExecuteQueuedLogs
  <2> HIDE DEF done
  <2>26. Ordered(h, h.now, {})
    <3>1. \A k \in 1..Len(h.inOrder) : h.page.kind[h.inOrder[k]] = "inOrder"
      BY <1>13, <2>1, <2>3, <2>23 DEF Ordered
    <3>2. \A k \in 1..Len(h.inOrder) :
             h.inOrder[k] \in (h.loaded \ {}) \ h.page.denied => h.eventActionToFinish[h.inOrder[k]] # {}
      BY <1>13, <2>1, <2>3, <2>23 DEF Ordered
    <3>3. ~h.strayed => ~TimerPending(h.inOrderTimer) /\ ~h.runnerSuspended
      BY <1>4, <1>6, <2>1
    <3>4. h.inOrder \in Seq(Tokens(h))
      BY <2>1, <2>3, <2>4
    <3> QED BY <1>13, <2>1, <2>4, <2>23, <3>1, <3>2, <3>3, <3>4 DEF Ordered
  <2>27. /\ IsDoc(heard) /\ heard.page = done.page /\ heard.loaded = done.loaded
         /\ heard.ran = done.ran /\ heard.now = done.now /\ heard.late = done.late
         /\ heard.eventActionToFinish = done.eventActionToFinish
         /\ heard.asyncTimers = done.asyncTimers /\ heard.inOrderTimer = done.inOrderTimer
         /\ heard.runnerSuspended = done.runnerSuspended /\ heard.inOrder = done.inOrder
         /\ heard.strayed = done.strayed
         /\ heard.misfired = IF b.eventActionToFinish[script] = {} THEN done.misfired \cup {script}
                             ELSE done.misfired
    BY <2>25 DEF IsDoc, Fields
  <2>28. SameDoc(done, heard)
    BY <2>25 DEF SameDoc, SameOutside, SameMode, SameScheduler, SamePause, SameWait,
              SameStack, SameRunner, SameLoad, Asserted, IsDoc, Fields
  <2> HIDE DEF heard
  <2>29. SameDoc(heard, o)
    BY <2>27 DEF addArc, SameDoc, SameOutside, SameMode, SameScheduler, SamePause, SameWait,
              SameStack, SameRunner, SameLoad, Asserted, IsDoc, Fields
  <2>14. SameDoc(done, o)
    BY <2>28, <2>29, SameDocTrans
  <2>30. /\ o.page = heard.page /\ o.loaded = heard.loaded /\ o.ran = heard.ran /\ o.lastInOrder = Now
         /\ o.late = heard.late /\ IsDoc(o)
         /\ o.now = heard.now \cup (b.lastInOrder \cup b.eventActionToFinish[script] \cup b.resumeJoin)
         /\ o.eventActionToFinish = heard.eventActionToFinish /\ o.asyncTimers = heard.asyncTimers
         /\ o.inOrderTimer = heard.inOrderTimer /\ o.runnerSuspended = heard.runnerSuspended
         /\ o.inOrder = heard.inOrder /\ o.misfired = heard.misfired /\ o.strayed = heard.strayed
    BY <2>27 DEF addArc, IsDoc, Fields
  <2> HIDE DEF o
  <2>31. Ordered(o, o.now, {})
    <3>1. Ordered(done, done.now, {})
      BY <2>25, <2>26
    <3>2. Ordered(heard, heard.now, {})
      BY <2>27, <3>1, OrderedGrows
    <3> QED BY <2>30, <3>2, OrderedGrows
  <2>32. /\ o.ran = Append(b.ran, script) /\ o.page = d.page /\ Tokens(o) = Tokens(d) /\ script \in Tokens(d)
         /\ b.ran \in Seq(Tokens(d)) /\ o.late \subseteq Addable(o)
         /\ <<"ran", script>> \in o.now
    BY <1>7, <1>12, <1>13, <2>3, <2>23, <2>25, <2>27, <2>30 DEF Executed, Tokens, Addable
  <2>33. \A k \in 1..Len(o.ran) : d.page.kind[o.ran[k]] = "inOrder" => <<"ran", o.ran[k]>> \in o.now
    <3>1. ASSUME NEW k \in 1..Len(o.ran), d.page.kind[o.ran[k]] = "inOrder"
          PROVE  <<"ran", o.ran[k]>> \in o.now
      <4>1. CASE k \in 1..Len(b.ran)
        <5>1. o.ran[k] = b.ran[k]
          BY <2>32, <4>1
        <5>2. Has(b.lastInOrder, {}, <<"ran", b.ran[k]>>)
          BY <1>12, <1>13, <3>1, <4>1, <5>1 DEF Executed
        <5> QED BY <2>30, <5>1, <5>2 DEF Has
      <4>2. CASE k \notin 1..Len(b.ran)
        <5>1. o.ran[k] = script
          BY <2>32, <4>2
        <5> QED BY <2>32, <5>1
      <4> QED BY <4>1, <4>2
    <3> QED BY <3>1
  <2>34. Executed(o, o.now)
    <3>1. o.ran \in Seq(Tokens(o))
      BY <2>32
    <3>2. o.strayed \/ o.misfired \subseteq o.page.denied
      <4>1. d.strayed => o.strayed
        BY <1>12, <2>23, <2>25, <2>27, <2>30
      <4>2. d.strayed \/ b.misfired \subseteq d.page.denied
        BY <1>12, <1>13 DEF Executed
      <4>3. o.misfired = IF b.eventActionToFinish[script] = {} THEN b.misfired \cup {script}
                         ELSE b.misfired
        BY <2>23, <2>25, <2>27, <2>30
      <4> QED BY <2>24, <2>32, <4>1, <4>2, <4>3
    <3> QED BY <2>30, <2>32, <2>33, <3>1, <3>2 DEF Executed, Has
  <2>15. ModeOK(done) /\ IsDoc(done) /\ done.suspended = h.suspended
    BY <2>4, <2>13 DEF SameParser, SameMode, ModeOK
  <2>16. SameParser(done, o) /\ ModeOK(o) /\ Tokens(o) = Tokens(done) /\ IsDoc(o) /\ Asserted(o)
         /\ o.suspended = h.suspended
    BY <2>13, <2>14, <2>15 DEF SameDoc, SameOutside, SameParser, SameMode, ModeOK, Tokens
  <2>17. RunnerOK(o, 0)
    <3>1. \A t : IsAsync(o, t) <=> IsAsync(done, t)
      BY <2>14 DEF IsAsync, SameDoc, SameOutside, SameMode
    <3>2. PendingAsync(o) = PendingAsync(done)
      BY <2>14, <2>16 DEF PendingAsync, SameDoc, SameOutside, SameRunner
    <3> QED BY <2>13, <2>14, <2>15, <2>16, <3>1, <3>2 DEF RunnerOK, Delays, SameDoc, SameOutside, SameRunner
  <2>18. LoadOK(o)
    BY <2>13, <2>14, <2>16 DEF LoadOK, SameDoc, SameOutside, SameMode, SameLoad, SameRunner
  <2>19. /\ RunnerOK(u, 0) /\ SameParser(o, u) /\ u.requests = o.requests
         /\ u.failed = o.failed /\ u.delayCount = o.delayCount /\ u.addedSince = o.addedSince
    BY <2>16, <2>17, UpdateInOrderTimerDoes
  <2>35. Runs(o, u) /\ Ordered(u, o.now, {})
    BY <2>30, <2>31, UpdateInOrderTimerRuns
  <2> HIDE DEF u
  <2>20. LoadOK(u) /\ Asserted(u)
    BY <2>16, <2>18, <2>19 DEF LoadOK, SameParser, SameMode, SameLoad, Tokens, Asserted
  <2>21. SameParser(d, u)
    <3>1. SameParser(d, h)
      BY <1>4, <2>1, SameParserTrans
    <3>2. SameParser(d, done)
      BY <2>13, <3>1, SameParserTrans
    <3>3. SameParser(d, o)
      BY <2>16, <3>2, SameParserTrans
    <3> QED BY <2>19, <3>3, SameParserTrans
  <2>22. Idle(u) /\ u.isComplete = d.isComplete
    BY <2>19, <2>20, <2>21, RunnerIdle DEF SameParser, SameLoad
  <2>36. Logged(u, u.now)
    <3>1. Ordered(u, u.now, {})
      BY <2>35, OrderedGrows DEF Runs
    <3>2. Executed(u, u.now)
      BY <2>34, <2>35, ExecutedGrows DEF Runs
    <3>3. u.late \subseteq Addable(u)
      BY <2>32, <2>35 DEF Runs, Addable, Tokens
    <3> QED BY <3>1, <3>2, <3>3 DEF Logged
  <2>37. Advances(u, doc') /\ doc'.now = u.now \ Now /\ doc'.strayed = u.strayed
    BY <1>1, <1>2, <1>11, <2>22, <2>36, SettledIdle
  <2>38. doc'.ran = Append(d.ran, script) /\ d.ran \in Seq(Tokens(d)) /\ doc'.ran = o.ran
    BY <1>12, <2>32, <2>35, <2>37 DEF Advances, Runs
  <2>39. \A label \in o.now : label \notin Now => label \in doc'.now
    BY <2>35, <2>37 DEF Runs
  <2>40. \A x : <<"ready", x>> \notin Now /\ <<"ran", x>> \notin Now
    BY DEF Now
  <2>41. Orderly(d, doc')
    <3>1. <<"ready", script>> \in doc'.now \/ script \in d.page.denied \/ doc'.strayed
      <4>1. d.strayed => doc'.strayed
        BY <1>12, <2>23, <2>25, <2>27, <2>30, <2>35, <2>37 DEF Runs
      <4>2. b.eventActionToFinish[script] # {} => <<"ready", script>> \in doc'.now
        BY <2>24, <2>30, <2>39, <2>40
      <4> QED BY <2>24, <4>1, <4>2
    <3>2. ASSUME NEW k \in (Len(d.ran) + 1)..Len(doc'.ran)
          PROVE  doc'.ran[k] = script /\ \A j \in 1..(k - 1) : j \in 1..Len(doc'.ran)
      <4> DEFINE old == d.ran
                 new == doc'.ran
      <4>1. old \in Seq(Tokens(d)) /\ new = Append(old, script)
        BY <2>38
      <4>2. k \in (Len(old) + 1)..Len(new)
        BY <3>2
      <4> HIDE DEF old, new
      <4>3. Len(old) \in Nat /\ Len(new) = Len(old) + 1 /\ new[Len(old) + 1] = script
        BY <4>1
      <4>4. k = Len(new) /\ new[k] = script
        BY <4>2, <4>3
      <4> QED BY <4>3, <4>4 DEF new
    <3>3. ASSUME NEW j \in 1..Len(doc'.ran), d.page.kind[doc'.ran[j]] = "inOrder"
          PROVE  <<"ran", doc'.ran[j]>> \in doc'.now
      BY <2>33, <2>38, <2>39, <2>40, <3>3
    <3> QED BY <3>1, <3>2, <3>3 DEF Orderly
  <2> QED BY <2>22, <2>37, <2>41 DEF Advances
<1> QED BY <1>10, <1>11

LEMMA AsyncTimerFiresIdle ==
    ASSUME Idle(doc), Logged(doc, {}), NEW s \in DOMAIN doc.page.kind, AsyncTimerFires(s)
    PROVE  /\ Idle(doc') /\ Logged(doc', {}) /\ doc'.isComplete = doc.isComplete
           /\ Orderly(doc, doc')
<1> DEFINE d == doc
           e == [[d EXCEPT !.now = d.asyncTimers[s].starter] EXCEPT !.asyncTimers[s] = timerFired(@)]
           f == decrementLoadEventDelayCount(executeQueued(e, s))
<1>1. d.asyncTimers[s].queued > 0 /\ doc' = Settled(f) /\ s \in Tokens(d)
  BY DEF AsyncTimerFires, EnteredByTimer, asyncTimerFired, Tokens
<1>2. FitsBut(d, 0, 0, 0) /\ RunnerOK(d, 0) /\ LoadOK(d) /\ Asserted(d) /\ ModeOK(d) /\ IsDoc(d)
  BY IdleFacts DEF FitsBut
<1>3. /\ SameParser(d, e) /\ e.requests = d.requests /\ e.failed = d.failed
      /\ e.delayCount = d.delayCount /\ e.inOrder = d.inOrder /\ e.async = d.async
      /\ e.asyncTimers = [d.asyncTimers EXCEPT ![s] = timerFired(@)] /\ e.inOrderTimer = d.inOrderTimer
      /\ e.runnerSuspended = d.runnerSuspended /\ e.strayed = d.strayed /\ e.addedSince = d.addedSince
  BY <1>2 DEF SameParser, SameMode, SameScheduler, SamePause, SameWait, SameStack, SameLoad, IsDoc, Fields
<1>18. /\ e.loaded = d.loaded /\ e.ran = d.ran /\ e.lastInOrder = d.lastInOrder /\ e.page = d.page
       /\ e.eventActionToFinish = d.eventActionToFinish /\ e.late = d.late
       /\ e.misfired = d.misfired /\ e.strayed = d.strayed
       /\ e.now = d.asyncTimers[s].starter
  BY <1>2 DEF IsDoc, Fields
<1> HIDE DEF e
<1>4. /\ TimerOK(timerFired(d.asyncTimers[s])) /\ ~TimerPending(timerFired(d.asyncTimers[s]))
      /\ TimerPending(d.asyncTimers[s])
  BY <1>1, <1>2, TimerFiredDoes DEF RunnerOK
<1>5. Tokens(e) = Tokens(d) /\ e.suspended = d.suspended /\ (\A t : IsAsync(e, t) <=> IsAsync(d, t))
      /\ IsDoc(e) /\ ModeOK(e) /\ e.page = d.page
  BY <1>2, <1>3 DEF SameParser, SameMode, Tokens, IsAsync, ModeOK
<1>6. /\ DOMAIN e.asyncTimers = Tokens(d)
      /\ \A t \in Tokens(d) : e.asyncTimers[t] = IF t = s THEN timerFired(d.asyncTimers[s]) ELSE d.asyncTimers[t]
  BY <1>1, <1>2, <1>3 DEF RunnerOK
<1>7. \A t \in Tokens(d) : /\ TimerOK(e.asyncTimers[t])
                           /\ TimerPending(e.asyncTimers[t]) <=> (t # s /\ TimerPending(d.asyncTimers[t]))
  BY <1>2, <1>4, <1>6 DEF RunnerOK
<1>8. PendingAsync(e) = PendingAsync(d) \ {s} /\ s \in PendingAsync(d)
  BY <1>1, <1>4, <1>5, <1>7 DEF PendingAsync
<1>9. /\ Len(d.inOrder) \in Nat /\ Cardinality(d.async) \in Nat /\ Cardinality(PendingAsync(d)) \in Nat
      /\ d.delayCount \in Nat /\ IsFiniteSet(PendingAsync(d))
  BY <1>2, RunnerSizes
<1>10. Cardinality(PendingAsync(e)) = Cardinality(PendingAsync(d)) - 1
  BY <1>8, <1>9, FS_RemoveElement
<1>11. Delays(e, 1)
  BY <1>2, <1>3, <1>9, <1>10 DEF RunnerOK, Delays
<1>12. RunnerOK(e, 1)
  BY <1>2, <1>3, <1>5, <1>6, <1>7, <1>11 DEF RunnerOK
<1>13. LoadOK(e) /\ Asserted(e)
  BY <1>2, <1>3, <1>5 DEF LoadOK, SameParser, SameMode, SameLoad, Asserted
<1>15. SameParser(e, f) /\ RunnerOK(f, 0) /\ LoadOK(f) /\ Asserted(f)
  BY <1>1, <1>5, <1>12, <1>13, ExecuteQueuedDoes
<1>19. /\ IsDoc(f) /\ f.page = e.page /\ f.loaded = e.loaded /\ f.ran = Append(e.ran, s)
       /\ f.lastInOrder = e.lastInOrder /\ f.late = e.late
       /\ e.now \subseteq f.now /\ <<"ran", s>> \in f.now
       /\ f.misfired = e.misfired /\ (e.strayed => f.strayed)
       /\ Ordered(e, e.now, {}) => Ordered(f, f.now, {})
  BY <1>1, <1>5, ExecuteQueuedLogs
<1> HIDE DEF f
<1>20. Ordered(e, e.now, {})
  <2>1. \A action, label : Has(action, {}, label) => Has(action, e.now, label)
    BY DEF Has
  <2>2. Ordered(d, {}, {})
    BY DEF Logged
  <2>3. \A t \in Tokens(e) :
          /\ e.eventActionToFinish[t] # {} => Has(e.eventActionToFinish[t], e.now, <<"ready", t>>)
          /\ TimerPending(e.asyncTimers[t]) => Has(e.asyncTimers[t].starter, e.now, <<"ready", t>>)
    BY <1>5, <1>6, <1>7, <1>18, <2>1, <2>2 DEF Ordered
  <2> QED BY <1>3, <1>5, <1>6, <1>18, <2>2, <2>3 DEF Ordered
<1>21. IsAsync(d, s) /\ <<"ready", s>> \in e.now
  <2>1. IsAsync(d, s)
    BY <1>1, <1>2, <1>4 DEF RunnerOK
  <2>2. Has(d.asyncTimers[s].starter, {}, <<"ready", s>>)
    BY <1>1, <1>4 DEF Logged, Ordered
  <2> QED BY <1>18, <2>1, <2>2 DEF Has
<1>22. /\ f.ran = Append(d.ran, s) /\ f.page = d.page /\ Tokens(f) = Tokens(d) /\ d.ran \in Seq(Tokens(d))
       /\ f.late \subseteq Addable(f)
  BY <1>18, <1>19 DEF Logged, Executed, Tokens, Addable
<1>23. Executed(f, f.now)
  <2>1. ASSUME NEW k \in 1..Len(f.ran), f.page.kind[f.ran[k]] = "inOrder"
        PROVE  Has(f.lastInOrder, f.now, <<"ran", f.ran[k]>>)
    <3>1. k \in 1..Len(d.ran) /\ f.ran[k] = d.ran[k]
      <4>1. f.ran[k] # s
        BY <1>21, <1>22, <2>1 DEF IsAsync
      <4> QED BY <1>1, <1>22, <4>1
    <3>2. Has(d.lastInOrder, {}, <<"ran", d.ran[k]>>)
      BY <1>22, <2>1, <3>1 DEF Logged, Executed
    <3> QED BY <1>18, <1>19, <3>1, <3>2 DEF Has
  <2>2. f.ran \in Seq(Tokens(f))
    BY <1>1, <1>22
  <2>3. f.strayed \/ f.misfired \subseteq f.page.denied
    BY <1>18, <1>19 DEF Logged, Executed
  <2> QED BY <2>1, <2>2, <2>3 DEF Executed
<1>24. Logged(f, f.now)
  BY <1>19, <1>20, <1>22, <1>23 DEF Logged
<1>16. SameParser(d, f)
  BY <1>3, <1>15, SameParserTrans
<1>17. Idle(f) /\ f.isComplete = d.isComplete
  BY <1>15, <1>16, RunnerIdle DEF SameParser, SameLoad
<1>25. Advances(f, doc') /\ doc'.now = f.now \ Now
  BY <1>1, <1>17, <1>24, SettledIdle
<1>26. <<"ready", s>> \in doc'.now /\ doc'.ran = f.ran
  BY <1>19, <1>21, <1>25 DEF Advances, Now
<1>27. Orderly(d, doc')
  <2>1. ASSUME NEW k \in (Len(d.ran) + 1)..Len(doc'.ran) PROVE doc'.ran[k] = s
    BY <1>1, <1>22, <1>26
  <2> QED BY <1>21, <1>26, <2>1 DEF Orderly, IsAsync
<1> QED BY <1>17, <1>25, <1>27 DEF Advances

\* A dialog suspends the document, and its end resumes it.
SameButSuspended(d, e) ==
    /\ IsDoc(e) /\ SamePause(d, e) /\ SameWait(d, e) /\ SameStack(d, e) /\ SameLoad(d, e)
    /\ e.input = d.input /\ e.requests = d.requests /\ e.failed = d.failed /\ e.page = d.page
    /\ e.state = d.state /\ e.parsing = d.parsing /\ e.finished = d.finished
    /\ e.endDelayed = d.endDelayed /\ e.chunks = d.chunks
    /\ e.delayCount = d.delayCount /\ e.inOrder = d.inOrder /\ e.async = d.async
    /\ e.asyncTimers = d.asyncTimers /\ e.loaded = d.loaded /\ e.ran = d.ran
    /\ e.lastInOrder = d.lastInOrder /\ e.eventActionToFinish = d.eventActionToFinish
    /\ e.late = d.late /\ e.strayed = d.strayed /\ e.misfired = d.misfired
    /\ e.addedSince = d.addedSince

LEMMA SuspendedLogged ==
    ASSUME NEW d, Logged(d, {}), NEW e, SameButSuspended(d, e),
           ~d.strayed /\ (TimerPending(e.inOrderTimer) \/ e.runnerSuspended) =>
              TimerPending(d.inOrderTimer) \/ d.runnerSuspended
    PROVE  Logged(e, e.now)
<1>1. \A action, label : Has(action, {}, label) => Has(action, e.now, label)
  BY DEF Has
<1>2. Tokens(e) = Tokens(d) /\ Ordered(d, {}, {})
  BY DEF SameButSuspended, Tokens, Logged
<1>3. \A t \in Tokens(e) :
          /\ e.eventActionToFinish[t] # {} => Has(e.eventActionToFinish[t], e.now, <<"ready", t>>)
          /\ TimerPending(e.asyncTimers[t]) => Has(e.asyncTimers[t].starter, e.now, <<"ready", t>>)
  BY <1>1, <1>2 DEF SameButSuspended, Ordered
<1>4. Ordered(e, e.now, {})
  BY <1>2, <1>3 DEF SameButSuspended, Ordered
<1>5. Executed(e, e.now) /\ e.late \subseteq Addable(e)
  BY ExecutedGrows DEF SameButSuspended, Logged, Addable, Tokens
<1> QED BY <1>4, <1>5 DEF Logged

LEMMA SuspendedIdle ==
    ASSUME NEW d, Idle(d), NEW e, SameButSuspended(d, e), SchedulerOK(e),
           isScheduledForResume(e) <=> isScheduledForResume(d),
           e.suspended \in BOOLEAN, e.suspends \in Nat, e.suspended => e.suspends > 0,
           e.suspends <= MaxSuspends,
           ~d.strayed =>
              /\ TimerOK(e.inOrderTimer) /\ e.runnerSuspended \in BOOLEAN
              /\ TimerPending(e.inOrderTimer) => e.inOrder # <<>>
              /\ e.runnerSuspended => e.suspended /\ e.inOrder # <<>>
              /\ e.suspended => ~TimerPending(e.inOrderTimer)
              /\ isActive(e.inOrderTimer) => TimerPending(e.inOrderTimer) \/ e.runnerSuspended
    PROVE  Idle(e)
<1>1. FitsBut(d, 0, 0, 0)
  BY IdleFacts
<1>2. ModeOK(e) /\ Tokens(e) = Tokens(d) /\ Asserted(e)
  BY <1>1 DEF FitsBut, SameButSuspended, ModeOK, Tokens, Asserted
<1>3. RunnerOK(e, 0)
  <2>1. \A t : IsAsync(e, t) <=> IsAsync(d, t)
    BY DEF IsAsync, SameButSuspended
  <2>2. PendingAsync(e) = PendingAsync(d)
    BY <1>2 DEF PendingAsync, SameButSuspended
  <2> QED BY <1>1, <1>2, <2>1, <2>2 DEF FitsBut, RunnerOK, Delays, SameButSuspended
<1>4. LoadOK(e)
  BY <1>1, <1>2 DEF FitsBut, LoadOK, SameButSuspended, SameLoad
<1> QED BY <1>2, <1>3, <1>4, IdleKept DEF SameButSuspended

LEMMA SuspendIdle ==
    ASSUME Idle(doc), Logged(doc, {}), SuspendScheduledTasks
    PROVE  Advances(doc, doc')
<1> DEFINE d == doc
           n == Entered(<<"suspend", doc.suspends>>)
           r == suspendRunner(n)
           p == suspendParser(r)
           e == [p EXCEPT !.suspended = TRUE, !.suspends = @ + 1]
<1>1. ~d.suspended /\ d.suspends < MaxSuspends /\ doc' = Settled(e)
  BY DEF SuspendScheduledTasks
<1>2. FitsBut(d, 0, 0, 0) /\ IsDoc(d) /\ ModeOK(d) /\ SchedulerOK(d) /\ RunnerOK(d, 0)
  BY IdleFacts DEF FitsBut
<1>3. /\ SameButSuspended(d, n) /\ SameScheduler(d, n) /\ n.inOrderTimer = d.inOrderTimer
      /\ n.runnerSuspended = d.runnerSuspended /\ n.suspended = d.suspended /\ n.suspends = d.suspends
  BY <1>2 DEF Entered, SameButSuspended, SameScheduler, SamePause, SameWait, SameStack, SameLoad, IsDoc, Fields
<1> HIDE DEF n
<1>4. /\ SameButSuspended(n, r) /\ SameScheduler(n, r) /\ r.suspended = n.suspended /\ r.suspends = n.suspends
      /\ IF isActive(n.inOrderTimer)
         THEN r.runnerSuspended = TRUE /\ r.inOrderTimer = stopTimer(n.inOrderTimer)
         ELSE r.runnerSuspended = n.runnerSuspended /\ r.inOrderTimer = n.inOrderTimer
  <2>1. IsDoc(n)
    BY <1>3 DEF SameButSuspended
  <2>2. CASE isActive(n.inOrderTimer)
    BY <2>1, <2>2 DEF suspendRunner, SameButSuspended, SameScheduler, SamePause, SameWait, SameStack, SameLoad,
                      IsDoc, Fields
  <2>3. CASE ~isActive(n.inOrderTimer)
    BY <2>1, <2>3 DEF suspendRunner, SameButSuspended, SameScheduler, SamePause, SameWait, SameStack, SameLoad,
                      IsDoc, Fields
  <2> QED BY <2>2, <2>3
<1> HIDE DEF r
<1>5. /\ SameButSuspended(r, p) /\ p.inOrderTimer = r.inOrderTimer /\ p.runnerSuspended = r.runnerSuspended
      /\ p.suspended = r.suspended /\ p.suspends = r.suspends
      /\ IF isActive(r.parserTimer)
         THEN p.parserSuspended = TRUE /\ p.parserTimer = stopTimer(r.parserTimer)
         ELSE p.parserSuspended = r.parserSuspended /\ p.parserTimer = r.parserTimer
  <2>1. IsDoc(r)
    BY <1>4 DEF SameButSuspended
  <2>2. CASE isActive(r.parserTimer)
    BY <2>1, <2>2 DEF suspendParser, SameButSuspended, SamePause, SameWait, SameStack, SameLoad, IsDoc, Fields
  <2>3. CASE ~isActive(r.parserTimer)
    BY <2>1, <2>3 DEF suspendParser, SameButSuspended, SamePause, SameWait, SameStack, SameLoad, IsDoc, Fields
  <2> QED BY <2>2, <2>3
<1> HIDE DEF p
<1>6. /\ SameButSuspended(p, e) /\ SameScheduler(p, e) /\ e.inOrderTimer = p.inOrderTimer
      /\ e.runnerSuspended = p.runnerSuspended /\ e.suspended = TRUE /\ e.suspends = p.suspends + 1
  <2>1. IsDoc(p)
    BY <1>5 DEF SameButSuspended
  <2> QED BY <2>1 DEF SameButSuspended, SameScheduler, SamePause, SameWait, SameStack, SameLoad, IsDoc, Fields
<1> HIDE DEF e
<1>7. SameButSuspended(d, e)
  BY <1>3, <1>4, <1>5, <1>6 DEF SameButSuspended, SamePause, SameWait, SameStack, SameLoad
<1>8. /\ IF isActive(d.parserTimer)
         THEN e.parserSuspended = TRUE /\ e.parserTimer = stopTimer(d.parserTimer)
         ELSE e.parserSuspended = d.parserSuspended /\ e.parserTimer = d.parserTimer
      /\ IF isActive(d.inOrderTimer)
         THEN e.runnerSuspended = TRUE /\ e.inOrderTimer = stopTimer(d.inOrderTimer)
         ELSE e.runnerSuspended = d.runnerSuspended /\ e.inOrderTimer = d.inOrderTimer
      /\ e.suspends = d.suspends + 1
  BY <1>3, <1>4, <1>5, <1>6 DEF SameScheduler
<1>9. SchedulerOK(e) /\ (isScheduledForResume(e) <=> isScheduledForResume(d))
  <2>1. TimerOK(d.parserTimer) /\ d.parserSuspended \in BOOLEAN
    BY <1>2 DEF SchedulerOK
  <2>2. CASE isActive(d.parserTimer)
    BY <1>8, <2>1, <2>2, StopTimerDoes DEF SchedulerOK, isScheduledForResume
  <2>3. CASE ~isActive(d.parserTimer)
    <3>1. ~TimerPending(d.parserTimer)
      BY <2>1, <2>3 DEF isActive, TimerPending, TimerOK
    <3> QED BY <1>8, <2>1, <2>3, <3>1 DEF SchedulerOK, isScheduledForResume
  <2> QED BY <2>2, <2>3
<1>10. ASSUME ~d.strayed
       PROVE  /\ TimerOK(e.inOrderTimer) /\ e.runnerSuspended \in BOOLEAN
              /\ ~TimerPending(e.inOrderTimer)
              /\ e.runnerSuspended => e.inOrder # <<>>
              /\ isActive(e.inOrderTimer) => e.runnerSuspended
  <2>1. /\ TimerOK(d.inOrderTimer) /\ d.runnerSuspended \in BOOLEAN /\ ~d.runnerSuspended
        /\ TimerPending(d.inOrderTimer) => d.inOrder # <<>>
        /\ isActive(d.inOrderTimer) => TimerPending(d.inOrderTimer)
    BY <1>1, <1>2, <1>10 DEF RunnerOK
  <2>2. e.inOrder = d.inOrder
    BY <1>7 DEF SameButSuspended
  <2>3. CASE isActive(d.inOrderTimer)
    BY <1>8, <2>1, <2>2, <2>3, StopTimerDoes
  <2>4. CASE ~isActive(d.inOrderTimer)
    <3>1. ~TimerPending(d.inOrderTimer)
      BY <2>1, <2>4 DEF isActive, TimerPending, TimerOK
    <3> QED BY <1>8, <2>1, <2>2, <2>4, <3>1
  <2> QED BY <2>3, <2>4
<1>11. e.suspends \in Nat /\ e.suspends > 0 /\ e.suspends <= MaxSuspends
  BY <1>1, <1>2, <1>8, PagesAssumption DEF ModeOK
<1>12. Idle(e) /\ e.isComplete = d.isComplete
  BY <1>6, <1>7, <1>9, <1>10, <1>11, SuspendedIdle DEF SameButSuspended, SameLoad
<1>13. Logged(e, e.now)
  <2>1. ASSUME ~d.strayed, TimerPending(e.inOrderTimer) \/ e.runnerSuspended
        PROVE  TimerPending(d.inOrderTimer) \/ d.runnerSuspended
    <3>1. isActive(d.inOrderTimer) => TimerPending(d.inOrderTimer) \/ d.runnerSuspended
      BY <1>2, <2>1 DEF RunnerOK
    <3> QED BY <1>8, <2>1, <3>1
  <2> QED BY <1>7, <2>1, SuspendedLogged
<1>14. Advances(e, doc')
  BY <1>1, <1>12, <1>13, SettledIdle
<1> QED BY <1>7, <1>12, <1>14 DEF Advances, SameButSuspended

LEMMA ResumeIdle ==
    ASSUME Idle(doc), Logged(doc, {}), ResumeScheduledTasks
    PROVE  Advances(doc, doc')
<1> DEFINE d == doc
           n == Entered(<<"resume", doc.suspends>>)
           p == resumeParser(n)
           r == resumeRunner(p)
           e == [r EXCEPT !.suspended = FALSE]
<1>1. d.suspended /\ doc' = Settled(e)
  BY DEF ResumeScheduledTasks
<1>2. FitsBut(d, 0, 0, 0) /\ IsDoc(d) /\ ModeOK(d) /\ SchedulerOK(d) /\ RunnerOK(d, 0)
  BY IdleFacts DEF FitsBut
<1>3. /\ SameButSuspended(d, n) /\ SameScheduler(d, n) /\ n.inOrderTimer = d.inOrderTimer
      /\ n.runnerSuspended = d.runnerSuspended /\ n.suspends = d.suspends
  BY <1>2 DEF Entered, SameButSuspended, SameScheduler, SamePause, SameWait, SameStack, SameLoad, IsDoc, Fields
<1> HIDE DEF n
<1>4. /\ SameButSuspended(n, p) /\ p.inOrderTimer = n.inOrderTimer /\ p.runnerSuspended = n.runnerSuspended
      /\ p.suspends = n.suspends
      /\ n.parserSuspended => p.parserSuspended = FALSE /\ p.parserTimer = startOneShot(n.parserTimer)
      /\ ~n.parserSuspended => p.parserSuspended = n.parserSuspended /\ p.parserTimer = n.parserTimer
  <2>1. IsDoc(n)
    BY <1>3 DEF SameButSuspended
  <2>2. CASE n.parserSuspended
    BY <2>1, <2>2 DEF resumeParser, SameButSuspended, SamePause, SameWait, SameStack, SameLoad, IsDoc, Fields
  <2>3. CASE ~n.parserSuspended
    BY <2>1, <2>3 DEF resumeParser, SameButSuspended, SamePause, SameWait, SameStack, SameLoad, IsDoc, Fields
  <2> QED BY <2>2, <2>3
<1> HIDE DEF p
<1>5. /\ SameButSuspended(p, r) /\ SameScheduler(p, r) /\ r.suspends = p.suspends
      /\ p.runnerSuspended => r.runnerSuspended = FALSE /\ r.inOrderTimer = startOneShot(p.inOrderTimer)
      /\ ~p.runnerSuspended => r.runnerSuspended = p.runnerSuspended /\ r.inOrderTimer = p.inOrderTimer
  <2>1. IsDoc(p)
    BY <1>4 DEF SameButSuspended
  <2>2. CASE p.runnerSuspended
    BY <2>1, <2>2 DEF resumeRunner, addArc, SameButSuspended, SameScheduler, SamePause, SameWait, SameStack,
                      SameLoad, IsDoc, Fields
  <2>3. CASE ~p.runnerSuspended
    BY <2>1, <2>3 DEF resumeRunner, addArc, SameButSuspended, SameScheduler, SamePause, SameWait, SameStack,
                      SameLoad, IsDoc, Fields
  <2> QED BY <2>2, <2>3
<1> HIDE DEF r
<1>6. /\ SameButSuspended(r, e) /\ SameScheduler(r, e) /\ e.inOrderTimer = r.inOrderTimer
      /\ e.runnerSuspended = r.runnerSuspended /\ e.suspended = FALSE /\ e.suspends = r.suspends
  <2>1. IsDoc(r)
    BY <1>5 DEF SameButSuspended
  <2> QED BY <2>1 DEF SameButSuspended, SameScheduler, SamePause, SameWait, SameStack, SameLoad, IsDoc, Fields
<1> HIDE DEF e
<1>7. SameButSuspended(d, e)
  BY <1>3, <1>4, <1>5, <1>6 DEF SameButSuspended, SamePause, SameWait, SameStack, SameLoad
<1>8. /\ d.parserSuspended => e.parserSuspended = FALSE /\ e.parserTimer = startOneShot(d.parserTimer)
      /\ ~d.parserSuspended => e.parserSuspended = d.parserSuspended /\ e.parserTimer = d.parserTimer
      /\ d.runnerSuspended => e.runnerSuspended = FALSE /\ e.inOrderTimer = startOneShot(d.inOrderTimer)
      /\ ~d.runnerSuspended => e.runnerSuspended = d.runnerSuspended /\ e.inOrderTimer = d.inOrderTimer
      /\ e.suspends = d.suspends
  BY <1>3, <1>4, <1>5, <1>6 DEF SameScheduler
<1>9. SchedulerOK(e) /\ (isScheduledForResume(e) <=> isScheduledForResume(d))
  <2>1. TimerOK(d.parserTimer) /\ d.parserSuspended \in BOOLEAN /\ ~TimerPending(d.parserTimer)
    BY <1>1, <1>2 DEF SchedulerOK
  <2>2. CASE d.parserSuspended
    BY <1>6, <1>8, <2>1, <2>2, StartTimerDoes DEF SchedulerOK, isScheduledForResume
  <2>3. CASE ~d.parserSuspended
    BY <1>6, <1>8, <2>1, <2>3 DEF SchedulerOK, isScheduledForResume
  <2> QED BY <2>2, <2>3
<1>10. ASSUME ~d.strayed
       PROVE  /\ TimerOK(e.inOrderTimer) /\ e.runnerSuspended = FALSE
              /\ TimerPending(e.inOrderTimer) => e.inOrder # <<>>
              /\ isActive(e.inOrderTimer) => TimerPending(e.inOrderTimer)
  <2>1. /\ TimerOK(d.inOrderTimer) /\ d.runnerSuspended \in BOOLEAN /\ ~TimerPending(d.inOrderTimer)
        /\ d.runnerSuspended => d.inOrder # <<>>
        /\ isActive(d.inOrderTimer) => d.runnerSuspended
    BY <1>1, <1>2, <1>10 DEF RunnerOK
  <2>2. e.inOrder = d.inOrder
    BY <1>7 DEF SameButSuspended
  <2>3. CASE d.runnerSuspended
    BY <1>8, <2>1, <2>2, <2>3, StartTimerDoes
  <2>4. CASE ~d.runnerSuspended
    BY <1>8, <2>1, <2>2, <2>4
  <2> QED BY <2>3, <2>4
<1>11. e.suspends \in Nat /\ e.suspends <= MaxSuspends
  BY <1>2, <1>8 DEF ModeOK
<1>12. Idle(e) /\ e.isComplete = d.isComplete
  BY <1>6, <1>7, <1>9, <1>10, <1>11, SuspendedIdle DEF SameButSuspended, SameLoad
<1>13. Logged(e, e.now)
  <2>1. ASSUME ~d.strayed, TimerPending(e.inOrderTimer) \/ e.runnerSuspended
        PROVE  TimerPending(d.inOrderTimer) \/ d.runnerSuspended
    BY <1>8, <2>1
  <2> QED BY <1>7, <2>1, SuspendedLogged
<1>14. Advances(e, doc')
  BY <1>1, <1>12, <1>13, SettledIdle
<1> QED BY <1>7, <1>12, <1>14 DEF Advances, SameButSuspended

-----------------------------------------------------------------------------
(* The theorems. *)

LEMMA InitIdle ==
    ASSUME Init
    PROVE  Idle(doc) /\ Logged(doc, {})
<1> DEFINE d == doc
<1>1. PICK page \in Pages : Init!(page)!1
  BY ZenonT(60) DEF Init
<1>2. /\ d.page = page /\ page \in Pages /\ d.chunks = 0 /\ d.finished = FALSE /\ d.state = "parsing"
      /\ d.input = << <<>> >> /\ d.paused = FALSE /\ d.script = NoToken /\ d.blocking = NoToken
      /\ d.waitsForSheets = FALSE /\ d.afterParsing = <<>> /\ d.watching = {} /\ d.nesting = 0
      /\ d.pumps = 0 /\ d.endDelayed = FALSE /\ d.parserTimer = NewTimer /\ d.parserSuspended = FALSE
      /\ d.calls = <<>> /\ d.inOrder = <<>> /\ d.async = {}
      /\ d.asyncTimers = [s \in DOMAIN page.kind |-> NewTimer] /\ d.inOrderTimer = NewTimer
      /\ d.runnerSuspended = FALSE /\ d.requests = {} /\ d.parsing = TRUE /\ d.delayCount = 0
      /\ d.isComplete = FALSE /\ d.loadedTimer = NewTimer /\ d.suspended = FALSE /\ d.suspends = 0
      /\ d.failed = FALSE
  BY <1>1
<1>14. /\ d.eventActionToFinish = [s \in DOMAIN page.kind |-> {}] /\ d.ran = <<>> /\ d.late = page.late
       /\ d.misfired = {} /\ d.strayed = FALSE /\ d.addedSince = {}
  BY <1>1
<1>3. IsDoc(d)
  BY <1>1 DEF IsDoc, Fields
<1> HIDE DEF d
<1>4. TimerOK(NewTimer) /\ ~TimerPending(NewTimer) /\ ~isActive(NewTimer)
      /\ {"inHeap", "queued", "flag", "starter"} \subseteq DOMAIN NewTimer
  BY DEF TimerOK, NewTimer, TimerPending, isActive
<1>5. ModeOK(d) /\ Tokens(d) = DOMAIN page.kind
  <2>1. MaxSuspends \in Nat
    BY PagesAssumption
  <2>2. d.suspends \in Nat /\ d.suspends <= MaxSuspends /\ d.chunks \in Nat
    BY <1>2, <2>1
  <2> QED BY <1>2, <2>2, Zenon DEF ModeOK, Tokens
<1>6. SchedulerOK(d) /\ ~isScheduledForResume(d)
  BY <1>2, <1>4 DEF SchedulerOK, isScheduledForResume
<1>7. PauseOK(d) /\ WaitOK(d) /\ Asserted(d)
  <2>1. <<>> \in Seq(Tokens(d))
    OBVIOUS
  <2>2. PauseOK(d)
    BY <1>2, Zenon DEF PauseOK
  <2>3. WaitOK(d)
    BY <1>2, <2>1, Zenon DEF WaitOK
  <2>4. Asserted(d)
    BY <1>2, Zenon DEF Asserted
  <2> QED BY <2>2, <2>3, <2>4
<1>8. StackedBut(d, 0, 0, 0)
  <2>1. /\ StackOK(<<>>, Tokens(d)) /\ <<>> \in Seq(Frames(Tokens(d))) /\ Count(<<>>, Nested) = 0
        /\ Count(<<>>, Pumped) = 0 /\ Count(<<>>, Split) = 0
    BY EmptyStack
  <2>2. << <<>> >> \in Seq(Seq(Tokens(d))) /\ Len(<< <<>> >>) = 1
    OBVIOUS
  <2> QED BY <1>2, <2>1, <2>2 DEF StackedBut
<1>9. AdmitsWith(d, Names(d.calls)) /\ QuietOK(d)
  <2>1. Names(d.calls) = {}
    BY <1>2, EmptyStack
  <2> QED BY <1>2, <1>6, <2>1 DEF AdmitsWith, QuietOK
<1>10. RunnerOK(d, 0)
  <2>1. PendingAsync(d) = {}
    BY <1>2, <1>4, <1>5 DEF PendingAsync
  <2>2. Cardinality({}) = 0 /\ Len(<<>>) = 0
    BY FS_EmptySet
  <2>3. Delays(d, 0)
    BY <1>2, <2>1, <2>2 DEF Delays
  <2>4. d.inOrder \in Seq(Tokens(d)) /\ \A k \in 1..Len(d.inOrder) : ~IsAsync(d, d.inOrder[k])
    BY <1>2
  <2>5. DOMAIN d.asyncTimers = Tokens(d) /\ \A t \in Tokens(d) : d.asyncTimers[t] = NewTimer
    BY <1>2, <1>5
  <2>6. d.delayCount \in Nat
    BY <1>2
  <2> QED BY <1>2, <1>4, <2>3, <2>4, <2>5, <2>6, Zenon DEF RunnerOK
<1>11. LoadOK(d)
  BY <1>2, <1>4 DEF LoadOK
<1>12. Before(d, "none")
  <2>1. d.input[1] = <<>>
    BY <1>2
  <2>2. Rests(d)
    BY <1>2, <1>6, <2>1 DEF Rests
  <2> QED BY <1>2, <2>2 DEF Before, Watched, Bottom
<1>13. Idle(d)
  BY <1>2, <1>3, <1>5, <1>6, <1>7, <1>8, <1>9, <1>10, <1>11, <1>12 DEF Idle, DocOK, FitsBut, Top
<1>15. Logged(d, {})
  <2>1. DOMAIN d.eventActionToFinish = Tokens(d) /\ \A t \in Tokens(d) : d.eventActionToFinish[t] = {}
    BY <1>5, <1>14
  <2>2. DOMAIN d.asyncTimers = Tokens(d) /\ \A t \in Tokens(d) : ~TimerPending(d.asyncTimers[t])
    BY <1>2, <1>4, <1>5
  <2>3. d.inOrder = <<>> /\ d.ran = <<>> /\ <<>> \in Seq(Tokens(d)) /\ 1..Len(<<>>) = {}
        /\ ~TimerPending(d.inOrderTimer) /\ ~d.runnerSuspended
    BY <1>2, <1>4, <1>14
  <2>4. Ordered(d, {}, {})
    BY <2>1, <2>2, <2>3 DEF Ordered
  <2>5. Executed(d, {})
    BY <1>14, <2>3 DEF Executed
  <2>6. d.late \subseteq Addable(d)
    BY <1>2, <1>5, <1>14, PagesAssumption DEF Addable
  <2> QED BY <2>4, <2>5, <2>6 DEF Logged
<1> QED BY <1>13, <1>15 DEF d

LEMMA NextIdle ==
    ASSUME Idle(doc), Logged(doc, {}), [Next]_vars
    PROVE  /\ Idle(doc') /\ Logged(doc', {})
           /\ doc'.isComplete /\ ~doc.isComplete =>
                 /\ ~doc.parsing
                 /\ doc.requests \subseteq doc.addedSince
                 /\ doc.addedSince = {} => doc.delayCount = 0
           /\ Orderly(doc, doc')
<1>0. ASSUME doc'.ran = doc.ran PROVE Orderly(doc, doc')
  <2>1. doc.ran \in Seq(Tokens(doc))
    BY DEF Logged, Executed
  <2>2. (Len(doc.ran) + 1)..Len(doc'.ran) = {}
    BY <1>0, <2>1
  <2> QED BY <2>2 DEF Orderly
<1>16. ASSUME Advances(doc, doc')
       PROVE  /\ Idle(doc') /\ Logged(doc', {}) /\ doc'.isComplete = doc.isComplete
              /\ Orderly(doc, doc')
  BY <1>0, <1>16 DEF Advances
<1>1. CASE ReceiveData
  BY <1>1, <1>16, ReceiveDataIdle
<1>2. CASE FinishLoading
  BY <1>2, <1>16, FinishLoadingIdle
<1>3. CASE \E s \in doc.requests : ScriptLoaded(s) \/ SheetLoaded(s)
  BY <1>3, <1>16, ScriptLoadedIdle, SheetLoadedIdle
<1>4. CASE ParserTimerDue
  BY <1>4, <1>16, ParserTimerDueIdle
<1>5. CASE ParserTimerFires
  BY <1>5, <1>16, ParserTimerFiresIdle
<1>6. CASE InOrderTimerDue
  BY <1>6, <1>16, InOrderTimerDueIdle
<1>7. CASE InOrderTimerFires
  BY <1>7, InOrderTimerFiresIdle
<1>8. CASE \E s \in DOMAIN doc.page.kind : AsyncTimerDue(s) \/ AsyncTimerFires(s)
  BY <1>8, <1>16, AsyncTimerDueIdle, AsyncTimerFiresIdle
<1>9. CASE LoadedTimerDue
  BY <1>9, <1>16, LoadedTimerDueIdle
<1>10. CASE LoadedTimerFires
  BY <1>0, <1>10, LoadedTimerFiresIdle
<1>11. CASE DelayTimerFires
  BY <1>11, <1>16, DelayTimerFiresIdle
<1>12. CASE ResumeScheduledTasks
  BY <1>12, <1>16, ResumeIdle
<1>13. CASE \E s \in DOMAIN doc.page.kind : PageCodeAddsScript(s)
  BY <1>13, <1>16, PageCodeAddsScriptIdle
<1>14. CASE SuspendScheduledTasks
  BY <1>14, <1>16, SuspendIdle
<1>15. CASE UNCHANGED vars
  BY <1>0, <1>15 DEF vars
<1> QED BY <1>1, <1>2, <1>3, <1>4, <1>5, <1>6, <1>7, <1>8, <1>9, <1>10, <1>11, <1>12, <1>13, <1>14,
           <1>15 DEF Next, Progress

\* Between event actions the invariant holds: the counters of the parser are
\* zero and its input is not split, a parser with input left is paused or
\* scheduled, it waits for at most the script that blocks it, every script of
\* the script runner delays the load event, and the log has the event action
\* in which each of them became ready and those in which the ones to be
\* executed in order were executed.
THEOREM IdleAlways == Spec => [](Idle(doc) /\ Logged(doc, {}))
<1>1. Init => Idle(doc) /\ Logged(doc, {})
  BY InitIdle
<1>2. Idle(doc) /\ Logged(doc, {}) /\ [Next]_vars => (Idle(doc) /\ Logged(doc, {}))'
  BY NextIdle
<1> QED BY <1>1, <1>2, PTL DEF Spec

\* No assertion of HTMLDocumentParser, HTMLScriptRunner, HTMLParserScheduler,
\* ScriptRunner and Document fails, whatever the pages, what fails to load, and
\* when page code adds scripts; but inOrderTimerFired asserts that an element
\* has heard of its load, which one that was denied by access control has not,
\* and takes for granted that there is a script, which need not be so when the
\* timer was started in a suspended document.
THEOREM AssertionsNeverFail == Spec => []AssertionsHold
<1>1. Idle(doc) /\ Logged(doc, {}) => AssertionsHold
  BY DEF Idle, DocOK, FitsBut, Asserted, Logged, Executed, AssertionsHold
<1> QED BY <1>1, IdleAlways, PTL

\* The document becomes complete only when it is parsed, and what is requested
\* or delays the load event then was added since checkCompleted last found
\* nothing outstanding: documentLoadedTimerFired does not look again at what
\* checkCompleted saw when it started the timer, but nothing else is missed.
THEOREM CompleteOnlyWhenDone == Spec => CompleteMeansDone
<1>1. Idle(doc) /\ Logged(doc, {}) /\ [Next]_vars =>
         [(doc'.isComplete /\ ~doc.isComplete) =>
             /\ ~doc.parsing
             /\ doc.requests \subseteq doc.addedSince
             /\ doc.addedSince = {} => doc.delayCount = 0]_vars
  BY NextIdle
<1> QED BY <1>1, IdleAlways, PTL DEF Spec, CompleteMeansDone

\* The log orders every script of the script runner after the event action in
\* which its element heard of its load, if it was not denied and the timer was
\* not started in a suspended document, and a script to be executed in order
\* in any case after the earlier ones, whatever was loaded first, added
\* meanwhile or suspended.
THEOREM RunnerScriptsOrdered == Spec => ScriptsOrdered
<1>1. Idle(doc) /\ Logged(doc, {}) /\ [Next]_vars =>
         [\A k \in (Len(doc.ran) + 1)..Len(doc'.ran) :
             /\ \/ <<"ready", doc'.ran[k]>> \in doc'.now
                \/ doc'.ran[k] \in doc.page.denied
                \/ doc'.strayed
             /\ doc.page.kind[doc'.ran[k]] = "inOrder" =>
                   \A j \in 1..(k - 1) : doc.page.kind[doc'.ran[j]] = "inOrder" =>
                                           <<"ran", doc'.ran[j]>> \in doc'.now]_vars
  BY NextIdle DEF Orderly
<1> QED BY <1>1, IdleAlways, PTL DEF Spec, ScriptsOrdered
=============================================================================
