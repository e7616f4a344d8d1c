------------------------ MODULE HTMLDocumentParser ------------------------
(***************************************************************************)
(* The HTML parser, its scheduler and the scripts it executes itself.      *)
(* WebERA makes it yield after every token, so that each token is built in *)
(* an event action of its own.                                             *)
(*                                                                         *)
(* A script that runs in the parser calls it back (document.write), to any *)
(* depth.  What a function does after such a call is left on a stack, the  *)
(* last element of which is done next (step); an event action is over when *)
(* the stack is empty.  The input is a stack of token sequences: the first *)
(* is read and written to, the last one gets what the network delivers.    *)
(***************************************************************************)
EXTENDS ScriptRunner

\* HTMLScriptRunner::haveParsingBlockingScript
haveParsingBlockingScript(d) == d.blocking # NoToken

isStopped(d) == d.state = "detached"
hasInsertionPoint(d) == Len(d.input) > 1

\* HTMLParserScheduler::isScheduledForResume
isScheduledForResume(d) == d.parserSuspended \/ isActive(d.parserTimer)

\* Mutant: a parser that will be resumed by its timer may be ended.
shouldDelayEndUnscheduled(d) == d.pumps > 0 \/ d.paused \/ d.nesting > 0

\* shouldDelayEnd
shouldDelayEnd(d) ==
    d.pumps > 0 \/ d.paused \/ isScheduledForResume(d) \/ d.nesting > 0

\* Every entry of the parser records that it changes the input.
modifiesInput(d) == [addArc(d, d.lastParse) EXCEPT !.inputJoin = @ \cup Now]

\* HTMLPreloadScanner::scan: requests the scripts and style sheets ahead of a
\* paused parser.
scanPreloads(d) ==
    LET ahead == UNION {{d.input[i][k] : k \in 1..Len(d.input[i])} : i \in 1..Len(d.input)}
    IN  IF ~d.paused THEN d
        ELSE request(d, {t \in ahead : d.page.kind[t] \in {"external", "defer", "async", "sheet"}})

\* HTMLInputStream::splitInto and mergeFrom, of an InsertionPointRecord.
splitInput(d) == [d EXCEPT !.input = << <<>> >> \o @]
mergeInput(d) == [d EXCEPT !.input = <<@[1] \o @[2]>> \o SubSeq(@, 3, Len(@))]

\* HTMLTreeBuilder::constructTreeFromToken: a script pauses the parser; a style
\* sheet is requested, and is pending unless it has been preloaded.
constructTreeFromToken(d) ==
    LET token == Head(d.input[1])
        kind == d.page.kind[token]
        built == [d EXCEPT !.input[1] = Tail(@), !.tree = Append(@, token),
                           !.now = @ \cup {<<"built", token>>}]
    IN  IF kind \in {"inline", "external", "defer", "async"}
        THEN [built EXCEPT !.paused = TRUE, !.script = token]
        ELSE IF kind = "sheet"
        THEN [request(built, {token}) EXCEPT !.sheets = @ \cup ({token} \ d.loaded)]
        ELSE built

-----------------------------------------------------------------------------
(* The pump. *)

\* The document d, in which name(arg) is done when what is called now returns.
later(d, name, arg) == [d EXCEPT !.calls = Append(@, [name |-> name, arg |-> arg])]

\* HTMLParserScheduler::scheduleForResume
scheduleForResume(d) == [d EXCEPT !.parserTimer = startOneShot(@)]

\* Mutant: the parsing event actions are not chained.
chainUnchained(d) == [d EXCEPT !.lastNonInserted = Now]

\* pumpTokenizer: the order with the previous parsing event action.
chain(d) ==
    IF hasInsertionPoint(d) THEN addArc(d, d.lastParse)
    ELSE [addArc(d, d.lastNonInserted) EXCEPT !.lastNonInserted = Now]

\* pumpTokenizer: its loop is takeTokens.
pumpTokenizer(d, mode) ==
    LET allowed == check(d, ~isStopped(d) /\ ~isScheduledForResume(d))
        joined == [addArc(chain(allowed), d.inputJoin)
                      EXCEPT !.inputJoin = {}, !.lastParse = Now, !.pumps = @ + 1]
    IN  later(later(joined, "endPump", NoToken), "takeTokens", mode)

\* The end of pumpTokenizer.
endPump(d) == scanPreloads([d EXCEPT !.pumps = @ - 1])

\* pumpTokenizerIfPossible
pumpTokenizerIfPossible(d, mode) ==
    IF isStopped(d) \/ d.paused THEN d
    ELSE IF isScheduledForResume(d) THEN check(d, mode = "AllowYield")
    ELSE pumpTokenizer(d, mode)

\* The loop of pumpTokenizer: a pump that may yield takes one token and leaves
\* the rest to the timer.
takeNextToken(d, mode) ==
    IF isStopped(d) \/ d.paused \/ d.input[1] = <<>> THEN d
    ELSE IF mode = "AllowYield" THEN scheduleForResume(constructTreeFromToken(d))
    ELSE later(constructTreeFromToken(d), "takeTokens", mode)

-----------------------------------------------------------------------------
(* Scripts. *)

\* Mutant: what a script writes goes after what the network delivered.
insertLast(d, tokens) ==
    LET modified == modifiesInput(d)
    IN  IF isStopped(d) THEN modified
        ELSE pumpTokenizerIfPossible(
                 later([modified EXCEPT !.input[Len(d.input)] = @ \o tokens], "endInsert", NoToken),
                 "ForceSynchronous")

\* insert: document.write
insert(d, tokens) ==
    LET modified == modifiesInput(d)
    IN  IF isStopped(d) THEN modified
        ELSE pumpTokenizerIfPossible(
                 later([modified EXCEPT !.input[1] = @ \o tokens], "endInsert", NoToken),
                 "ForceSynchronous")

\* ScriptElement::executeScript of a script the parser runs: the script
\* writes into the document, if there is a place to write at, and then adds
\* scripts to it.
executeScript(d, script) ==
    LET started == later([d EXCEPT !.tree = Append(@, script), !.now = @ \cup {<<"ran", script>>}],
                         "insertScripts", script)
    IN  IF hasInsertionPoint(d) /\ d.page.writes[script] # <<>>
        THEN insert(started, d.page.writes[script])
        ELSE started

\* The end of a NestingLevelIncrementer, which must be the outermost one.
leaveOutermost(d) == check([d EXCEPT !.nesting = @ - 1], d.nesting = 1)

\* ScriptElement::dispatchErrorEvent, in place of the execution of a script.
dispatchErrorEvent(d, script) ==
    [d EXCEPT !.tree = Append(@, script), !.now = @ \cup {<<"ran", script>>}]

\* HTMLScriptRunner::executePendingScriptAndDispatchEvent
executePendingScript(d, script) ==
    LET ordered == IF script \in d.loaded THEN addArc(d, d.loadAction[script]) ELSE d
        entered == later([ordered EXCEPT !.watching = @ \ {script}, !.nesting = @ + 1],
                         "leaveOutermost", NoToken)
    IN  IF script \in d.page.failing THEN dispatchErrorEvent(entered, script)
        ELSE executeScript(entered, script)

\* Mutant: style sheets do not keep a script back.
isPendingScriptReadyUnstyled(d, script) ==
    d.page.kind[script] = "inline" \/ script \in d.loaded

\* HTMLScriptRunner::isPendingScriptReady
isPendingScriptReady(d, script) ==
    d.sheets = {} /\ (d.page.kind[script] = "inline" \/ script \in d.loaded)

\* HTMLScriptRunner::executeParsingBlockingScripts, one round of its loop
executeParsingBlockingScripts(d) ==
    LET asked == [d EXCEPT !.waitsForSheets = d.sheets # {}]
        script == d.blocking
    IN  IF ~haveParsingBlockingScript(d) THEN d
        ELSE IF ~isPendingScriptReady(asked, script) THEN asked
        ELSE executePendingScript(later(splitInput([check(asked, d.nesting = 0)
                                                       EXCEPT !.blocking = NoToken]),
                                        "nextBlockingScript", NoToken), script)

\* The end of executeParsingBlockingScript, and the next round.
nextBlockingScript(d) == executeParsingBlockingScripts(mergeInput(d))

\* ScriptElement::prepareScript and what runScript does with its answer.
prepareScript(d, script) ==
    CASE d.page.kind[script] = "inline" ->
           IF d.sheets = {} \/ d.nesting > 1
           THEN executeScript(d, script)
           ELSE [d EXCEPT !.blocking = script]
      [] d.page.kind[script] = "external" ->
           [request(d, {script}) EXCEPT
               !.blocking = script,
               !.watching = IF script \in d.loaded THEN @ ELSE @ \cup {script}]
      [] d.page.kind[script] = "defer" ->
           [request(d, {script}) EXCEPT !.afterParsing = Append(@, script)]
      [] d.page.kind[script] = "async" -> queueScriptForExecution(d, script)

\* HTMLScriptRunner::execute and runScript
execute(d, script) ==
    LET opened == later(splitInput(check(d, ~haveParsingBlockingScript(d))), "endRunScript", NoToken)
    IN  prepareScript([opened EXCEPT !.nesting = @ + 1], script)

\* The end of runScript and of execute: after the outermost script those that
\* block the parser are executed.
executeBlockingIfOutermost(d) == IF d.nesting = 0 THEN executeParsingBlockingScripts(d) ELSE d
endRunScript(d) == executeBlockingIfOutermost([mergeInput(d) EXCEPT !.nesting = @ - 1])

\* runScriptsForPausedTreeBuilder
runScriptsForPausedTreeBuilder(d) ==
    execute([check(d, d.script # NoToken) EXCEPT !.paused = FALSE, !.script = NoToken], d.script)

\* canTakeNextToken runs the script the parser is paused for, and pauses the
\* parser again if a script blocks it.
takeTokens(d, mode) ==
    IF d.paused THEN runScriptsForPausedTreeBuilder(later(d, "pauseIfBlocked", mode))
    ELSE takeNextToken(d, mode)
pauseIfBlocked(d, mode) ==
    takeNextToken([d EXCEPT !.paused = haveParsingBlockingScript(d)], mode)

-----------------------------------------------------------------------------
(* The end of the document. *)

\* end, Document::finishedParsing and FrameLoader::finishedParsing: the page's
\* code is told that the document is parsed, and may add scripts to it.
end(d) ==
    LET parsed == [check(d, ~isStopped(d) /\ ~isScheduledForResume(d))
                      EXCEPT !.parsing = FALSE, !.parsingJoin = @ \cup Now]
    IN  checkCompleted(insertScripts(parsed, d.page.onContentLoaded))

\* HTMLScriptRunner::executeScriptsWaitingForParsing, one round of its loop
executeScriptsWaitingForParsing(d) ==
    LET first == Head(d.afterParsing)
        round == check(d, d.nesting = 0 /\ ~haveParsingBlockingScript(d))
    IN  IF d.afterParsing = <<>> THEN d
        ELSE IF first \notin d.loaded
        THEN [check(round, first \notin d.watching) EXCEPT !.watching = @ \cup {first}]
        ELSE executePendingScript(later([round EXCEPT !.afterParsing = Tail(@)],
                                        "executeScriptsWaitingForParsing", NoToken), first)

\* attemptToRunDeferredScriptsAndEnd
attemptToRunDeferredScriptsAndEnd(d) ==
    executeScriptsWaitingForParsing(later(check(d, d.state = "stopping" /\ ~hasInsertionPoint(d)),
                                          "endIfNoneDeferred", NoToken))
endIfNoneDeferred(d) == IF d.afterParsing = <<>> THEN end(d) ELSE d

\* prepareToStopParsing
prepareToStopParsing(d) ==
    pumpTokenizerIfPossible(later(check(d, ~hasInsertionPoint(d)), "stopParsing", NoToken),
                            "ForceSynchronous")
stopParsing(d) ==
    IF isStopped(d) THEN d
    ELSE attemptToRunDeferredScriptsAndEnd(
             [check(d, d.state = "parsing") EXCEPT !.state = "stopping"])

\* attemptToEnd
attemptToEnd(d) ==
    IF shouldDelayEnd(d) THEN [d EXCEPT !.endDelayed = TRUE] ELSE prepareToStopParsing(d)

\* endIfDelayed
endIfDelayed(d) ==
    IF isStopped(d) \/ ~d.endDelayed \/ shouldDelayEnd(d) THEN d
    ELSE prepareToStopParsing([d EXCEPT !.endDelayed = FALSE])

\* The end of insert.
endInsert(d) == endIfDelayed(scanPreloads(d))

-----------------------------------------------------------------------------
(* The entries of the parser. *)

\* append: data from the network
append(d, tokens) ==
    LET modified == modifiesInput(d)
    IN  IF isStopped(d) THEN modified
        ELSE pumpTokenizerIfPossible(
                 scanPreloads(later([modified EXCEPT !.input[Len(d.input)] = @ \o tokens],
                                    "endIfDelayed", NoToken)),
                 "AllowYield")

\* finish: the end of the data from the network
finish(d, eof) == attemptToEnd([modifiesInput(d) EXCEPT !.input[Len(d.input)] = Append(@, eof)])

\* HTMLParserScheduler::continueNextChunkTimerFired and resumeParsingAfterYield
resumeParsingAfterYield(d) == pumpTokenizer(later(d, "endIfDelayed", NoToken), "AllowYield")

\* resumeParsingAfterScriptExecution
resumeParsingAfterScriptExecution(d) ==
    pumpTokenizerIfPossible(
        later(modifiesInput(check(d, d.nesting = 0 /\ ~d.paused)), "endIfDelayed", NoToken),
        "AllowYield")

\* notifyFinished and executeScriptsWaitingForStylesheets, and their ends.
unpause(d) ==
    executeParsingBlockingScripts(
        later([check(d, d.paused /\ d.nesting = 0) EXCEPT !.paused = FALSE],
              "resumeUnlessBlocked", NoToken))
resumeUnlessBlocked(d) ==
    IF haveParsingBlockingScript(d) THEN [d EXCEPT !.paused = TRUE]
    ELSE resumeParsingAfterScriptExecution([d EXCEPT !.paused = FALSE])

\* notifyFinished: a script the parser waits for has been loaded.
notifyFinished(d, script) ==
    LET modified == modifiesInput(check(d, d.nesting = 0))
    IN  IF d.state = "stopping" THEN attemptToRunDeferredScriptsAndEnd(modified)
        ELSE unpause(check(modified, d.blocking = script))

\* executeScriptsWaitingForStylesheets
executeScriptsWaitingForStylesheets(d) ==
    IF d.waitsForSheets THEN unpause([d EXCEPT !.inputJoin = @ \cup Now]) ELSE d

\* HTMLParserScheduler::suspend
suspendParser(d) ==
    IF isActive(d.parserTimer)
    THEN [d EXCEPT !.parserSuspended = TRUE, !.parserTimer = stopTimer(@)]
    ELSE d

\* HTMLParserScheduler::resume
resumeParser(d) ==
    IF d.parserSuspended
    THEN [d EXCEPT !.parserSuspended = FALSE, !.parserTimer = startOneShot(@)]
    ELSE d

-----------------------------------------------------------------------------
(* The stack. *)

\* What the last element of the stack stands for is done.
step(d) ==
    LET top == d.calls[Len(d.calls)]
        rest == [d EXCEPT !.calls = SubSeq(@, 1, Len(@) - 1)]
    IN  CASE top.name = "takeTokens" -> takeTokens(rest, top.arg)
          [] top.name = "pauseIfBlocked" -> pauseIfBlocked(rest, top.arg)
          [] top.name = "endPump" -> endPump(rest)
          [] top.name = "endInsert" -> endInsert(rest)
          [] top.name = "insertScripts" -> insertScripts(rest, d.page.inserts[top.arg])
          [] top.name = "leaveOutermost" -> leaveOutermost(rest)
          [] top.name = "nextBlockingScript" -> nextBlockingScript(rest)
          [] top.name = "endRunScript" -> endRunScript(rest)
          [] top.name = "executeScriptsWaitingForParsing" -> executeScriptsWaitingForParsing(rest)
          [] top.name = "endIfNoneDeferred" -> endIfNoneDeferred(rest)
          [] top.name = "stopParsing" -> stopParsing(rest)
          [] top.name = "endIfDelayed" -> endIfDelayed(rest)
          [] top.name = "resumeUnlessBlocked" -> resumeUnlessBlocked(rest)
          [] top.name = "releaseResources" -> releaseResources(rest, top.arg)

\* The stack is emptied, in at most max steps.
run(d, max) ==
    LET after[n \in 0..max] ==
          IF n = 0 THEN d
          ELSE LET before == after[n - 1] IN IF before.calls = <<>> THEN before ELSE step(before)
    IN  after[max]
=============================================================================
