------------------------- MODULE NetworkReplyHandler -------------------------
(***************************************************************************)
(* How one load consumes the signals of its replies: QNetworkReplyHandler, *)
(* its QNetworkReplyWrapper and the queue of calls between them            *)
(* (QNetworkReplyHandler.cpp, QtMIMETypeSniffer.cpp, ResourceHandleQt.cpp).*)
(*                                                                         *)
(* An event (a signal of the reply, a posted flush, a call of the page)    *)
(* pushes calls of the handler; flush then runs them one by one, and each  *)
(* may call the client, who may abort the load, defer it or leave it from  *)
(* within the callback.  The lock of the queue is held inside one event    *)
(* only: calls pushed by an event run after it.                            *)
(***************************************************************************)
EXTENDS Naturals, Sequences, SequencesExt

CONSTANTS
    MaxRedirections,    \* gMaxRedirections
    SniffSize,          \* QtMIMETypeSniffer: bytes it waits for, at most
    MaxBytes,           \* bound: bytes of one reply
    MaxDefers,          \* bound: how often the page defers the load
    AbortsUnstarted,    \* the page aborts a load whose start is queued
    LateErrors          \* replies without a status (not HTTP) fail after their first byte

ASSUME HandlerAssumption ==
    /\ MaxRedirections \in Nat \ {0}
    /\ {SniffSize, MaxBytes, MaxDefers} \subseteq Nat
    /\ {AbortsUnstarted, LateErrors} \subseteq BOOLEAN

VARIABLES
    queue,      \* QNetworkReplyHandlerCallQueue: [calls, defer, flushing, posted]
    wrapper,    \* m_replyWrapper with its reply, or NoWrapper
    job,        \* [handle, client, deleted, sync, sniffs, tries, defers]
    told,       \* the callbacks of the client so far
    forwarded,  \* bytes of the current reply given to the client
    failed      \* the assertion that failed, or "none"

vars == <<queue, wrapper, job, told, forwarded, failed>>

NoWrapper == [none |-> TRUE]

\* A reply of which no signal was seen yet.  Whether it has a status code (it is HTTP) and
\* is a redirection (only HTTP has them) shows in its first snapshot.  Of its size bytes,
\* a signal that makes the wrapper read has announced the first ones.
NewWrapper(redirect, http) ==
    [redirect |-> redirect, http |-> http, size |-> 0, announced |-> 0, pos |-> 0, error |-> "no",
     finished |-> FALSE, contains |-> FALSE, sniffing |-> FALSE, conn |-> "receiveMetaData"]

Errors(http, size) ==
    IF http \/ LateErrors \/ size = 0 THEN {"no", "yes"} ELSE {"no"}

\* The ends of the reply of w with that many bytes
Ends(w, size, announced) ==
    {[w EXCEPT !.finished = TRUE, !.size = size, !.announced = announced, !.error = error] :
        error \in Errors(w.http, size)}

TypeOK ==
    /\ queue \in [calls : Seq({"start", "sendResponseIfNeeded", "forwardData", "finish"}),
                  defer : BOOLEAN, flushing : BOOLEAN, posted : BOOLEAN]
    /\ wrapper = NoWrapper \/
       wrapper \in [redirect : BOOLEAN, http : BOOLEAN, size : 0..MaxBytes, announced : 0..MaxBytes,
                    pos : 0..MaxBytes, error : {"no", "yes"}, finished : BOOLEAN,
                    contains : BOOLEAN, sniffing : BOOLEAN, conn : {"receiveMetaData", "didReceive", "none"}]
    /\ job \in [handle : BOOLEAN, client : BOOLEAN, deleted : BOOLEAN, sync : BOOLEAN,
                sniffs : BOOLEAN, tries : 0..MaxRedirections, defers : 0..MaxDefers]
    /\ told \in Seq({"response", "data", "redirect", "finish", "fail"})
    /\ forwarded \in 0..MaxBytes

\* The constructor pushes start.  A synchronous load is deferred until the handle knows the
\* handler and then released at once.
Init ==
    /\ \E defer, sync, sniffs \in BOOLEAN :
         /\ sync => ~defer
         /\ queue = [calls |-> <<"start">>, defer |-> defer, flushing |-> TRUE, posted |-> FALSE]
         /\ job = [handle |-> TRUE, client |-> TRUE, deleted |-> FALSE, sync |-> sync,
                   sniffs |-> sniffs, tries |-> MaxRedirections, defers |-> 0]
    /\ wrapper = NoWrapper
    /\ told = <<>> /\ forwarded = 0 /\ failed = "none"

-----------------------------------------------------------------------------
(* The wrapper.  Each operator gives the wrapper after it and the calls it pushes. *)

\* Mutant: the data is forwarded first.
emitMetaDataChangedDataFirst(w) ==
    [w |-> [w EXCEPT !.contains = w.size > w.pos, !.sniffing = FALSE,
                     !.conn = IF w.finished THEN "none" ELSE "didReceive"],
     calls |-> <<"forwardData", "sendResponseIfNeeded">>
               \o (IF w.finished THEN <<"finish">> ELSE <<>>)]

\* Mutant: the data that came with the headers is left to the next signal.
emitMetaDataChangedHeadersOnly(w) ==
    [w |-> [w EXCEPT !.contains = w.size > w.pos, !.sniffing = FALSE,
                     !.conn = IF w.finished THEN "none" ELSE "didReceive"],
     calls |-> <<"sendResponseIfNeeded">> \o (IF w.finished THEN <<"finish">> ELSE <<>>)]

emitMetaDataChanged(w) ==
    LET data == w.size > w.pos
    IN  [w |-> [w EXCEPT !.contains = data, !.sniffing = FALSE,
                         !.conn = IF w.finished THEN "none" ELSE "didReceive"],
         calls |-> <<"sendResponseIfNeeded">>
                   \o (IF data THEN <<"forwardData">> ELSE <<>>)
                   \o (IF w.finished THEN <<"finish">> ELSE <<>>)]

\* QtMIMETypeSniffer::sniff
Sniffed(w) == w.finished \/ w.size - w.pos >= SniffSize

receiveMetaData(w) ==
    LET off == [w EXCEPT !.conn = "none"]
    IN  IF w.redirect THEN [w |-> off, calls |-> <<"sendResponseIfNeeded", "finish">>]
        ELSE IF ~job.sniffs \/ Sniffed(w) THEN emitMetaDataChanged(off)
        ELSE [w |-> [off EXCEPT !.sniffing = TRUE], calls |-> <<>>]

trySniffing(w) ==
    IF Sniffed(w) THEN emitMetaDataChanged(w) ELSE [w |-> w, calls |-> <<>>]

didReceiveReadyRead(w) ==
    [w |-> [w EXCEPT !.contains = @ \/ w.size > w.pos], calls |-> <<"forwardData">>]

didReceiveFinished(w) ==
    [w |-> [w EXCEPT !.conn = "none"], calls |-> <<"finish">>]

\* The slots connected to a signal of the reply, in their order
Received(w, signal) ==
    IF w.conn = "receiveMetaData" THEN receiveMetaData(w)
    ELSE IF w.sniffing THEN trySniffing(w)
    ELSE IF w.conn = "none" THEN [w |-> w, calls |-> <<>>]
    ELSE IF signal = "finished" THEN didReceiveFinished(w)
    ELSE didReceiveReadyRead(w)

-----------------------------------------------------------------------------
(* Events.  They come from the event loop of Qt, when no call is running. *)

Quiet == ~queue.flushing /\ ~job.deleted /\ failed = "none"

\* push for each of the calls, with the flush that ends it
Push(calls) == queue' = [queue EXCEPT !.calls = @ \o calls, !.flushing = TRUE]

ReadyRead ==
    /\ Quiet /\ wrapper # NoWrapper
    /\ ~wrapper.finished
    /\ \E size \in wrapper.size + 1..MaxBytes :
         LET w == [wrapper EXCEPT !.size = size, !.announced = size]
             after == Received(w, "readyRead")
         IN  wrapper' = after.w /\ Push(after.calls)
    /\ UNCHANGED <<job, told, forwarded, failed>>

\* setFinished is connected first.  The snapshot of the end takes what the reply still holds;
\* a wrapper that reads already is not told of these bytes.
Finished ==
    /\ Quiet /\ wrapper # NoWrapper
    /\ ~wrapper.finished
    /\ \E size \in wrapper.size..MaxBytes :
         LET announced == IF wrapper.conn = "didReceive" THEN wrapper.announced ELSE size
         IN  \E w \in Ends(wrapper, size, announced) :
               LET after == Received(w, "finished")
               IN  wrapper' = after.w /\ Push(after.calls)
    /\ UNCHANGED <<job, told, forwarded, failed>>

\* The flush that setDeferSignals posted
PostedFlush ==
    /\ Quiet /\ queue.posted
    /\ queue' = [queue EXCEPT !.posted = FALSE, !.flushing = TRUE]
    /\ UNCHANGED <<wrapper, job, told, forwarded, failed>>

\* Effects of the page on the load, on their own or from within a callback: what they do
\* to q, the queue, w, the wrapper, and j, the job.
\* Mutant: no flush is posted.
setDeferSignalsQuietly(q, defer) == [q EXCEPT !.defer = defer]

setDeferSignals(q, defer) == [q EXCEPT !.defer = defer, !.posted = TRUE]

\* Mutant: the destructor of the wrapper leaves the queue alone.
DroppedKeepingCalls(q, w) == q

\* The destructor of the wrapper clears the queue; release without a wrapper does not.
Dropped(q, w) == IF w = NoWrapper THEN q ELSE [q EXCEPT !.calls = <<>>]

Unstarted(q) == \E i \in DOMAIN q.calls : q.calls[i] = "start"

MayAbort == job.handle /\ (Unstarted(queue) => AbortsUnstarted)

abort(q, w, j) ==
    [q |-> Dropped(q, w), w |-> NoWrapper, j |-> [j EXCEPT !.handle = FALSE]]

SetDefers(defer) ==
    /\ Quiet /\ job.handle /\ ~job.sync
    /\ queue.defer # defer
    /\ defer => job.defers < MaxDefers
    /\ queue' = setDeferSignals(queue, defer)
    /\ job' = IF defer THEN [job EXCEPT !.defers = @ + 1] ELSE job
    /\ UNCHANGED <<wrapper, told, forwarded, failed>>

Abort ==
    /\ Quiet /\ MayAbort
    /\ LET after == abort(queue, wrapper, job)
       IN  queue' = after.q /\ wrapper' = after.w /\ job' = after.j
    /\ UNCHANGED <<told, forwarded, failed>>

\* ResourceLoader::releaseResources: setClient(0)
ClearClient ==
    /\ Quiet /\ job.handle /\ job.client
    /\ job' = [job EXCEPT !.client = FALSE]
    /\ UNCHANGED <<queue, wrapper, told, forwarded, failed>>

\* deleteLater, after the events that were posted before
Delete ==
    /\ Quiet /\ ~job.handle /\ ~queue.posted
    /\ job' = [job EXCEPT !.deleted = TRUE]
    /\ UNCHANGED <<queue, wrapper, told, forwarded, failed>>

-----------------------------------------------------------------------------
(* flush.  A call is taken from the queue and run; the client may react. *)

Rest == [queue EXCEPT !.calls = Tail(@)]

Fails(assertion) ==
    /\ failed' = assertion
    /\ UNCHANGED <<queue, wrapper, job, told, forwarded>>

\* What the client may do from within a callback, and the state after it
Reactions(q, w, j) ==
    {[q |-> q, w |-> w, j |-> j]}
    \cup (IF j.sync THEN {} ELSE
            {abort(q, w, j), [q |-> q, w |-> w, j |-> [j EXCEPT !.client = FALSE]]})
    \cup (IF j.sync \/ q.defer \/ j.defers = MaxDefers THEN {} ELSE
            {[q |-> setDeferSignals(q, TRUE), w |-> w, j |-> [j EXCEPT !.defers = @ + 1]]})

\* The call, with queue q, wrapper w and job j, tells the client and ends as Then says.
Tells(callback, q, w, j, Then(_)) ==
    /\ told' = Append(told, callback)
    /\ \E after \in Reactions(q, w, j) :
         LET end == Then(after)
         IN  queue' = end.q /\ wrapper' = end.w /\ job' = end.j
    /\ UNCHANGED failed

Returns(s) == s
DropsWrapper(s) == [s EXCEPT !.q = Dropped(s.q, s.w), !.w = NoWrapper]

\* start; without a context there is no reply, and the load stays silent.
Start ==
    \/ ~job.handle /\ Fails("start")
    \/ /\ job.handle
       /\ \/ queue' = Rest /\ UNCHANGED wrapper
          \/ \E redirect, http \in BOOLEAN :
               LET new == NewWrapper(redirect, http)
               IN  /\ redirect => http
                   /\ IF ~job.sync
                      THEN wrapper' = new /\ queue' = Rest
                      ELSE \E size \in 0..MaxBytes : \E w \in Ends(new, size, size) :
                             LET first == receiveMetaData(w)
                             IN  /\ wrapper' = first.w
                                 /\ queue' = [Rest EXCEPT !.calls = @ \o first.calls]
       /\ forwarded' = 0
       /\ UNCHANGED <<job, told, failed>>

Asserted == job.handle /\ wrapper # NoWrapper

Redirect ==
    LET j == [job EXCEPT !.tries = @ - 1]
    IN  IF j.tries = 0
        THEN Tells("fail", Rest, wrapper, j, DropsWrapper)
        ELSE Tells("redirect", Rest, wrapper, j, Returns)

SendResponseIfNeeded ==
    \/ ~Asserted /\ Fails("sendResponseIfNeeded")
    \/ /\ Asserted
       /\ UNCHANGED forwarded
       /\ IF (wrapper.error = "yes" /\ ~wrapper.http) \/ ~job.client
          THEN queue' = Rest /\ UNCHANGED <<wrapper, job, told, failed>>
          ELSE IF wrapper.redirect THEN Redirect
          ELSE Tells("response", Rest, wrapper, job, Returns)

ForwardData ==
    LET bytes == wrapper.size - wrapper.pos
        read == [wrapper EXCEPT !.pos = wrapper.size]
    IN  \/ (~Asserted \/ wrapper.redirect) /\ Fails("forwardData")
        \/ /\ Asserted /\ ~wrapper.redirect
           /\ IF ~job.client \/ bytes = 0
              THEN queue' = Rest /\ wrapper' = read /\ UNCHANGED <<job, told, forwarded, failed>>
              ELSE forwarded' = forwarded + bytes /\ Tells("data", Rest, read, job, Returns)

\* The status is looked at here only, so it is chosen here: none, 401 or 407, another of
\* 400 to 599, or any other.
StatusCodes(http) == IF http THEN {"unauthorized", "error", "other"} ELSE {"none"}

shouldIgnoreHttpError(status, receivedData) ==
    status = "unauthorized" \/ (status = "error" /\ receivedData)

Finish ==
    \/ ~Asserted /\ Fails("finish")
    \/ /\ Asserted
       /\ UNCHANGED forwarded
       /\ IF ~job.client
          THEN /\ queue' = Dropped(Rest, wrapper) /\ wrapper' = NoWrapper
               /\ UNCHANGED <<job, told, failed>>
          ELSE IF wrapper.redirect
          THEN /\ queue' = [Dropped(Rest, wrapper) EXCEPT !.calls = <<"start">>]
               /\ wrapper' = NoWrapper
               /\ UNCHANGED <<job, told, failed>>
          ELSE \E status \in StatusCodes(wrapper.http) :
                 LET well == \/ wrapper.error = "no"
                             \/ shouldIgnoreHttpError(status, wrapper.contains)
                 IN  Tells(IF well THEN "finish" ELSE "fail", Rest, wrapper, job, DropsWrapper)

Runnable == queue.flushing /\ ~queue.defer /\ queue.calls # <<>> /\ failed = "none"

Run(call, Body) == Runnable /\ Head(queue.calls) = call /\ Body

EndFlush ==
    /\ queue.flushing /\ failed = "none"
    /\ queue.defer \/ queue.calls = <<>>
    /\ queue' = [queue EXCEPT !.flushing = FALSE]
    /\ UNCHANGED <<wrapper, job, told, forwarded, failed>>

RunCall ==
    \/ Run("start", Start)
    \/ Run("sendResponseIfNeeded", SendResponseIfNeeded)
    \/ Run("forwardData", ForwardData)
    \/ Run("finish", Finish)

Next ==
    \/ ReadyRead \/ Finished \/ PostedFlush
    \/ \E defer \in BOOLEAN : SetDefers(defer)
    \/ Abort \/ ClearClient \/ Delete
    \/ RunCall \/ EndFlush

(* The event loop of Qt delivers what is posted, the network ends every reply, and a page *)
(* that has deferred its loads resumes them.                                              *)
Spec ==
    /\ Init /\ [][Next]_vars
    /\ WF_vars(RunCall) /\ WF_vars(EndFlush) /\ WF_vars(PostedFlush)
    /\ WF_vars(Finished) /\ WF_vars(SetDefers(FALSE))

-----------------------------------------------------------------------------
Count(callback) == Len(SelectSeq(told, LAMBDA c : c = callback))

(* The client hears of redirections, then of one response, then of data, then of one end,
   and of nothing after it, whatever it does in its callbacks. *)
CallbacksInOrder ==
    /\ \A i, j \in DOMAIN told : i < j =>
         /\ told[i] \notin {"finish", "fail"}
         /\ told[i] = "response" => told[j] # "response"
         /\ told[j] = "redirect" => told[i] = "redirect"
    /\ \A i \in DOMAIN told :
         told[i] \in {"data", "finish"} => \E j \in 1..i - 1 : told[j] = "response"

(* A load that ends well has given the client every byte that came with the headers, with a
   readyRead of the reply or with an end that is its first signal, however signals, deferrals
   and flushes interleave.  (Qt announces every byte; bytes that only the end of a reply
   brings to a wrapper that reads already would be lost, unless a call waits to read them.) *)
NoByteLost ==
    [][told' # told /\ Last(told') = "finish" =>
         forwarded \in wrapper.announced..wrapper.size]_vars

(* No assertion of the handler fails, no call runs for an aborted load, and nothing leaves
   its range: the number of redirections is limited. *)
AssertionsHold == failed = "none" /\ TypeOK

(* Every load comes to an end the client hears of, unless the client aborts or leaves it, or
   it cannot be started: no call is left in the queue when the flush that should run it is
   gone. *)
LoadEnds ==
    <>[](\/ Count("finish") + Count("fail") = 1
         \/ ~job.handle \/ ~job.client
         \/ wrapper = NoWrapper /\ ~Unstarted(queue))

=============================================================================
