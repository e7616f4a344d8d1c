---------------------- MODULE NetworkReplyHandler_proofs ----------------------
(***************************************************************************)
(* Proofs about NetworkReplyHandler: no assertion of the handler fails,    *)
(* the client hears its callbacks in order, and a load that ends well has  *)
(* lost no byte it heard of, for any number of redirections, bytes and      *)
(* deferrals.                                                              *)
(* The hypotheses on AbortsUnstarted and LateErrors are those of the run:  *)
(* a load aborted before its start, and a failure of a reply without a     *)
(* status after its first byte, are what the code does not handle.         *)
(*                                                                         *)
(* The argument: how far the wrapper is with its reply determines what may *)
(* stand in the queue (CallsFit), and both determine what the client was   *)
(* told so far (ToldFits).  The parts of the invariant take the state as   *)
(* parameters, because a callback of the client changes it in mid-call.    *)
(***************************************************************************)
EXTENDS NetworkReplyHandler, SequenceTheorems, TLAPS

Calls == {"start", "sendResponseIfNeeded", "forwardData", "finish"}
Callbacks == {"response", "data", "redirect", "finish", "fail"}
Queues == [calls : Seq(Calls), defer : BOOLEAN, flushing : BOOLEAN, posted : BOOLEAN]
Wrappers ==
    [redirect : BOOLEAN, http : BOOLEAN, size : 0..MaxBytes, announced : 0..MaxBytes,
     pos : 0..MaxBytes, error : {"no", "yes"}, finished : BOOLEAN, contains : BOOLEAN,
     sniffing : BOOLEAN, conn : {"receiveMetaData", "didReceive", "none"}]
Jobs ==
    [handle : BOOLEAN, client : BOOLEAN, deleted : BOOLEAN, sync : BOOLEAN,
     sniffs : BOOLEAN, tries : 0..MaxRedirections, defers : 0..MaxDefers]

\* The wrapper has not pushed the response yet.
Unsent(w) == w.conn = "receiveMetaData" \/ w.sniffing

Queued(call, c) == \E i \in DOMAIN c : c[i] = call
OnlyRedirects(t) == \A i \in DOMAIN t : t[i] = "redirect"
NotEnded(t) == \A i \in DOMAIN t : t[i] \notin {"finish", "fail"}
ResponseTold(t) == \E i \in DOMAIN t : t[i] = "response"

\* Calls of one reply: the response first, the end last, no start between them.
InOrder(c) ==
    \A i \in DOMAIN c :
        /\ c[i] # "start"
        /\ c[i] = "sendResponseIfNeeded" => i = 1
        /\ c[i] = "finish" => i = Len(c)

\* Without a wrapper the queue is empty or holds the start of a live load.
IdleFits(c, j, t) ==
    /\ c \in {<<>>, <<"start">>}
    /\ c = <<"start">> => j.handle /\ j.tries > 0 /\ OnlyRedirects(t)

\* With one, the load is live, the bytes read were forwarded unless the client has left, and
\* a reply without a status fails before its first byte.
Live(w, j, t, f) ==
    /\ j.handle /\ j.tries > 0
    /\ w.pos <= w.size /\ f <= w.pos /\ w.announced <= w.size
    /\ j.client => f = w.pos
    /\ w.error = "yes" => w.finished
    /\ w.error = "yes" /\ ~w.http => LateErrors \/ w.size = 0
    /\ NotEnded(t)

\* The queued calls are those the phase of the wrapper allows.
CallsFit(c, w) ==
    /\ w.redirect => ~w.sniffing /\ ~Queued("forwardData", c)
    /\ Unsent(w) => c = <<>>
    /\ ~Unsent(w) =>
         /\ InOrder(c)
         /\ Queued("finish", c) <=> w.conn = "none"
         /\ w.redirect => w.conn = "none"
         /\ w.conn = "none" => w.redirect \/ w.finished
         /\ ~w.redirect /\ w.announced > w.pos => Queued("forwardData", c)

\* The client heard of the response, unless it has left or the response was skipped.
ToldFits(c, w, j, t) ==
    LET early == w.redirect \/ Unsent(w) \/ Queued("sendResponseIfNeeded", c)
    IN  /\ early => OnlyRedirects(t)
        /\ ~early /\ j.client => ResponseTold(t) \/ (w.error = "yes" /\ ~w.http)

Fits(c, w, j, t, f) ==
    IF w = NoWrapper THEN IdleFits(c, j, t)
    ELSE Live(w, j, t, f) /\ CallsFit(c, w) /\ ToldFits(c, w, j, t)

\* CallbacksInOrder in two parts
Ordered(t) ==
    \A i, j \in DOMAIN t : i < j =>
        /\ t[i] \notin {"finish", "fail"}
        /\ t[i] = "response" => t[j] # "response"
        /\ t[j] = "redirect" => t[i] = "redirect"
ResponseFirst(t) ==
    \A i \in DOMAIN t : t[i] \in {"data", "finish"} => \E j \in 1..i - 1 : t[j] = "response"

HandlerInv ==
    /\ TypeOK
    /\ failed = "none"
    /\ Fits(queue.calls, wrapper, job, told, forwarded)
    /\ Ordered(told)
    /\ ~LateErrors => ResponseFirst(told)

-----------------------------------------------------------------------------
(* Facts about the sequences *)

\* A wrapper is told from the absence of one.
LEMMA WrapperIsSome == ASSUME NEW w \in Wrappers PROVE w # NoWrapper
<1>1. DOMAIN w # DOMAIN NoWrapper
  BY DEF Wrappers, NoWrapper
<1> QED BY <1>1

\* The type invariant with its sets named
LEMMA TypeParts ==
    TypeOK <=> /\ queue \in Queues
               /\ wrapper = NoWrapper \/ wrapper \in Wrappers
               /\ job \in Jobs
               /\ told \in Seq(Callbacks)
               /\ forwarded \in 0..MaxBytes
BY DEF TypeOK, Queues, Calls, Wrappers, Jobs, Callbacks

\* Pushing one call at the end
LEMMA PushOne ==
    ASSUME NEW c \in Seq(Calls), NEW x \in Calls
    PROVE  LET d == c \o <<x>>
           IN  /\ d \in Seq(Calls) /\ Len(d) = Len(c) + 1 /\ Len(c) \in Nat
               /\ DOMAIN c = 1..Len(c) /\ DOMAIN d = 1..Len(c) + 1
               /\ \A i \in 1..Len(c) : d[i] = c[i]
               /\ d[Len(c) + 1] = x
               /\ \A y : Queued(y, d) <=> Queued(y, c) \/ y = x
<1> DEFINE d == c \o <<x>>
<1>1. <<x>> \in Seq(Calls) /\ Len(<<x>>) = 1 /\ <<x>>[1] = x
  OBVIOUS
<1>2. /\ d \in Seq(Calls) /\ Len(d) = Len(c) + 1 /\ Len(c) \in Nat
      /\ DOMAIN c = 1..Len(c) /\ DOMAIN d = 1..Len(c) + 1
  BY <1>1, ConcatProperties, LenProperties
<1>3. \A i \in 1..Len(c) + 1 : d[i] = IF i <= Len(c) THEN c[i] ELSE <<x>>[i - Len(c)]
  BY <1>1, ConcatProperties
<1>4. /\ \A i \in 1..Len(c) : d[i] = c[i]
      /\ d[Len(c) + 1] = x
  BY <1>1, <1>2, <1>3
<1> HIDE DEF d
<1>5. ASSUME NEW y PROVE Queued(y, d) <=> Queued(y, c) \/ y = x
  <2>1. ASSUME Queued(y, c) PROVE Queued(y, d)
    BY <1>2, <1>4, <2>1 DEF Queued
  <2>2. ASSUME y = x PROVE Queued(y, d)
    BY <1>2, <1>4, <2>2 DEF Queued
  <2>3. ASSUME NEW i \in DOMAIN d, d[i] = y, y # x PROVE Queued(y, c)
    <3>1. i \in 1..Len(c)
      BY <1>2, <1>4, <2>3
    <3> QED BY <1>2, <1>4, <2>3, <3>1 DEF Queued
  <2> QED BY <2>1, <2>2, <2>3 DEF Queued
<1> QED BY <1>2, <1>4, <1>5 DEF d

\* Taking the first call
LEMMA TakeOne ==
    ASSUME NEW c \in Seq(Calls), c # <<>>
    PROVE  LET d == Tail(c)
           IN  /\ d \in Seq(Calls) /\ Len(d) = Len(c) - 1 /\ Len(c) \in Nat \ {0}
               /\ DOMAIN c = 1..Len(c) /\ DOMAIN d = 1..Len(c) - 1
               /\ \A i \in 1..Len(c) - 1 : d[i] = c[i + 1]
               /\ c[1] = Head(c)
               /\ \A y : Queued(y, c) <=> Queued(y, d) \/ y = Head(c)
<1> DEFINE d == Tail(c)
<1>1. /\ d \in Seq(Calls) /\ Len(d) = Len(c) - 1 /\ Len(c) \in Nat \ {0}
      /\ DOMAIN c = 1..Len(c) /\ DOMAIN d = 1..Len(c) - 1
      /\ \A i \in 1..Len(c) - 1 : d[i] = c[i + 1]
  BY HeadTailProperties, LenProperties, EmptySeq
<1>2. c[1] = Head(c)
  OBVIOUS
<1> HIDE DEF d
<1>3. ASSUME NEW y PROVE Queued(y, c) <=> Queued(y, d) \/ y = c[1]
  <2>1. ASSUME NEW i \in DOMAIN d, d[i] = y PROVE Queued(y, c)
    <3>1. i + 1 \in DOMAIN c /\ c[i + 1] = y
      BY <1>1, <2>1
    <3> QED BY <3>1 DEF Queued
  <2>2. ASSUME y = c[1] PROVE Queued(y, c)
    <3>1. 1 \in DOMAIN c
      BY <1>1
    <3> QED BY <2>2, <3>1 DEF Queued
  <2>3. ASSUME NEW i \in DOMAIN c, c[i] = y, y # c[1] PROVE Queued(y, d)
    <3>1. i # 1
      BY <2>3
    <3>2. i - 1 \in DOMAIN d /\ d[i - 1] = c[i]
      BY <1>1, <3>1
    <3> QED BY <2>3, <3>2 DEF Queued
  <2> QED BY <2>1, <2>2, <2>3 DEF Queued
<1> QED BY <1>1, <1>2, <1>3 DEF d

\* The rest of the calls of a reply after the first
LEMMA RestInOrder ==
    ASSUME NEW c \in Seq(Calls), c # <<>>, InOrder(c)
    PROVE  /\ InOrder(Tail(c))
           /\ ~Queued("sendResponseIfNeeded", Tail(c))
           /\ Head(c) = "finish" => Tail(c) = <<>>
<1> DEFINE d == Tail(c)
<1>1. /\ d \in Seq(Calls) /\ Len(d) = Len(c) - 1 /\ Len(c) \in Nat \ {0}
      /\ DOMAIN c = 1..Len(c) /\ DOMAIN d = 1..Len(c) - 1
      /\ \A i \in 1..Len(c) - 1 : d[i] = c[i + 1]
      /\ c[1] = Head(c)
  BY TakeOne
<1> HIDE DEF d
<1>2. ASSUME NEW i \in DOMAIN d
      PROVE  d[i] # "start" /\ d[i] # "sendResponseIfNeeded" /\ (d[i] = "finish" => i = Len(d))
  <2>1. i + 1 \in DOMAIN c /\ c[i + 1] = d[i] /\ i + 1 # 1 /\ i \in Nat
    BY <1>1
  <2>2. d[i] # "start" /\ d[i] # "sendResponseIfNeeded" /\ (d[i] = "finish" => i + 1 = Len(c))
    BY <2>1 DEF InOrder
  <2> QED BY <1>1, <2>1, <2>2
<1>3. InOrder(d) /\ ~Queued("sendResponseIfNeeded", d)
  BY <1>2 DEF InOrder, Queued
<1>4. ASSUME Head(c) = "finish" PROVE d = <<>>
  <2>1. Len(c) = 1
    BY <1>1, <1>4 DEF InOrder
  <2>2. Len(d) = 0
    BY <1>1, <2>1
  <2> QED BY <1>1, <2>2, EmptySeq
<1> QED BY <1>3, <1>4 DEF d

\* What one more callback does to the order of the callbacks
LEMMA AppendOrdered ==
    ASSUME NEW t \in Seq(Callbacks), NEW x \in Callbacks,
           Ordered(t), NotEnded(t), x \in {"redirect", "response"} => OnlyRedirects(t)
    PROVE  LET s == Append(t, x)
           IN  /\ s \in Seq(Callbacks) /\ s # t /\ Last(s) = x
               /\ Ordered(s)
               /\ x \notin {"finish", "fail"} => NotEnded(s)
               /\ x = "redirect" => OnlyRedirects(s)
               /\ x = "response" => ResponseTold(s)
               /\ ResponseTold(t) => ResponseTold(s)
               /\ ResponseFirst(t) /\ (x \in {"data", "finish"} => ResponseTold(t))
                    => ResponseFirst(s)
<1> DEFINE s == Append(t, x)
           n == Len(t)
<1>1. /\ s \in Seq(Callbacks) /\ n \in Nat /\ Len(s) = n + 1
      /\ DOMAIN t = 1..n /\ DOMAIN s = 1..n + 1
      /\ \A i \in 1..n : s[i] = t[i]
      /\ s[n + 1] = x
  BY LenProperties, AppendProperties
<1> HIDE DEF s, n
<1>2. s # t /\ Last(s) = x
  <2>1. Len(s) = n + 1 /\ n \in Nat
    BY <1>1
  <2>2. Len(t) = n
    BY DEF n
  <2>3. s # t
    BY <2>1, <2>2
  <2> QED BY <1>1, <2>3 DEF Last
<1>3. Ordered(s)
  <2> SUFFICES ASSUME NEW i \in 1..n + 1, NEW j \in 1..n + 1, i < j
               PROVE  /\ s[i] \notin {"finish", "fail"}
                      /\ s[i] = "response" => s[j] # "response"
                      /\ s[j] = "redirect" => s[i] = "redirect"
    BY <1>1 DEF Ordered
  <2>1. i \in 1..n /\ s[i] = t[i]
    BY <1>1
  <2>2. CASE j \in 1..n
    BY <1>1, <2>1, <2>2 DEF Ordered
  <2>3. CASE j = n + 1
    <3>1. s[j] = x /\ t[i] \notin {"finish", "fail"}
      BY <1>1, <2>1, <2>3 DEF NotEnded
    <3>2. x \in {"redirect", "response"} => t[i] = "redirect"
      BY <1>1, <2>1 DEF OnlyRedirects
    <3> QED BY <2>1, <3>1, <3>2
  <2> QED BY <1>1, <2>2, <2>3
<1>4. ASSUME NEW i \in DOMAIN s 
      PROVE  (i = n + 1 /\ s[i] = x) \/ (i \in DOMAIN t /\ s[i] = t[i])
  BY <1>1
<1>5. x \notin {"finish", "fail"} => NotEnded(s)
  BY <1>4 DEF NotEnded
<1>6. x = "redirect" => OnlyRedirects(s)
  BY <1>4 DEF OnlyRedirects
<1>7. n + 1 \in DOMAIN s
  BY <1>1
<1>8. x = "response" => ResponseTold(s)
  BY <1>1, <1>7 DEF ResponseTold
<1>9. ResponseTold(t) => ResponseTold(s)
  BY <1>1 DEF ResponseTold
<1>10. ASSUME ResponseFirst(t), x \in {"data", "finish"} => ResponseTold(t)
       PROVE  ResponseFirst(s)
  <2> SUFFICES ASSUME NEW i \in DOMAIN s, s[i] \in {"data", "finish"}
               PROVE  \E j \in 1..i - 1 : s[j] = "response"
    BY DEF ResponseFirst
  <2>1. CASE i = n + 1
    <3>1. x \in {"data", "finish"}
      BY <1>1, <2>1
    <3>2. PICK j \in DOMAIN t : t[j] = "response"
      BY <1>10, <3>1 DEF ResponseTold
    <3> QED BY <1>1, <2>1, <3>2
  <2>2. CASE i \in DOMAIN t
    <3>1. PICK j \in 1..i - 1 : t[j] = "response"
      BY <1>1, <1>10, <2>2 DEF ResponseFirst
    <3>2. j \in 1..n
      BY <1>1, <2>2, <3>1
    <3> QED BY <1>1, <3>1, <3>2
  <2> QED BY <1>4, <2>1, <2>2
<1> QED BY <1>1, <1>2, <1>3, <1>5, <1>6, <1>8, <1>9, <1>10 DEF s

\* Data and the end of a reply are pushed in order.
LEMMA PushInOrder ==
    ASSUME NEW c \in Seq(Calls), NEW x \in {"forwardData", "finish"},
           InOrder(c), ~Queued("finish", c)
    PROVE  InOrder(c \o <<x>>)
<1> DEFINE d == c \o <<x>>
<1>1. /\ Len(d) = Len(c) + 1 /\ Len(c) \in Nat
      /\ DOMAIN c = 1..Len(c) /\ DOMAIN d = 1..Len(c) + 1
      /\ \A i \in 1..Len(c) : d[i] = c[i]
      /\ d[Len(c) + 1] = x
  BY PushOne DEF Calls
<1> HIDE DEF d
<1> SUFFICES ASSUME NEW i \in DOMAIN d
             PROVE  /\ d[i] # "start"
                    /\ d[i] = "sendResponseIfNeeded" => i = 1
                    /\ d[i] = "finish" => i = Len(d)
  BY DEF InOrder, d
<1>2. CASE i \in DOMAIN c
  <2>1. d[i] = c[i] /\ c[i] # "finish"
    BY <1>1, <1>2 DEF Queued
  <2> QED BY <1>2, <2>1 DEF InOrder
<1>3. CASE i = Len(d)
  <2>1. d[i] = x
    BY <1>1, <1>3
  <2> QED BY <1>3, <2>1
<1> QED BY <1>1, <1>2, <1>3

\* The calls that go with the headers of a reply
LEMMA HeaderCalls ==
    ASSUME NEW d \in BOOLEAN, NEW e \in BOOLEAN
    PROVE  LET c == <<"sendResponseIfNeeded">>
                    \o (IF d THEN <<"forwardData">> ELSE <<>>)
                    \o (IF e THEN <<"finish">> ELSE <<>>)
           IN  /\ c \in Seq(Calls) /\ InOrder(c)
               /\ Queued("sendResponseIfNeeded", c)
               /\ Queued("forwardData", c) <=> d
               /\ Queued("finish", c) <=> e
<1> DEFINE c0 == <<"sendResponseIfNeeded">>
           c1 == c0 \o (IF d THEN <<"forwardData">> ELSE <<>>)
           c2 == c1 \o (IF e THEN <<"finish">> ELSE <<>>)
<1>1. /\ c0 \in Seq(Calls) /\ InOrder(c0)
      /\ \A y : Queued(y, c0) <=> y = "sendResponseIfNeeded"
  <2>1. c0 \in Seq(Calls) /\ DOMAIN c0 = 1..1 /\ c0[1] = "sendResponseIfNeeded" /\ Len(c0) = 1
    BY DEF Calls
  <2> HIDE DEF c0
  <2>2. DOMAIN c0 = {1}
    BY <2>1
  <2> QED BY <2>1, <2>2 DEF InOrder, Queued
<1> HIDE DEF c0
<1>2. /\ c1 \in Seq(Calls) /\ InOrder(c1)
      /\ \A y : Queued(y, c1) <=> (y = "sendResponseIfNeeded" \/ (d /\ y = "forwardData"))
  <2>1. CASE d
    <3>1. c1 = c0 \o <<"forwardData">>
      BY <2>1
    <3>2. ~Queued("finish", c0)
      BY <1>1
    <3> QED BY <1>1, <2>1, <3>1, <3>2, PushOne, PushInOrder DEF Calls
  <2>2. CASE ~d
    <3>1. c1 = c0
      BY <1>1, <2>2, ConcatEmptySeq
    <3> QED BY <1>1, <2>2, <3>1
  <2> QED BY <2>1, <2>2
<1> HIDE DEF c1
<1>3. /\ c2 \in Seq(Calls) /\ InOrder(c2)
      /\ \A y : Queued(y, c2) <=> (Queued(y, c1) \/ (e /\ y = "finish"))
  <2>1. CASE e
    <3>1. c2 = c1 \o <<"finish">>
      BY <2>1
    <3>2. ~Queued("finish", c1)
      BY <1>2
    <3> QED BY <1>2, <2>1, <3>1, <3>2, PushOne, PushInOrder DEF Calls
  <2>2. CASE ~e
    <3>1. c2 = c1
      BY <1>2, <2>2, ConcatEmptySeq
    <3> QED BY <1>2, <2>2, <3>1
  <2> QED BY <2>1, <2>2
<1> HIDE DEF c2
<1>4. /\ Queued("sendResponseIfNeeded", c2)
      /\ Queued("forwardData", c2) <=> d
      /\ Queued("finish", c2) <=> e
  BY <1>2, <1>3
<1> QED BY <1>3, <1>4 DEF c0, c1, c2

-----------------------------------------------------------------------------
(* The wrapper *)

\* What a wrapper pushes with the headers of a reply fits it.
LEMMA EmitFits ==
    ASSUME NEW w \in Wrappers, NEW j \in Jobs, NEW t \in Seq(Callbacks), NEW f \in 0..MaxBytes,
           Live(w, j, t, f), OnlyRedirects(t), ~w.redirect
    PROVE  LET r == emitMetaDataChanged(w)
           IN  r.w \in Wrappers /\ r.calls \in Seq(Calls) /\ Fits(r.calls, r.w, j, t, f)
<1> DEFINE r == emitMetaDataChanged(w)
           data == w.size > w.pos
           v == [w EXCEPT !.contains = data, !.sniffing = FALSE,
                          !.conn = IF w.finished THEN "none" ELSE "didReceive"]
<1>1. r.w = v
  BY DEF emitMetaDataChanged
<1>2. r.calls = <<"sendResponseIfNeeded">>
                \o (IF data THEN <<"forwardData">> ELSE <<>>)
                \o (IF w.finished THEN <<"finish">> ELSE <<>>)
  BY DEF emitMetaDataChanged
<1>3. data \in BOOLEAN /\ w.finished \in BOOLEAN
  BY DEF Wrappers
<1>4. /\ r.calls \in Seq(Calls) /\ InOrder(r.calls)
      /\ Queued("sendResponseIfNeeded", r.calls)
      /\ Queued("forwardData", r.calls) <=> data
      /\ Queued("finish", r.calls) <=> w.finished
  <2> HIDE DEF r, data
  <2> QED BY <1>2, <1>3, HeaderCalls
<1>5. /\ v \in Wrappers /\ v.sniffing = FALSE /\ v.redirect = w.redirect /\ v.http = w.http
      /\ v.size = w.size /\ v.announced = w.announced /\ v.pos = w.pos /\ v.error = w.error /\ v.finished = w.finished
      /\ v.conn = (IF w.finished THEN "none" ELSE "didReceive")
  BY <1>3 DEF Wrappers
<1> HIDE DEF r, v
<1>6. Live(v, j, t, f)
  BY <1>5 DEF Live
<1>7. CallsFit(r.calls, v)
  <2>1. v.announced > v.pos => data
    BY <1>5, <1>6, SMT DEF Live, Wrappers
  <2> HIDE DEF data
  <2> QED BY <1>4, <1>5, <2>1 DEF CallsFit, Unsent
<1>8. ToldFits(r.calls, v, j, t)
  BY <1>4 DEF ToldFits
<1>9. v # NoWrapper
  BY <1>5, WrapperIsSome
<1> QED BY <1>1, <1>4, <1>5, <1>6, <1>7, <1>8, <1>9 DEF Fits, r

\* So does what it pushes on the first signal of a reply.
LEMMA ReceiveMetaDataFits ==
    ASSUME NEW w \in Wrappers, NEW j \in Jobs, NEW t \in Seq(Callbacks), NEW f \in 0..MaxBytes,
           Live(w, j, t, f), OnlyRedirects(t), w.redirect => ~w.sniffing
    PROVE  LET r == receiveMetaData(w)
           IN  r.w \in Wrappers /\ r.calls \in Seq(Calls) /\ Fits(r.calls, r.w, j, t, f)
<1> DEFINE r == receiveMetaData(w)
           off == [w EXCEPT !.conn = "none"]
<1>1. /\ off \in Wrappers /\ off.redirect = w.redirect /\ off.http = w.http /\ off.sniffing = w.sniffing
      /\ off.size = w.size /\ off.announced = w.announced /\ off.pos = w.pos /\ off.error = w.error
      /\ off.finished = w.finished /\ off.conn = "none"
  BY DEF Wrappers
<1>2. Live(off, j, t, f)
  BY <1>1 DEF Live
<1>3. CASE w.redirect
  <2> DEFINE c == <<"sendResponseIfNeeded", "finish">>
  <2>1. r = [w |-> off, calls |-> c]
    BY <1>3 DEF receiveMetaData
  <2>2. /\ c \in Seq(Calls) /\ DOMAIN c = {1, 2} /\ Len(c) = 2
        /\ c[1] = "sendResponseIfNeeded" /\ c[2] = "finish"
    BY DEF Calls
  <2> HIDE DEF c, off
  <2>3. InOrder(c) /\ Queued("finish", c) /\ ~Queued("forwardData", c)
    BY <2>2 DEF InOrder, Queued
  <2>4. CallsFit(c, off) /\ ToldFits(c, off, j, t)
    BY <1>1, <1>3, <2>3 DEF CallsFit, ToldFits, Unsent
  <2>5. off # NoWrapper
    BY <1>1, WrapperIsSome
  <2> QED BY <1>1, <1>2, <2>1, <2>2, <2>4, <2>5 DEF Fits
<1>4. CASE ~w.redirect /\ (~job.sniffs \/ Sniffed(w))
  <2>1. r = emitMetaDataChanged(off)
    BY <1>4 DEF receiveMetaData
  <2> HIDE DEF off, r
  <2>2. ~off.redirect
    BY <1>1, <1>4
  <2> QED BY <1>1, <1>2, <2>1, <2>2, EmitFits DEF r
<1>5. CASE ~w.redirect /\ ~(~job.sniffs \/ Sniffed(w))
  <2> DEFINE v == [off EXCEPT !.sniffing = TRUE]
  <2>1. r = [w |-> v, calls |-> <<>>]
    BY <1>5 DEF receiveMetaData
  <2> HIDE DEF off
  <2>2. /\ v \in Wrappers /\ v.redirect = w.redirect /\ v.http = w.http /\ v.sniffing
        /\ v.size = w.size /\ v.announced = w.announced /\ v.pos = w.pos /\ v.error = w.error /\ v.finished = w.finished
    BY <1>1 DEF Wrappers
  <2> HIDE DEF v, r
  <2>3. Live(v, j, t, f)
    BY <2>2 DEF Live
  <2>4. CallsFit(<<>>, v) /\ ToldFits(<<>>, v, j, t)
    BY <1>5, <2>2 DEF CallsFit, ToldFits, Unsent
  <2>5. v # NoWrapper
    BY <2>2, WrapperIsSome
  <2> QED BY <2>1, <2>2, <2>3, <2>4, <2>5 DEF Fits, r
<1> QED BY <1>3, <1>4, <1>5

\* A signal of the reply: bytes came, or the reply ended.
Arrives(u, w, signal) ==
    /\ ~u.finished
    /\ \E size \in u.size..MaxBytes :
         \/ signal = "readyRead" /\ w = [u EXCEPT !.size = size, !.announced = size]
         \/ /\ signal = "finished"
            /\ w \in Ends(u, size, IF u.conn = "didReceive" THEN u.announced ELSE size)

\* What changes with a signal before the slots run
LEMMA ArrivesLive ==
    ASSUME NEW u \in Wrappers, NEW w, NEW signal, Arrives(u, w, signal),
           NEW j \in Jobs, NEW t \in Seq(Callbacks), NEW f \in 0..MaxBytes, Live(u, j, t, f)
    PROVE  /\ w \in Wrappers /\ Live(w, j, t, f)
           /\ w.redirect = u.redirect /\ w.http = u.http /\ w.sniffing = u.sniffing
           /\ w.conn = u.conn /\ w.pos = u.pos /\ u.error = "no"
           /\ signal = "finished" => w.finished
           /\ signal = "finished" /\ u.conn = "didReceive" => w.announced = u.announced
           /\ signal = "readyRead" => w.error = u.error
<1>0. u.error \in {"no", "yes"} /\ ~u.finished /\ MaxBytes \in Nat
  BY HandlerAssumption DEF Wrappers, Arrives
<1>1. u.error = "no"
  BY <1>0 DEF Live
<1>2. PICK size \in u.size..MaxBytes :
        \/ signal = "readyRead" /\ w = [u EXCEPT !.size = size, !.announced = size]
        \/ /\ signal = "finished"
           /\ w \in Ends(u, size, IF u.conn = "didReceive" THEN u.announced ELSE size)
  BY DEF Arrives
<1>3. /\ size \in 0..MaxBytes /\ size \in Nat /\ u.size <= size
      /\ u.size \in Nat /\ u.pos \in Nat /\ u.announced \in 0..MaxBytes /\ u.announced \in Nat
      /\ u.pos <= size /\ u.announced <= size
  BY <1>0 DEF Wrappers, Live
<1>4. CASE signal = "readyRead" /\ w = [u EXCEPT !.size = size, !.announced = size]
  <2>1. /\ w \in Wrappers /\ w.redirect = u.redirect /\ w.http = u.http
        /\ w.sniffing = u.sniffing /\ w.conn = u.conn /\ w.pos = u.pos /\ w.error = u.error
        /\ w.finished = u.finished /\ w.size = size /\ w.announced = size
    BY <1>3, <1>4 DEF Wrappers
  <2>2. Live(w, j, t, f)
    BY <1>1, <1>3, <2>1 DEF Live
  <2> QED BY <1>1, <1>4, <2>1, <2>2
<1>5. ASSUME signal = "finished",
             w \in Ends(u, size, IF u.conn = "didReceive" THEN u.announced ELSE size)
      PROVE  /\ w \in Wrappers /\ Live(w, j, t, f)
             /\ w.redirect = u.redirect /\ w.http = u.http /\ w.sniffing = u.sniffing
             /\ w.conn = u.conn /\ w.pos = u.pos
             /\ w.finished /\ (u.conn = "didReceive" => w.announced = u.announced)
  <2> DEFINE a == IF u.conn = "didReceive" THEN u.announced ELSE size
  <2>1. PICK error \in Errors(u.http, size) :
          w = [u EXCEPT !.finished = TRUE, !.size = size, !.announced = a, !.error = error]
    BY <1>5 DEF Ends
  <2>2. /\ error \in {"no", "yes"}
        /\ error = "yes" => u.http \/ LateErrors \/ size = 0
    BY DEF Errors
  <2>3. a \in 0..MaxBytes /\ a <= size
    BY <1>3
  <2>4. u.conn = "didReceive" => a = u.announced
    OBVIOUS
  <2> HIDE DEF a
  <2>5. /\ w \in Wrappers /\ w.redirect = u.redirect /\ w.http = u.http
        /\ w.sniffing = u.sniffing /\ w.conn = u.conn /\ w.pos = u.pos /\ w.error = error
        /\ w.finished /\ w.size = size /\ w.announced = a
    BY <1>3, <2>1, <2>2, <2>3 DEF Wrappers
  <2>6. Live(w, j, t, f)
    BY <1>3, <2>2, <2>3, <2>5 DEF Live
  <2> QED BY <2>4, <2>5, <2>6
<1> QED BY <1>1, <1>2, <1>4, <1>5

\* The slots of a signal keep queue and wrapper in step.
LEMMA ReceivedFits ==
    ASSUME NEW u \in Wrappers, NEW w, NEW signal, Arrives(u, w, signal),
           NEW c \in Seq(Calls),
           NEW j \in Jobs, NEW t \in Seq(Callbacks), NEW f \in 0..MaxBytes,
           Fits(c, u, j, t, f)
    PROVE  LET r == Received(w, signal)
           IN  r.w \in Wrappers /\ c \o r.calls \in Seq(Calls) /\ Fits(c \o r.calls, r.w, j, t, f)
<1> DEFINE r == Received(w, signal)
<1>1. Live(u, j, t, f) /\ CallsFit(c, u) /\ ToldFits(c, u, j, t)
  BY WrapperIsSome DEF Fits
<1>2. /\ w \in Wrappers /\ Live(w, j, t, f)
      /\ w.redirect = u.redirect /\ w.http = u.http /\ w.sniffing = u.sniffing
      /\ w.conn = u.conn /\ w.pos = u.pos /\ u.error = "no"
      /\ signal = "finished" => w.finished
      /\ signal = "finished" /\ u.conn = "didReceive" => w.announced = u.announced
      /\ signal = "readyRead" => w.error = u.error
  BY <1>1, ArrivesLive
<1>3. w # NoWrapper
  BY <1>2, WrapperIsSome
<1>4. CASE w.conn = "receiveMetaData"
  <2>1. r = receiveMetaData(w)
    BY <1>4 DEF Received
  <2>2. c = <<>> /\ OnlyRedirects(t)
    BY <1>1, <1>2, <1>4 DEF CallsFit, ToldFits, Unsent
  <2> HIDE DEF r
  <2>3. w.redirect => ~w.sniffing
    BY <1>1, <1>2 DEF CallsFit
  <2>4. r.w \in Wrappers /\ r.calls \in Seq(Calls) /\ Fits(r.calls, r.w, j, t, f)
    BY <1>2, <2>1, <2>2, <2>3, ReceiveMetaDataFits
  <2>5. c \o r.calls = r.calls
    BY <2>2, <2>4, ConcatEmptySeq
  <2> QED BY <2>4, <2>5 DEF r
<1>5. CASE w.conn # "receiveMetaData" /\ w.sniffing
  <2>1. r = trySniffing(w)
    BY <1>5 DEF Received
  <2>2. c = <<>> /\ OnlyRedirects(t) /\ ~w.redirect
    BY <1>1, <1>2, <1>5 DEF CallsFit, ToldFits, Unsent
  <2>3. r.w \in Wrappers /\ r.calls \in Seq(Calls) /\ Fits(r.calls, r.w, j, t, f)
    <3>1. CASE Sniffed(w)
      <4>1. r = emitMetaDataChanged(w)
        BY <2>1, <3>1 DEF trySniffing
      <4> HIDE DEF r
      <4> QED BY <1>2, <2>2, <4>1, EmitFits
    <3>2. CASE ~Sniffed(w)
      <4>1. r = [w |-> w, calls |-> <<>>]
        BY <2>1, <3>2 DEF trySniffing
      <4> HIDE DEF r
      <4>2. CallsFit(<<>>, w) /\ ToldFits(<<>>, w, j, t)
        BY <1>5, <2>2 DEF CallsFit, ToldFits, Unsent
      <4> QED BY <1>2, <1>3, <4>1, <4>2 DEF Fits
    <3> QED BY <3>1, <3>2
  <2> HIDE DEF r
  <2>4. c \o r.calls = r.calls
    BY <2>2, <2>3, ConcatEmptySeq
  <2> QED BY <2>3, <2>4 DEF r
<1>6. CASE w.conn = "none" /\ ~w.sniffing
  <2>1. r = [w |-> w, calls |-> <<>>]
    BY <1>6 DEF Received
  <2> HIDE DEF r
  <2>2. c \o r.calls = c
    BY <2>1, ConcatEmptySeq
  <2>3. ~Unsent(w) /\ ~Unsent(u) /\ u.redirect
    BY <1>1, <1>2, <1>6 DEF CallsFit, Unsent, Arrives
  <2>4. CallsFit(c, w) /\ ToldFits(c, w, j, t)
    BY <1>1, <1>2, <1>6, <2>3 DEF CallsFit, ToldFits, Unsent
  <2> QED BY <1>2, <1>3, <2>1, <2>2, <2>4 DEF Fits, r
<1>7. CASE w.conn = "didReceive" /\ ~w.sniffing
  <2>1. /\ InOrder(c) /\ ~Queued("finish", c) /\ ~u.redirect /\ ~Unsent(u)
        /\ u.announced > u.pos => Queued("forwardData", c)
    BY <1>1, <1>2, <1>7 DEF CallsFit, Unsent
  <2>2. CASE signal = "finished"
    <3> DEFINE v == [w EXCEPT !.conn = "none"]
               d == c \o <<"finish">>
    <3>1. r = [w |-> v, calls |-> <<"finish">>]
      BY <1>7, <2>2 DEF Received, didReceiveFinished
    <3>2. /\ v \in Wrappers /\ v.redirect = w.redirect /\ v.http = w.http /\ ~v.sniffing
          /\ v.size = w.size /\ v.announced = w.announced /\ v.pos = w.pos /\ v.error = w.error /\ v.finished = w.finished
          /\ v.conn = "none"
      BY <1>2, <1>7 DEF Wrappers
    <3>3. /\ d \in Seq(Calls)
          /\ \A y : Queued(y, d) <=> Queued(y, c) \/ y = "finish"
      BY PushOne DEF Calls
    <3>4. InOrder(d)
      BY <2>1, PushInOrder
    <3> HIDE DEF v, d, r
    <3>5. Live(v, j, t, f)
      BY <1>2, <3>2 DEF Live
    <3>6. CallsFit(d, v)
      BY <1>2, <1>7, <2>1, <2>2, <3>2, <3>3, <3>4 DEF CallsFit, Unsent
    <3>7. ToldFits(d, v, j, t)
      BY <1>1, <1>2, <2>1, <3>2, <3>3 DEF ToldFits, Unsent
    <3>8. v # NoWrapper
      BY <3>2, WrapperIsSome
    <3> QED BY <3>1, <3>2, <3>3, <3>5, <3>6, <3>7, <3>8 DEF Fits, d, r
  <2>3. CASE signal = "readyRead"
    <3> DEFINE v == [w EXCEPT !.contains = @ \/ w.size > w.pos]
               d == c \o <<"forwardData">>
    <3>1. r = [w |-> v, calls |-> <<"forwardData">>]
      BY <1>7, <2>3 DEF Received, didReceiveReadyRead
    <3>2. /\ v \in Wrappers /\ v.redirect = w.redirect /\ v.http = w.http /\ ~v.sniffing
          /\ v.size = w.size /\ v.announced = w.announced /\ v.pos = w.pos /\ v.error = w.error /\ v.finished = w.finished
          /\ v.conn = w.conn
      BY <1>2, <1>7 DEF Wrappers
    <3>3. /\ d \in Seq(Calls)
          /\ \A y : Queued(y, d) <=> Queued(y, c) \/ y = "forwardData"
      BY PushOne DEF Calls
    <3>4. InOrder(d)
      BY <2>1, PushInOrder
    <3> HIDE DEF v, d, r
    <3>5. Live(v, j, t, f)
      BY <1>2, <3>2 DEF Live
    <3>6. CallsFit(d, v)
      BY <1>2, <1>7, <2>1, <2>3, <3>2, <3>3, <3>4 DEF CallsFit, Unsent
    <3>7. ToldFits(d, v, j, t)
      BY <1>1, <1>2, <1>7, <2>1, <3>2, <3>3 DEF ToldFits, Unsent
    <3>8. v # NoWrapper
      BY <3>2, WrapperIsSome
    <3> QED BY <3>1, <3>2, <3>3, <3>5, <3>6, <3>7, <3>8 DEF Fits, d, r
  <2> QED BY <2>2, <2>3 DEF Arrives
<1>8. w.conn \in {"receiveMetaData", "didReceive", "none"}
  BY <1>2 DEF Wrappers
<1> QED BY <1>4, <1>5, <1>6, <1>7, <1>8

-----------------------------------------------------------------------------
(* The client *)

\* The queue with other calls
LEMMA WithCalls ==
    ASSUME NEW q \in Queues, NEW c \in Seq(Calls)
    PROVE  [q EXCEPT !.calls = c] \in Queues /\ [q EXCEPT !.calls = c].calls = c
BY DEF Queues

\* A cleared queue
LEMMA Cleared ==
    ASSUME NEW q \in Queues
    PROVE  [q EXCEPT !.calls = <<>>] \in Queues /\ [q EXCEPT !.calls = <<>>].calls = <<>>
BY WithCalls, EmptySeq

\* Whatever the client does in a callback, queue, wrapper and job stay in step.
LEMMA ReactionFits ==
    ASSUME NEW q \in Queues, NEW w \in Wrappers, NEW j \in Jobs,
           NEW t \in Seq(Callbacks), NEW f \in 0..MaxBytes,
           Fits(q.calls, w, j, t, f),
           NEW after \in Reactions(q, w, j)
    PROVE  /\ after.q \in Queues /\ after.j \in Jobs
           /\ after.w = NoWrapper \/ after.w \in Wrappers
           /\ Fits(after.q.calls, after.w, after.j, t, f)
<1>1. Live(w, j, t, f) /\ CallsFit(q.calls, w) /\ ToldFits(q.calls, w, j, t) /\ w # NoWrapper
  BY WrapperIsSome DEF Fits
<1>2. CASE after = [q |-> q, w |-> w, j |-> j]
  BY <1>2
<1>3. CASE after = abort(q, w, j)
  <2>1. /\ after.q = [q EXCEPT !.calls = <<>>] /\ after.w = NoWrapper
        /\ after.j = [j EXCEPT !.handle = FALSE]
    BY <1>1, <1>3 DEF abort, Dropped
  <2>2. after.q \in Queues /\ after.q.calls = <<>> /\ after.j \in Jobs
    BY <2>1, Cleared DEF Jobs
  <2>3. IdleFits(<<>>, after.j, t)
    BY DEF IdleFits
  <2> QED BY <2>1, <2>2, <2>3 DEF Fits
<1>4. CASE after = [q |-> q, w |-> w, j |-> [j EXCEPT !.client = FALSE]]
  <2> DEFINE k == [j EXCEPT !.client = FALSE]
  <2>1. k \in Jobs /\ k.handle = j.handle /\ k.tries = j.tries /\ k.client = FALSE
    BY DEF Jobs
  <2> HIDE DEF k
  <2>2. Live(w, k, t, f) /\ ToldFits(q.calls, w, k, t)
    BY <1>1, <2>1 DEF Live, ToldFits
  <2> QED BY <1>1, <1>4, <2>1, <2>2 DEF Fits, k
<1>5. CASE /\ ~(j.sync \/ q.defer \/ j.defers = MaxDefers)
           /\ after = [q |-> setDeferSignals(q, TRUE), w |-> w,
                       j |-> [j EXCEPT !.defers = @ + 1]]
  <2> DEFINE k == [j EXCEPT !.defers = @ + 1]
             p == setDeferSignals(q, TRUE)
  <2>1. MaxDefers \in Nat
    BY HandlerAssumption
  <2>2. k \in Jobs /\ k.handle = j.handle /\ k.tries = j.tries /\ k.client = j.client
    BY <1>5, <2>1 DEF Jobs
  <2>3. p \in Queues /\ p.calls = q.calls
    BY DEF Queues, setDeferSignals
  <2> HIDE DEF k, p
  <2>4. Live(w, k, t, f) /\ ToldFits(q.calls, w, k, t)
    BY <1>1, <2>2 DEF Live, ToldFits
  <2> QED BY <1>1, <1>5, <2>2, <2>3, <2>4 DEF Fits, k, p
<1> QED BY <1>2, <1>3, <1>4, <1>5 DEF Reactions

\* A call that tells the client of something in the middle of a load
LEMMA TellsFits ==
    ASSUME NEW x \in Callbacks, NEW q \in Queues, NEW w \in Wrappers, NEW j \in Jobs,
           Append(told, x) \in Seq(Callbacks), forwarded' \in 0..MaxBytes,
           Fits(q.calls, w, j, Append(told, x), forwarded'),
           Tells(x, q, w, j, Returns)
    PROVE  /\ queue' \in Queues /\ job' \in Jobs
           /\ wrapper' = NoWrapper \/ wrapper' \in Wrappers
           /\ told' = Append(told, x) /\ failed' = failed
           /\ Fits(queue'.calls, wrapper', job', told', forwarded')
<1>1. PICK after \in Reactions(q, w, j) :
        queue' = after.q /\ wrapper' = after.w /\ job' = after.j
  BY DEF Tells, Returns
<1>2. told' = Append(told, x) /\ failed' = failed
  BY DEF Tells
<1>3. /\ after.q \in Queues /\ after.j \in Jobs
      /\ after.w = NoWrapper \/ after.w \in Wrappers
      /\ Fits(after.q.calls, after.w, after.j, Append(told, x), forwarded')
  BY ReactionFits
<1> QED BY <1>1, <1>2, <1>3

\* A call that tells the client of the end of a load
LEMMA TellsEndFits ==
    ASSUME NEW x \in Callbacks, NEW q \in Queues, NEW w \in Wrappers, NEW j \in Jobs,
           Tells(x, q, w, j, DropsWrapper)
    PROVE  /\ queue' \in Queues /\ job' \in Jobs /\ wrapper' = NoWrapper
           /\ told' = Append(told, x) /\ failed' = failed
           /\ Fits(queue'.calls, wrapper', job', told', forwarded')
<1>1. PICK after \in Reactions(q, w, j) :
        /\ queue' = DropsWrapper(after).q /\ wrapper' = DropsWrapper(after).w
        /\ job' = DropsWrapper(after).j
  BY DEF Tells
<1>2. told' = Append(told, x) /\ failed' = failed
  BY DEF Tells
<1>3. w # NoWrapper
  BY WrapperIsSome
<1>4. /\ after \in [q : Queues, w : {w, NoWrapper}, j : Jobs]
      /\ after.w = NoWrapper => after.q.calls = <<>>
  <2>1. CASE after = [q |-> q, w |-> w, j |-> j]
    BY <1>3, <2>1
  <2>2. CASE after = abort(q, w, j)
    <3>1. /\ after = [q |-> [q EXCEPT !.calls = <<>>], w |-> NoWrapper,
                      j |-> [j EXCEPT !.handle = FALSE]]
      BY <1>3, <2>2 DEF abort, Dropped
    <3>2. /\ [q EXCEPT !.calls = <<>>] \in Queues /\ [j EXCEPT !.handle = FALSE] \in Jobs
          /\ [q EXCEPT !.calls = <<>>].calls = <<>>
      BY Cleared DEF Jobs
    <3> QED BY <3>1, <3>2
  <2>3. CASE after = [q |-> q, w |-> w, j |-> [j EXCEPT !.client = FALSE]]
    <3>1. [j EXCEPT !.client = FALSE] \in Jobs
      BY DEF Jobs
    <3> QED BY <1>3, <2>3, <3>1
  <2>4. CASE /\ ~(j.sync \/ q.defer \/ j.defers = MaxDefers)
             /\ after = [q |-> setDeferSignals(q, TRUE), w |-> w,
                         j |-> [j EXCEPT !.defers = @ + 1]]
    <3>1. MaxDefers \in Nat
      BY HandlerAssumption
    <3>2. [j EXCEPT !.defers = @ + 1] \in Jobs
      BY <2>4, <3>1 DEF Jobs
    <3>3. setDeferSignals(q, TRUE) \in Queues
      BY DEF Queues, setDeferSignals
    <3> QED BY <1>3, <2>4, <3>2, <3>3
  <2> QED BY <2>1, <2>2, <2>3, <2>4 DEF Reactions
<1>5. /\ DropsWrapper(after).q = Dropped(after.q, after.w)
      /\ DropsWrapper(after).w = NoWrapper /\ DropsWrapper(after).j = after.j
  BY <1>4 DEF DropsWrapper
<1>6. Dropped(after.q, after.w) \in Queues /\ Dropped(after.q, after.w).calls = <<>>
  BY <1>4, Cleared DEF Dropped
<1>7. IdleFits(<<>>, job', told')
  BY DEF IdleFits
<1>8. queue'.calls = <<>> /\ wrapper' = NoWrapper /\ queue' \in Queues /\ job' \in Jobs
  BY <1>1, <1>4, <1>5, <1>6
<1> QED BY <1>2, <1>7, <1>8 DEF Fits

\* A job that differs in nothing the invariant speaks of, or that the client has left
LEMMA SameJobFits ==
    ASSUME NEW c, NEW w, NEW j \in Jobs, NEW k \in Jobs, NEW t, NEW f, Fits(c, w, j, t, f),
           k.handle = j.handle, k.tries = j.tries, k.client => j.client
    PROVE  Fits(c, w, k, t, f)
<1>1. CASE w = NoWrapper
  BY <1>1 DEF Fits, IdleFits
<1>2. CASE w # NoWrapper
  <2>1. Live(w, j, t, f) /\ CallsFit(c, w) /\ ToldFits(c, w, j, t)
    BY <1>2 DEF Fits
  <2>2. Live(w, k, t, f) /\ ToldFits(c, w, k, t)
    BY <2>1 DEF Live, ToldFits
  <2> QED BY <1>2, <2>1, <2>2 DEF Fits
<1> QED BY <1>1, <1>2

-----------------------------------------------------------------------------
(* The actions *)

\* What a step has to establish, when it leaves the callbacks alone
LEMMA SilentStep ==
    ASSUME HandlerInv, UNCHANGED <<told, failed>>,
           queue' \in Queues, wrapper' = NoWrapper \/ wrapper' \in Wrappers, job' \in Jobs,
           forwarded' \in 0..MaxBytes,
           Fits(queue'.calls, wrapper', job', told, forwarded')
    PROVE  HandlerInv'
<1>1. TypeOK'
  BY DEF HandlerInv, TypeOK, Queues, Calls, Wrappers, Jobs
<1> QED BY <1>1 DEF HandlerInv

\* A fresh load
LEMMA InitInv == Init => HandlerInv
<1> SUFFICES ASSUME Init PROVE HandlerInv
  OBVIOUS
<1>0. MaxRedirections \in Nat \ {0} /\ MaxBytes \in Nat /\ MaxDefers \in Nat
  BY HandlerAssumption
<1>1. PICK defer, sync, sniffs \in BOOLEAN :
        /\ queue = [calls |-> <<"start">>, defer |-> defer, flushing |-> TRUE, posted |-> FALSE]
        /\ job = [handle |-> TRUE, client |-> TRUE, deleted |-> FALSE, sync |-> sync,
                  sniffs |-> sniffs, tries |-> MaxRedirections, defers |-> 0]
  BY DEF Init
<1>2. wrapper = NoWrapper /\ told = <<>> /\ forwarded = 0 /\ failed = "none"
  BY DEF Init
<1>3. queue \in Queues /\ queue.calls = <<"start">>
  BY <1>1 DEF Queues, Calls
<1>4. job \in Jobs /\ job.handle /\ job.tries > 0
  BY <1>0, <1>1 DEF Jobs
<1>5. told \in Seq(Callbacks) /\ DOMAIN told = {}
  BY <1>2
<1>6. TypeOK
  BY <1>0, <1>2, <1>3, <1>4, <1>5, TypeParts
<1>7. Fits(queue.calls, wrapper, job, told, forwarded)
  BY <1>2, <1>3, <1>4, <1>5 DEF Fits, IdleFits, OnlyRedirects
<1>8. Ordered(told) /\ ResponseFirst(told)
  BY <1>5 DEF Ordered, ResponseFirst
<1> QED BY <1>2, <1>6, <1>7, <1>8 DEF HandlerInv

\* A signal of the reply
LEMMA SignalInv ==
    ASSUME HandlerInv, wrapper # NoWrapper, NEW w, NEW signal, Arrives(wrapper, w, signal),
           wrapper' = Received(w, signal).w, Push(Received(w, signal).calls),
           UNCHANGED <<job, told, forwarded, failed>>
    PROVE  HandlerInv'
<1> DEFINE r == Received(w, signal)
<1>1. /\ queue \in Queues /\ wrapper \in Wrappers /\ job \in Jobs /\ told \in Seq(Callbacks)
      /\ forwarded \in 0..MaxBytes
  BY TypeParts DEF HandlerInv
<1>2. queue.calls \in Seq(Calls)
  BY <1>1 DEF Queues
<1>3. /\ r.w \in Wrappers /\ queue.calls \o r.calls \in Seq(Calls)
      /\ Fits(queue.calls \o r.calls, r.w, job, told, forwarded)
  BY <1>1, <1>2, ReceivedFits DEF HandlerInv
<1> HIDE DEF r
<1>4. queue' = [queue EXCEPT !.calls = @ \o r.calls, !.flushing = TRUE]
  BY DEF Push, r
<1>5. queue' \in Queues /\ queue'.calls = queue.calls \o r.calls
  BY <1>1, <1>3, <1>4 DEF Queues
<1> QED BY <1>1, <1>3, <1>5, SilentStep DEF r

\* Bytes come
LEMMA ReadyReadInv == ASSUME HandlerInv, ReadyRead PROVE HandlerInv'
<1>1. PICK size \in wrapper.size + 1..MaxBytes :
        LET w == [wrapper EXCEPT !.size = size, !.announced = size]
        IN  wrapper' = Received(w, "readyRead").w /\ Push(Received(w, "readyRead").calls)
  BY DEF ReadyRead
<1> DEFINE w == [wrapper EXCEPT !.size = size, !.announced = size]
<1>2. /\ wrapper # NoWrapper /\ ~wrapper.finished
      /\ UNCHANGED <<job, told, forwarded, failed>>
  BY DEF ReadyRead
<1>3. size \in wrapper.size..MaxBytes
  <2>1. wrapper.size \in Nat /\ MaxBytes \in Nat
    BY <1>2, TypeParts, HandlerAssumption DEF HandlerInv, Wrappers
  <2> QED BY <2>1
<1>4. Arrives(wrapper, w, "readyRead")
  BY <1>2, <1>3 DEF Arrives
<1>5. wrapper' = Received(w, "readyRead").w /\ Push(Received(w, "readyRead").calls)
  BY <1>1
<1> HIDE DEF w
<1> QED BY <1>2, <1>4, <1>5, SignalInv

\* The reply ends
LEMMA FinishedInv == ASSUME HandlerInv, Finished PROVE HandlerInv'
<1>1. PICK size \in wrapper.size..MaxBytes :
        \E w \in Ends(wrapper, size, IF wrapper.conn = "didReceive" THEN wrapper.announced
                                                                     ELSE size) :
          wrapper' = Received(w, "finished").w /\ Push(Received(w, "finished").calls)
  BY DEF Finished
<1>2. PICK w \in Ends(wrapper, size, IF wrapper.conn = "didReceive" THEN wrapper.announced
                                                                    ELSE size) :
          wrapper' = Received(w, "finished").w /\ Push(Received(w, "finished").calls)
  BY <1>1
<1>3. Arrives(wrapper, w, "finished")
  BY DEF Finished, Arrives
<1>4. wrapper # NoWrapper /\ UNCHANGED <<job, told, forwarded, failed>>
  BY DEF Finished
<1> QED BY <1>2, <1>3, <1>4, SignalInv

\* The flush begins or ends
LEMMA FlushInv == ASSUME HandlerInv, PostedFlush \/ EndFlush PROVE HandlerInv'
<1>1. /\ queue \in Queues /\ job \in Jobs /\ forwarded \in 0..MaxBytes
      /\ wrapper = NoWrapper \/ wrapper \in Wrappers
  BY TypeParts DEF HandlerInv
<1>2. queue' \in Queues /\ queue'.calls = queue.calls
  BY <1>1 DEF PostedFlush, EndFlush, Queues
<1>3. UNCHANGED <<wrapper, job, told, forwarded, failed>>
  BY DEF PostedFlush, EndFlush
<1> QED BY <1>1, <1>2, <1>3, SilentStep DEF HandlerInv

\* The page defers the load or resumes it
LEMMA SetDefersInv == ASSUME HandlerInv, NEW defer \in BOOLEAN, SetDefers(defer) PROVE HandlerInv'
<1>1. queue \in Queues /\ job \in Jobs /\ forwarded \in 0..MaxBytes
  BY TypeParts DEF HandlerInv
<1>2. wrapper = NoWrapper \/ wrapper \in Wrappers
  BY TypeParts DEF HandlerInv
<1>3. queue' \in Queues /\ queue'.calls = queue.calls
  BY <1>1 DEF SetDefers, setDeferSignals, Queues
<1>4. MaxDefers \in Nat
  BY HandlerAssumption
<1>5. /\ job' \in Jobs /\ job'.handle = job.handle /\ job'.tries = job.tries
      /\ job'.client = job.client
  <2>1. CASE defer
    <3>1. job' = [job EXCEPT !.defers = @ + 1] /\ job.defers < MaxDefers
      BY <2>1 DEF SetDefers
    <3> QED BY <1>1, <1>4, <3>1 DEF Jobs
  <2>2. CASE ~defer
    <3>1. job' = job
      BY <2>2 DEF SetDefers
    <3> QED BY <1>1, <3>1
  <2> QED BY <2>1, <2>2
<1>6. UNCHANGED <<wrapper, told, forwarded, failed>>
  BY DEF SetDefers
<1>7. Fits(queue.calls, wrapper, job', told, forwarded)
  BY <1>1, <1>5, SameJobFits DEF HandlerInv
<1> QED BY <1>1, <1>2, <1>3, <1>5, <1>6, <1>7, SilentStep

\* The page aborts the load
LEMMA AbortInv == ASSUME HandlerInv, ~AbortsUnstarted, Abort PROVE HandlerInv'
<1>1. queue \in Queues /\ job \in Jobs /\ forwarded \in 0..MaxBytes
  BY TypeParts DEF HandlerInv
<1>2. /\ queue' = Dropped(queue, wrapper) /\ wrapper' = NoWrapper
      /\ job' = [job EXCEPT !.handle = FALSE] /\ ~Unstarted(queue)
      /\ UNCHANGED <<told, forwarded, failed>>
  BY DEF Abort, abort, MayAbort
<1>3. job' \in Jobs
  BY <1>1, <1>2 DEF Jobs
<1>4. queue' \in Queues /\ queue'.calls = <<>>
  <2>1. CASE wrapper = NoWrapper
    <3>1. queue' = queue /\ queue.calls \in {<<>>, <<"start">>}
      BY <1>2, <2>1 DEF Dropped, HandlerInv, Fits, IdleFits
    <3>2. queue.calls # <<"start">>
      BY <1>2 DEF Unstarted
    <3> QED BY <1>1, <3>1, <3>2
  <2>2. CASE wrapper # NoWrapper
    BY <1>1, <1>2, <2>2, Cleared DEF Dropped
  <2> QED BY <2>1, <2>2
<1>5. Fits(<<>>, NoWrapper, job', told, forwarded)
  BY DEF Fits, IdleFits
<1> QED BY <1>1, <1>2, <1>3, <1>4, <1>5, SilentStep

\* The client leaves the load, or the handler is deleted
LEMMA LeaveInv == ASSUME HandlerInv, ClearClient \/ Delete PROVE HandlerInv'
<1>1. queue \in Queues /\ job \in Jobs /\ forwarded \in 0..MaxBytes
  BY TypeParts DEF HandlerInv
<1>2. wrapper = NoWrapper \/ wrapper \in Wrappers
  BY TypeParts DEF HandlerInv
<1>3. /\ job' \in Jobs /\ job'.handle = job.handle /\ job'.tries = job.tries
      /\ job'.client => job.client
  BY <1>1 DEF ClearClient, Delete, Jobs
<1>4. UNCHANGED <<queue, wrapper, told, forwarded, failed>>
  BY DEF ClearClient, Delete
<1>5. Fits(queue.calls, wrapper, job', told, forwarded)
  BY <1>1, <1>3, SameJobFits DEF HandlerInv
<1> QED BY <1>1, <1>2, <1>3, <1>4, <1>5, SilentStep

\* A call is taken from the queue.
LEMMA RunParts ==
    ASSUME HandlerInv, Runnable
    PROVE  /\ queue \in Queues /\ queue.calls \in Seq(Calls) /\ queue.calls # <<>>
           /\ Rest \in Queues /\ Rest.calls = Tail(queue.calls) /\ Tail(queue.calls) \in Seq(Calls)
           /\ job \in Jobs /\ told \in Seq(Callbacks) /\ forwarded \in 0..MaxBytes
           /\ wrapper = NoWrapper \/ wrapper \in Wrappers
<1>1. /\ queue \in Queues /\ job \in Jobs /\ told \in Seq(Callbacks) /\ forwarded \in 0..MaxBytes
      /\ wrapper = NoWrapper \/ wrapper \in Wrappers
  BY TypeParts DEF HandlerInv
<1>2. queue.calls \in Seq(Calls) /\ queue.calls # <<>>
  BY <1>1 DEF Queues, Runnable
<1>3. Tail(queue.calls) \in Seq(Calls)
  BY <1>2, TakeOne
<1>4. Rest \in Queues /\ Rest.calls = Tail(queue.calls)
  BY <1>1, <1>3, WithCalls DEF Rest
<1> QED BY <1>1, <1>2, <1>3, <1>4

\* A call of a reply finds the load live and the wrapper there: its assertions hold.
LEMMA CallOfReply ==
    ASSUME HandlerInv, Runnable, Head(queue.calls) # "start"
    PROVE  /\ wrapper \in Wrappers /\ wrapper # NoWrapper /\ Asserted /\ ~Unsent(wrapper)
           /\ Live(wrapper, job, told, forwarded) /\ CallsFit(queue.calls, wrapper)
           /\ ToldFits(queue.calls, wrapper, job, told)
           /\ InOrder(queue.calls) /\ Queued(Head(queue.calls), queue.calls)
<1>1. /\ queue.calls \in Seq(Calls) /\ queue.calls # <<>>
      /\ wrapper = NoWrapper \/ wrapper \in Wrappers
  BY RunParts
<1>2. wrapper # NoWrapper
  <2> SUFFICES ASSUME wrapper = NoWrapper PROVE FALSE
    OBVIOUS
  <2>1. queue.calls = <<"start">>
    BY <1>1 DEF HandlerInv, Fits, IdleFits
  <2> QED BY <2>1
<1>3. /\ Live(wrapper, job, told, forwarded) /\ CallsFit(queue.calls, wrapper)
      /\ ToldFits(queue.calls, wrapper, job, told)
  BY <1>2 DEF HandlerInv, Fits
<1>4. ~Unsent(wrapper) /\ InOrder(queue.calls)
  BY <1>1, <1>3 DEF CallsFit
<1>5. Asserted
  BY <1>2, <1>3 DEF Asserted, Live
<1>6. Queued(Head(queue.calls), queue.calls)
  BY <1>1, TakeOne
<1> QED BY <1>1, <1>2, <1>3, <1>4, <1>5, <1>6

\* A reply of which no signal was seen
LEMMA NewWrapperType ==
    ASSUME NEW redirect \in BOOLEAN, NEW http \in BOOLEAN
    PROVE  LET w == NewWrapper(redirect, http)
           IN  /\ w \in Wrappers /\ w.pos = 0 /\ w.size = 0 /\ w.announced = 0 /\ w.error = "no" /\ ~w.sniffing
               /\ w.conn = "receiveMetaData"
<1>1. MaxBytes \in Nat
  BY HandlerAssumption
<1>2. 0 \in 0..MaxBytes
  BY <1>1, SMTT(60)
<1> QED BY <1>2 DEF Wrappers, NewWrapper

\* The load starts.
LEMMA StartInv == ASSUME HandlerInv, Run("start", Start) PROVE HandlerInv'
<1>0. /\ Runnable /\ Head(queue.calls) = "start" /\ Start
      /\ MaxBytes \in Nat
  BY HandlerAssumption DEF Run
<1>1. /\ queue \in Queues /\ queue.calls \in Seq(Calls) /\ queue.calls # <<>>
      /\ Rest \in Queues /\ Rest.calls = Tail(queue.calls) /\ Tail(queue.calls) \in Seq(Calls)
      /\ job \in Jobs /\ told \in Seq(Callbacks) /\ forwarded \in 0..MaxBytes
      /\ wrapper = NoWrapper \/ wrapper \in Wrappers
  BY <1>0, RunParts
<1>2. wrapper = NoWrapper
  <2> SUFFICES ASSUME wrapper # NoWrapper PROVE FALSE
    OBVIOUS
  <2>1. InOrder(queue.calls)
    BY <1>1 DEF HandlerInv, Fits, CallsFit
  <2>2. 1 \in DOMAIN queue.calls /\ queue.calls[1] = "start"
    BY <1>0, <1>1, TakeOne
  <2> QED BY <2>1, <2>2 DEF InOrder
<1>3. queue.calls = <<"start">> /\ job.handle /\ job.tries > 0 /\ OnlyRedirects(told)
  BY <1>1, <1>2 DEF HandlerInv, Fits, IdleFits
<1>4. Rest.calls = <<>>
  BY <1>1, <1>3, SMTT(60)
<1>5. forwarded' = 0 /\ UNCHANGED <<job, told, failed>>
  BY <1>0, <1>3 DEF Start
<1>6. 0 \in 0..MaxBytes
  BY <1>0
<1>7. CASE queue' = Rest /\ UNCHANGED wrapper
  <2>1. Fits(Rest.calls, wrapper, job, told, 0)
    BY <1>2, <1>4 DEF Fits, IdleFits
  <2> QED BY <1>1, <1>2, <1>5, <1>6, <1>7, <2>1, SilentStep
<1>8. ASSUME NEW redirect \in BOOLEAN, NEW http \in BOOLEAN, ~job.sync,
             wrapper' = NewWrapper(redirect, http), queue' = Rest
      PROVE  HandlerInv'
  <2> DEFINE w == NewWrapper(redirect, http)
  <2>1. /\ w \in Wrappers /\ w.pos = 0 /\ w.size = 0 /\ w.announced = 0 /\ w.error = "no" /\ ~w.sniffing
        /\ w.conn = "receiveMetaData"
    BY NewWrapperType
  <2> HIDE DEF w
  <2>2. Live(w, job, told, 0)
    BY <1>3, <2>1 DEF Live, NotEnded, OnlyRedirects
  <2>3. CallsFit(<<>>, w) /\ ToldFits(<<>>, w, job, told)
    BY <1>3, <2>1 DEF CallsFit, ToldFits, Unsent, Queued
  <2>4. Fits(<<>>, w, job, told, 0)
    BY <2>1, <2>2, <2>3, WrapperIsSome DEF Fits
  <2> QED BY <1>1, <1>4, <1>5, <1>6, <1>8, <2>1, <2>4, SilentStep DEF w
<1>9. ASSUME NEW redirect \in BOOLEAN, NEW http \in BOOLEAN, job.sync, NEW size \in 0..MaxBytes,
             NEW w \in Ends(NewWrapper(redirect, http), size, size),
             LET first == receiveMetaData(w)
             IN  wrapper' = first.w /\ queue' = [Rest EXCEPT !.calls = @ \o first.calls]
      PROVE  HandlerInv'
  <2> DEFINE n == NewWrapper(redirect, http)
             r == receiveMetaData(w)
  <2>1. /\ n \in Wrappers /\ n.pos = 0 /\ n.error = "no" /\ ~n.sniffing
    BY NewWrapperType
  <2>2. wrapper' = r.w /\ queue' = [Rest EXCEPT !.calls = @ \o r.calls]
    BY <1>9
  <2> HIDE DEF n
  <2>3. /\ w \in Wrappers /\ ~w.sniffing
        /\ Live(w, job, told, 0)
    <3>1. PICK error \in Errors(n.http, size) :
            w = [n EXCEPT !.finished = TRUE, !.size = size, !.announced = size, !.error = error]
      BY DEF Ends, n
    <3>2. error \in {"no", "yes"} /\ (error = "yes" => n.http \/ LateErrors \/ size = 0)
      BY DEF Errors
    <3>3. /\ w \in Wrappers /\ ~w.sniffing /\ w.pos = 0 /\ w.size = size /\ w.announced = size
          /\ w.error = error /\ w.finished /\ w.http = n.http
      BY <2>1, <3>1, <3>2 DEF Wrappers
    <3>4. size \in Nat /\ size >= 0
      BY <1>0
    <3> QED BY <1>3, <3>2, <3>3, <3>4 DEF Live, NotEnded, OnlyRedirects
  <2>4. r.w \in Wrappers /\ r.calls \in Seq(Calls) /\ Fits(r.calls, r.w, job, told, 0)
    BY <1>1, <1>3, <1>6, <2>3, ReceiveMetaDataFits
  <2> HIDE DEF r
  <2>5. queue' = [Rest EXCEPT !.calls = r.calls]
    <3>1. Rest.calls \o r.calls = r.calls
      BY <1>4, <2>4, ConcatEmptySeq
    <3>2. queue' = [Rest EXCEPT !.calls = Rest.calls \o r.calls]
      BY <2>2
    <3> QED BY <3>1, <3>2
  <2>6. queue' \in Queues /\ queue'.calls = r.calls
    BY <1>1, <2>4, <2>5, WithCalls
  <2> QED BY <1>1, <1>5, <1>6, <2>2, <2>4, <2>6, SilentStep
<1> QED BY <1>0, <1>3, <1>7, <1>8, <1>9 DEF Start

\* What a step has to establish, when the client was told of one thing
LEMMA ToldStep ==
    ASSUME HandlerInv, NEW x \in Callbacks, told' = Append(told, x), UNCHANGED failed,
           queue' \in Queues, wrapper' = NoWrapper \/ wrapper' \in Wrappers, job' \in Jobs,
           forwarded' \in 0..MaxBytes,
           Fits(queue'.calls, wrapper', job', told', forwarded'),
           NotEnded(told), x \in {"redirect", "response"} => OnlyRedirects(told),
           x \in {"data", "finish"} => ResponseTold(told) \/ LateErrors
    PROVE  HandlerInv'
<1>1. told \in Seq(Callbacks) /\ Ordered(told) /\ (~LateErrors => ResponseFirst(told))
  BY TypeParts DEF HandlerInv
<1>2. told' \in Seq(Callbacks) /\ Ordered(told')
  BY <1>1, AppendOrdered
<1>3. ~LateErrors => ResponseFirst(told')
  BY <1>1, AppendOrdered
<1>4. TypeOK'
  BY <1>2 DEF TypeOK, Queues, Calls, Wrappers, Jobs, Callbacks
<1>5. Ordered(told)' /\ (~LateErrors => ResponseFirst(told)')
  BY <1>2, <1>3 DEF Ordered, ResponseFirst
<1> QED BY <1>4, <1>5 DEF HandlerInv

\* The response is sent, or the redirection followed.
LEMMA SendResponseInv ==
    ASSUME HandlerInv, Run("sendResponseIfNeeded", SendResponseIfNeeded)
    PROVE  /\ HandlerInv'
           /\ told' = told \/ \E x \in {"fail", "redirect", "response"} : told' = Append(told, x)
<1>0. Runnable /\ Head(queue.calls) = "sendResponseIfNeeded" /\ SendResponseIfNeeded
  BY DEF Run
<1>1. /\ queue \in Queues /\ queue.calls \in Seq(Calls) /\ queue.calls # <<>>
      /\ Rest \in Queues /\ Rest.calls = Tail(queue.calls) /\ Tail(queue.calls) \in Seq(Calls)
      /\ job \in Jobs /\ told \in Seq(Callbacks) /\ forwarded \in 0..MaxBytes
  BY <1>0, RunParts
<1>2. /\ wrapper \in Wrappers /\ wrapper # NoWrapper /\ Asserted /\ ~Unsent(wrapper)
      /\ Live(wrapper, job, told, forwarded) /\ CallsFit(queue.calls, wrapper)
      /\ ToldFits(queue.calls, wrapper, job, told)
      /\ InOrder(queue.calls) /\ Queued("sendResponseIfNeeded", queue.calls)
  BY <1>0, CallOfReply
<1> DEFINE c == Rest.calls
<1>3. /\ InOrder(c) /\ ~Queued("sendResponseIfNeeded", c)
      /\ \A y : Queued(y, queue.calls) <=> Queued(y, c) \/ y = "sendResponseIfNeeded"
  BY <1>0, <1>1, <1>2, RestInOrder, TakeOne
<1> HIDE DEF c
<1>4. CallsFit(c, wrapper)
  BY <1>2, <1>3 DEF CallsFit
<1>5. OnlyRedirects(told) /\ NotEnded(told)
  BY <1>2 DEF ToldFits, Live
<1>6. Ordered(told) /\ UNCHANGED forwarded
  BY <1>0, <1>2 DEF HandlerInv, SendResponseIfNeeded
<1>7. CASE (wrapper.error = "yes" /\ ~wrapper.http) \/ ~job.client
  <2>1. queue' = Rest /\ UNCHANGED <<wrapper, job, told, failed>>
    BY <1>0, <1>2, <1>7 DEF SendResponseIfNeeded
  <2>2. ToldFits(c, wrapper, job, told)
    BY <1>5, <1>7 DEF ToldFits
  <2>3. Fits(Rest.calls, wrapper, job, told, forwarded)
    BY <1>2, <1>4, <2>2 DEF Fits, c
  <2>4. HandlerInv'
    BY <1>1, <1>2, <1>6, <2>1, <2>3, SilentStep
  <2> QED BY <2>1, <2>4
<1>8. CASE ~((wrapper.error = "yes" /\ ~wrapper.http) \/ ~job.client) /\ wrapper.redirect
  <2>1. Redirect
    BY <1>0, <1>2, <1>8 DEF SendResponseIfNeeded
  <2> DEFINE j == [job EXCEPT !.tries = @ - 1]
  <2>2. MaxRedirections \in Nat /\ job.tries > 0
    BY <1>2, HandlerAssumption DEF Live
  <2>3. /\ j \in Jobs /\ j.handle = job.handle /\ j.client = job.client
        /\ j.tries \in Nat
    BY <1>1, <2>2 DEF Jobs
  <2>4. IF j.tries = 0 THEN Tells("fail", Rest, wrapper, j, DropsWrapper)
        ELSE Tells("redirect", Rest, wrapper, j, Returns)
    BY <2>1 DEF Redirect
  <2> HIDE DEF j
  <2>5. CASE j.tries = 0
    <3>1. Tells("fail", Rest, wrapper, j, DropsWrapper) /\ "fail" \in Callbacks
      BY <2>4, <2>5 DEF Callbacks
    <3>2. /\ queue' \in Queues /\ job' \in Jobs /\ wrapper' = NoWrapper
          /\ told' = Append(told, "fail") /\ failed' = failed
          /\ Fits(queue'.calls, wrapper', job', told', forwarded')
      BY <1>1, <1>2, <2>3, <3>1, TellsEndFits
    <3>3. HandlerInv'
      BY <1>1, <1>5, <1>6, <3>1, <3>2, ToldStep
    <3> QED BY <3>2, <3>3
  <2>6. CASE j.tries # 0
    <3> DEFINE t == Append(told, "redirect")
    <3>1. Tells("redirect", Rest, wrapper, j, Returns) /\ "redirect" \in Callbacks
      BY <2>4, <2>6 DEF Callbacks
    <3>2. t \in Seq(Callbacks) /\ OnlyRedirects(t) /\ NotEnded(t)
      BY <1>1, <1>5, <1>6, <3>1, AppendOrdered
    <3> HIDE DEF t
    <3>3. Live(wrapper, j, t, forwarded)
      BY <1>2, <2>3, <2>6, <3>2 DEF Live
    <3>4. ToldFits(c, wrapper, j, t)
      BY <1>8, <3>2 DEF ToldFits
    <3>5. Fits(Rest.calls, wrapper, j, t, forwarded')
      BY <1>2, <1>4, <1>6, <3>3, <3>4 DEF Fits, c
    <3>6. /\ queue' \in Queues /\ job' \in Jobs
          /\ wrapper' = NoWrapper \/ wrapper' \in Wrappers
          /\ told' = Append(told, "redirect") /\ failed' = failed
          /\ Fits(queue'.calls, wrapper', job', told', forwarded')
      BY <1>1, <1>2, <1>6, <2>3, <3>1, <3>2, <3>5, TellsFits DEF t
    <3>7. HandlerInv'
      BY <1>1, <1>5, <1>6, <3>1, <3>6, ToldStep
    <3> QED BY <3>6, <3>7
  <2> QED BY <2>5, <2>6
<1>9. CASE ~((wrapper.error = "yes" /\ ~wrapper.http) \/ ~job.client) /\ ~wrapper.redirect
  <2> DEFINE t == Append(told, "response")
  <2>1. Tells("response", Rest, wrapper, job, Returns) /\ "response" \in Callbacks
    BY <1>0, <1>2, <1>9 DEF SendResponseIfNeeded, Callbacks
  <2>2. t \in Seq(Callbacks) /\ ResponseTold(t) /\ NotEnded(t)
    BY <1>1, <1>5, <1>6, <2>1, AppendOrdered
  <2> HIDE DEF t
  <2>3. Live(wrapper, job, t, forwarded)
    BY <1>2, <2>2 DEF Live
  <2>4. ToldFits(c, wrapper, job, t)
    BY <1>2, <1>3, <1>9, <2>2 DEF ToldFits
  <2>5. Fits(Rest.calls, wrapper, job, t, forwarded')
    BY <1>2, <1>4, <1>6, <2>3, <2>4 DEF Fits, c
  <2>6. /\ queue' \in Queues /\ job' \in Jobs
        /\ wrapper' = NoWrapper \/ wrapper' \in Wrappers
        /\ told' = Append(told, "response") /\ failed' = failed
        /\ Fits(queue'.calls, wrapper', job', told', forwarded')
    BY <1>1, <1>2, <1>6, <2>1, <2>2, <2>5, TellsFits DEF t
  <2>7. HandlerInv'
    BY <1>1, <1>5, <1>6, <2>1, <2>6, ToldStep
  <2> QED BY <2>6, <2>7
<1> QED BY <1>7, <1>8, <1>9

\* The bytes that came are read.
LEMMA ForwardDataInv ==
    ASSUME HandlerInv, Run("forwardData", ForwardData)
    PROVE  HandlerInv' /\ (told' = told \/ told' = Append(told, "data"))
<1>0. Runnable /\ Head(queue.calls) = "forwardData" /\ ForwardData
  BY DEF Run
<1>1. /\ queue \in Queues /\ queue.calls \in Seq(Calls) /\ queue.calls # <<>>
      /\ Rest \in Queues /\ Rest.calls = Tail(queue.calls) /\ Tail(queue.calls) \in Seq(Calls)
      /\ job \in Jobs /\ told \in Seq(Callbacks) /\ forwarded \in 0..MaxBytes
  BY <1>0, RunParts
<1>2. /\ wrapper \in Wrappers /\ wrapper # NoWrapper /\ Asserted /\ ~Unsent(wrapper)
      /\ Live(wrapper, job, told, forwarded) /\ CallsFit(queue.calls, wrapper)
      /\ ToldFits(queue.calls, wrapper, job, told)
      /\ InOrder(queue.calls) /\ Queued("forwardData", queue.calls)
  BY <1>0, CallOfReply
<1> DEFINE c == Rest.calls
           read == [wrapper EXCEPT !.pos = wrapper.size]
           bytes == wrapper.size - wrapper.pos
<1>3. /\ InOrder(c) /\ ~Queued("sendResponseIfNeeded", c)
      /\ \A y : Queued(y, queue.calls) <=> Queued(y, c) \/ y = "forwardData"
  BY <1>0, <1>1, <1>2, RestInOrder, TakeOne
<1>4. /\ read \in Wrappers /\ read.redirect = wrapper.redirect /\ read.http = wrapper.http
      /\ read.sniffing = wrapper.sniffing /\ read.conn = wrapper.conn
      /\ read.finished = wrapper.finished /\ read.error = wrapper.error
      /\ read.size = wrapper.size /\ read.pos = wrapper.size
      /\ read.announced = wrapper.announced
  BY <1>2 DEF Wrappers
<1>5. /\ wrapper.size \in 0..MaxBytes /\ wrapper.pos \in 0..MaxBytes /\ MaxBytes \in Nat
      /\ wrapper.pos <= wrapper.size /\ wrapper.announced <= wrapper.size
      /\ wrapper.announced \in 0..MaxBytes
  BY <1>2, HandlerAssumption DEF Wrappers, Live
<1>6. ~wrapper.redirect /\ ~Queued("sendResponseIfNeeded", queue.calls)
  BY <1>2, <1>3 DEF CallsFit
<1>7. /\ NotEnded(told)
      /\ job.client => ResponseTold(told) \/ (wrapper.error = "yes" /\ ~wrapper.http)
  BY <1>2, <1>6 DEF ToldFits, Live
<1>8. IF ~job.client \/ bytes = 0
      THEN queue' = Rest /\ wrapper' = read /\ UNCHANGED <<job, told, forwarded, failed>>
      ELSE forwarded' = forwarded + bytes /\ Tells("data", Rest, read, job, Returns)
  BY <1>0, <1>2, <1>6 DEF ForwardData
<1> HIDE DEF c, read
<1>9. CallsFit(c, read)
  BY <1>2, <1>3, <1>4, <1>5, <1>6 DEF CallsFit, Unsent
<1>10. read # NoWrapper
  BY <1>4, WrapperIsSome
<1>11. CASE ~job.client \/ bytes = 0
  <2>1. queue' = Rest /\ wrapper' = read /\ UNCHANGED <<job, told, forwarded, failed>>
    BY <1>8, <1>11
  <2>2. Live(read, job, told, forwarded)
    <3>1. bytes = 0 => wrapper.pos = wrapper.size
      BY <1>5
    <3>2. forwarded <= wrapper.pos /\ (job.client => forwarded = wrapper.pos)
      BY <1>2 DEF Live
    <3>3. forwarded <= read.pos /\ (job.client => forwarded = read.pos) /\ read.pos <= read.size
      BY <1>1, <1>4, <1>5, <1>11, <3>1, <3>2
    <3> QED BY <1>2, <1>4, <3>3 DEF Live
  <2>3. ToldFits(c, read, job, told)
    BY <1>2, <1>3, <1>4, <1>6, <1>7 DEF ToldFits, Unsent
  <2>4. Fits(Rest.calls, read, job, told, forwarded)
    BY <1>9, <1>10, <2>2, <2>3 DEF Fits, c
  <2>5. HandlerInv'
    BY <1>1, <1>4, <2>1, <2>4, SilentStep
  <2> QED BY <2>1, <2>5
<1>12. CASE job.client /\ bytes # 0
  <2> DEFINE t == Append(told, "data")
  <2>1. /\ forwarded' = forwarded + bytes /\ Tells("data", Rest, read, job, Returns)
        /\ "data" \in Callbacks
    BY <1>8, <1>12 DEF Callbacks
  <2>2. forwarded = wrapper.pos
    BY <1>2, <1>12 DEF Live
  <2>3. forwarded' = wrapper.size /\ forwarded' \in 0..MaxBytes /\ wrapper.size # 0
    BY <1>5, <1>12, <2>1, <2>2
  <2>4. t \in Seq(Callbacks) /\ NotEnded(t) /\ (ResponseTold(told) => ResponseTold(t))
    BY <1>1, <1>7, <2>1, AppendOrdered DEF HandlerInv
  <2> HIDE DEF t, bytes
  <2>5. Live(read, job, t, forwarded')
    <3>1. read.pos <= read.size /\ forwarded' <= read.pos /\ forwarded' = read.pos
      BY <1>4, <1>5, <2>3
    <3> QED BY <1>2, <1>4, <2>4, <3>1 DEF Live
  <2>6. ToldFits(c, read, job, t)
    BY <1>2, <1>3, <1>4, <1>6, <1>7, <2>4 DEF ToldFits, Unsent
  <2>7. Fits(Rest.calls, read, job, t, forwarded')
    BY <1>9, <1>10, <2>5, <2>6 DEF Fits, c
  <2>8. /\ queue' \in Queues /\ job' \in Jobs
        /\ wrapper' = NoWrapper \/ wrapper' \in Wrappers
        /\ told' = Append(told, "data") /\ failed' = failed
        /\ Fits(queue'.calls, wrapper', job', told', forwarded')
    BY <1>1, <1>4, <2>1, <2>3, <2>4, <2>7, TellsFits DEF t
  <2>9. ResponseTold(told) \/ LateErrors
    BY <1>2, <1>7, <1>12, <2>3 DEF Live
  <2>10. HandlerInv'
    BY <1>7, <2>1, <2>3, <2>8, <2>9, ToldStep
  <2> QED BY <2>8, <2>10
<1> QED BY <1>11, <1>12

\* The load ends; every byte was forwarded before, if it ends well.
LEMMA FinishInv ==
    ASSUME HandlerInv, Run("finish", Finish)
    PROVE  /\ HandlerInv'
           /\ \/ told' = told \/ told' = Append(told, "fail")
              \/ told' = Append(told, "finish") /\ forwarded \in wrapper.announced..wrapper.size
<1>0. Runnable /\ Head(queue.calls) = "finish" /\ Finish
  BY DEF Run
<1>1. /\ queue \in Queues /\ queue.calls \in Seq(Calls) /\ queue.calls # <<>>
      /\ Rest \in Queues /\ Rest.calls = Tail(queue.calls) /\ Tail(queue.calls) \in Seq(Calls)
      /\ job \in Jobs /\ told \in Seq(Callbacks) /\ forwarded \in 0..MaxBytes
  BY <1>0, RunParts
<1>2. /\ wrapper \in Wrappers /\ wrapper # NoWrapper /\ Asserted /\ ~Unsent(wrapper)
      /\ Live(wrapper, job, told, forwarded) /\ CallsFit(queue.calls, wrapper)
      /\ ToldFits(queue.calls, wrapper, job, told)
      /\ InOrder(queue.calls) /\ Queued("finish", queue.calls)
  BY <1>0, CallOfReply
<1> DEFINE c == Tail(queue.calls)
<1>3. /\ c = <<>>
      /\ \A y : Queued(y, queue.calls) <=> Queued(y, c) \/ y = "finish"
  BY <1>0, <1>1, <1>2, RestInOrder, TakeOne
<1>4. ~Queued("sendResponseIfNeeded", queue.calls) /\ ~Queued("forwardData", queue.calls)
  <2> HIDE DEF c
  <2>1. DOMAIN c = {}
    BY <1>3
  <2>2. \A y : ~Queued(y, c)
    BY <2>1 DEF Queued
  <2> QED BY <1>3, <2>2
<1>5. Dropped(Rest, wrapper) \in Queues /\ Dropped(Rest, wrapper).calls = <<>>
  BY <1>1, <1>2, Cleared DEF Dropped
<1>6. UNCHANGED forwarded
  BY <1>0, <1>2 DEF Finish
<1>7. CASE ~job.client
  <2>1. /\ queue' = Dropped(Rest, wrapper) /\ wrapper' = NoWrapper
        /\ UNCHANGED <<job, told, failed>>
    BY <1>0, <1>2, <1>7 DEF Finish
  <2>2. Fits(<<>>, NoWrapper, job, told, forwarded)
    BY DEF Fits, IdleFits
  <2>3. HandlerInv'
    BY <1>1, <1>5, <1>6, <2>1, <2>2, SilentStep
  <2> QED BY <2>1, <2>3
<1>8. CASE job.client /\ wrapper.redirect
  <2>1. /\ queue' = [Dropped(Rest, wrapper) EXCEPT !.calls = <<"start">>]
        /\ wrapper' = NoWrapper
        /\ UNCHANGED <<job, told, failed>>
    BY <1>0, <1>2, <1>8 DEF Finish
  <2>2. <<"start">> \in Seq(Calls)
    BY DEF Calls
  <2>3. queue' \in Queues /\ queue'.calls = <<"start">>
    BY <1>5, <2>1, <2>2, WithCalls
  <2>4. job.handle /\ job.tries > 0 /\ OnlyRedirects(told)
    BY <1>2, <1>8 DEF Live, ToldFits
  <2>5. Fits(<<"start">>, NoWrapper, job, told, forwarded)
    BY <2>4 DEF Fits, IdleFits
  <2>6. HandlerInv'
    BY <1>1, <1>6, <2>1, <2>3, <2>5, SilentStep
  <2> QED BY <2>1, <2>6
<1>9. CASE job.client /\ ~wrapper.redirect
  <2>0. PICK status \in StatusCodes(wrapper.http) :
          Tells(IF wrapper.error = "no" \/ shouldIgnoreHttpError(status, wrapper.contains)
                THEN "finish" ELSE "fail", Rest, wrapper, job, DropsWrapper)
    BY <1>0, <1>2, <1>9 DEF Finish
  <2> DEFINE well == wrapper.error = "no" \/ shouldIgnoreHttpError(status, wrapper.contains)
             x == IF well THEN "finish" ELSE "fail"
  <2>1. Tells(x, Rest, wrapper, job, DropsWrapper)
    BY <2>0
  <2>2. /\ x \in {"finish", "fail"} /\ x \in Callbacks
        /\ x = "finish" => ~(wrapper.error = "yes" /\ ~wrapper.http)
    BY DEF Callbacks, StatusCodes, shouldIgnoreHttpError
  <2> HIDE DEF x
  <2>3. /\ queue' \in Queues /\ job' \in Jobs /\ wrapper' = NoWrapper
        /\ told' = Append(told, x) /\ failed' = failed
        /\ Fits(queue'.calls, wrapper', job', told', forwarded')
    BY <1>1, <1>2, <2>1, <2>2, TellsEndFits
  <2>4. ResponseTold(told) \/ (wrapper.error = "yes" /\ ~wrapper.http)
    BY <1>2, <1>4, <1>9 DEF ToldFits
  <2>5. NotEnded(told)
    BY <1>2 DEF Live
  <2>6. HandlerInv'
    BY <1>1, <1>6, <2>2, <2>3, <2>4, <2>5, ToldStep
  <2>7. forwarded \in wrapper.announced..wrapper.size
    <3>1. ~(wrapper.announced > wrapper.pos)
      BY <1>2, <1>4, <1>9 DEF CallsFit
    <3>2. wrapper.pos <= wrapper.size /\ forwarded = wrapper.pos
      BY <1>2, <1>9 DEF Live
    <3>3. wrapper.pos \in Nat /\ wrapper.size \in Nat /\ wrapper.announced \in Nat
      BY <1>2 DEF Wrappers
    <3> QED BY <3>1, <3>2, <3>3
  <2> QED BY <2>2, <2>3, <2>6, <2>7
<1> QED BY <1>7, <1>8, <1>9

-----------------------------------------------------------------------------
(* The theorems *)

\* Every step keeps the invariant, if no load is aborted before its start.
LEMMA StepInv == ASSUME ~AbortsUnstarted PROVE HandlerInv /\ [Next]_vars => HandlerInv'
<1> SUFFICES ASSUME HandlerInv, [Next]_vars PROVE HandlerInv'
  OBVIOUS
<1>1. CASE ReadyRead
  BY <1>1, ReadyReadInv
<1>2. CASE Finished
  BY <1>2, FinishedInv
<1>3. CASE PostedFlush \/ EndFlush
  BY <1>3, FlushInv
<1>4. ASSUME NEW defer \in BOOLEAN, SetDefers(defer) PROVE HandlerInv'
  BY <1>4, SetDefersInv
<1>5. CASE Abort
  BY <1>5, AbortInv
<1>6. CASE ClearClient \/ Delete
  BY <1>6, LeaveInv
<1>7. CASE RunCall
  BY <1>7, StartInv, SendResponseInv, ForwardDataInv, FinishInv DEF RunCall
<1>8. CASE UNCHANGED vars
  BY <1>8 DEF vars, HandlerInv, TypeOK, Ordered, ResponseFirst
<1> QED BY <1>1, <1>2, <1>3, <1>4, <1>5, <1>6, <1>7, <1>8 DEF Next

\* The invariant always holds.
LEMMA InvAlways == ASSUME ~AbortsUnstarted PROVE Spec => []HandlerInv
<1>1. Init => HandlerInv
  BY InitInv
<1>2. HandlerInv /\ [Next]_vars => HandlerInv'
  BY StepInv
<1> QED BY <1>1, <1>2, PTL DEF Spec

(* No assertion of QNetworkReplyHandler fails and no call runs for an aborted load: start,
   sendResponseIfNeeded, forwardData and finish find the handle and the wrapper they assert,
   whatever the page does in callbacks, and m_redirectionTries stays in range. *)
THEOREM HandlerAssertions == ASSUME ~AbortsUnstarted PROVE Spec => []AssertionsHold
<1>1. Spec => []HandlerInv
  BY InvAlways
<1>2. HandlerInv => AssertionsHold
  BY DEF HandlerInv, AssertionsHold
<1> QED BY <1>1, <1>2, PTL

(* The client hears of redirections, of at most one response, of data and of one end, in this
   order, and of nothing after the end. *)
THEOREM CallbackOrder ==
    ASSUME ~AbortsUnstarted, ~LateErrors
    PROVE  Spec => []CallbacksInOrder
<1>1. Spec => []HandlerInv
  BY InvAlways
<1>2. HandlerInv => CallbacksInOrder
  BY DEF HandlerInv, CallbacksInOrder, Ordered, ResponseFirst
<1> QED BY <1>1, <1>2, PTL

(* didFinishLoading is called only when every byte a signal has announced was forwarded. *)
THEOREM BytesForwarded == ASSUME ~AbortsUnstarted PROVE Spec => NoByteLost
<1> DEFINE Whole == told' # told /\ Last(told') = "finish" =>
                      forwarded \in wrapper.announced..wrapper.size
<1>1. HandlerInv /\ [Next]_vars => [Whole]_vars
  <2> SUFFICES ASSUME HandlerInv, Next, told' # told, Last(told') = "finish"
               PROVE  forwarded \in wrapper.announced..wrapper.size
    OBVIOUS
  <2>1. told \in Seq(Callbacks)
    BY TypeParts DEF HandlerInv
  <2>2. ASSUME NEW x \in Callbacks, told' = Append(told, x) PROVE x = "finish"
    <3>1. Last(told') = x
      BY <2>1, <2>2 DEF Last
    <3> QED BY <3>1
  <2>3. PICK call \in {"sendResponseIfNeeded", "forwardData", "finish"} :
          \/ call = "sendResponseIfNeeded" /\ Run(call, SendResponseIfNeeded)
          \/ call = "forwardData" /\ Run(call, ForwardData)
          \/ call = "finish" /\ Run(call, Finish)
    <3>1. ~(ReadyRead \/ Finished \/ PostedFlush \/ Abort \/ ClearClient \/ Delete \/ EndFlush)
      BY ZenonT(60) DEF ReadyRead, Finished, PostedFlush, Abort, ClearClient, Delete, EndFlush
    <3>2. ~(\E defer \in BOOLEAN : SetDefers(defer)) /\ ~Run("start", Start)
      BY DEF SetDefers, Run, Start, Fails
    <3> QED BY <3>1, <3>2 DEF Next, RunCall
  <2>4. "fail" \in Callbacks /\ "redirect" \in Callbacks /\ "response" \in Callbacks
        /\ "data" \in Callbacks
    BY DEF Callbacks
  <2>5. ~Run("sendResponseIfNeeded", SendResponseIfNeeded)
    BY <2>2, <2>4, SendResponseInv
  <2>6. ~Run("forwardData", ForwardData)
    BY <2>2, <2>4, ForwardDataInv
  <2> QED BY <2>2, <2>3, <2>4, <2>5, <2>6, FinishInv
<1>2. Spec => []HandlerInv
  BY InvAlways
<1> QED BY <1>1, <1>2, PTL DEF Spec, NoByteLost

=============================================================================
