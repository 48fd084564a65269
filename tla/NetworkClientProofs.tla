------------------------- MODULE NetworkClientProofs -------------------------
(***************************************************************************)
(* Proofs about NetworkClient, for every set of calls, every retry         *)
(* strategy and any number of requests in flight.                          *)
(*                                                                         *)
(* The counts: only finitely many requests are in flight at a time, so     *)
(* their number is a sum that a step changes by one at most (InFlight-     *)
(* Change).  A failed request leaves at most the one timer behind, and the *)
(* timer turns into one request.                                           *)
(***************************************************************************)
EXTENDS NetworkClient, SumLemmas

\* What the fields remember is a call that was made, in full; before the first
\* call there is nothing in flight and nothing to retry.
Remembered ==
  IF lastUrl = None
    THEN ~reconnectTimer /\ \A r \in Requests : inflight[r] = 0
    ELSE [url |-> lastUrl, file |-> isFileTransfer,
          body |-> IF isFileTransfer THEN lastFilePathName ELSE lastData] \in Calls

\* Finitely many requests are in flight, though there may be infinitely many to
\* choose from.
Waiting       == {r \in Requests : inflight[r] > 0}
FinitelyMany  == IsFiniteSet(Waiting)

\* The inductive invariant.
ClientInv == ClientTypeOK /\ RetryPending /\ Remembered /\ RequestsAreCalls /\ FinitelyMany

-----------------------------------------------------------------------------
(* The number of requests in flight *)

LEMMA InFlightIsSum ==
  /\ InFlight = SumOver(inflight, Waiting)
  /\ InFlight' = SumOver(inflight', Waiting')
<1>1. InFlight = SumOver(inflight, Waiting)
  BY Zenon DEF InFlight, Waiting, SumOver, MapThenSumSet, MapThenFoldSet
<1>2. InFlight' = SumOver(inflight', Waiting')
  BY Zenon DEF InFlight, Waiting, SumOver, MapThenSumSet, MapThenFoldSet
<1>. QED
  BY <1>1, <1>2

\* A request that is sent or ends changes the number by as much as its own count.
LEMMA InFlightChange ==
  ASSUME FinitelyMany, inflight \in [Requests -> Nat], inflight' \in [Requests -> Nat],
         NEW r \in Requests, \A q \in Requests \ {r} : inflight'[q] = inflight[q]
  PROVE  /\ FinitelyMany'
         /\ InFlight \in Nat /\ InFlight' \in Nat
         /\ InFlight' + inflight[r] = InFlight + inflight'[r]
<1>. DEFINE T == Waiting \cup {r}
            f == inflight
            g == inflight'
<1>1. IsFiniteSet(T) /\ T \in SUBSET Requests
  BY FS_AddElement DEF FinitelyMany, Waiting
<1>2. Waiting \in SUBSET T /\ Waiting' \in SUBSET T
  BY DEF Waiting
<1>3. FinitelyMany'
  <2>. HIDE DEF T
  <2>1. IsFiniteSet(Waiting')
    BY <1>1, <1>2, FS_Subset
  <2>. QED
    BY <2>1 DEF FinitelyMany
<1>4. /\ \A q \in T : f[q] \in Nat /\ g[q] \in Nat
      /\ \A q \in T \ Waiting : f[q] = 0
      /\ \A q \in T \ Waiting' : g[q] = 0
      /\ \A q \in T \ {r} : g[q] = f[q]
  BY <1>1 DEF Waiting
<1>5. r \in T
  OBVIOUS
<1>. HIDE DEF T, f, g
<1>6. SumOver(f, T) = SumOver(f, Waiting) /\ SumOver(g, T) = SumOver(g, Waiting')
  BY <1>1, <1>2, <1>4, SumSupport
<1>7. SumOver(g, T) + f[r] = SumOver(f, T) + g[r]
  BY <1>1, <1>4, <1>5, SumChange
<1>8. SumOver(f, T) \in Nat /\ SumOver(g, T) \in Nat
  BY <1>1, <1>4, SumIsNat
<1>. QED
  BY <1>3, <1>6, <1>7, <1>8, InFlightIsSum DEF f, g

\* No request changes: neither does the number.
LEMMA InFlightSame ==
  ASSUME FinitelyMany, inflight \in [Requests -> Nat], UNCHANGED inflight
  PROVE  FinitelyMany' /\ InFlight' = InFlight /\ InFlight \in Nat
<1>1. Waiting' = Waiting
  BY DEF Waiting
<1>2. \A r \in Waiting : inflight[r] \in Nat
  BY DEF Waiting
<1>3. SumOver(inflight, Waiting) \in Nat
  BY <1>2, SumIsNat DEF FinitelyMany
<1>. QED
  BY <1>1, <1>3, InFlightIsSum DEF FinitelyMany

\* A call is one of the two kinds of request, and never the empty one.
LEMMA CallShape ==
  ASSUME NEW c \in Calls
  PROVE  /\ c \in Requests
         /\ c = [url |-> c.url, file |-> c.file, body |-> c.body]
         /\ c.url \in Urls /\ c.url # None
         /\ c.file \in BOOLEAN
         /\ c.file => c.body \in Files /\ c.body # None
         /\ ~c.file => c.body \in Objects
<1>1. c \in Requests
  BY ClientAssumption DEF ClientAssumption
<1>. QED
  BY <1>1, ClientAssumption DEF ClientAssumption, Requests

\* A posting sends at most one request.
LEMMA PostingSendsOne ==
  ASSUME FinitelyMany, inflight \in [Requests -> Nat], NEW c \in Calls,
         IF c.file THEN postFile(c.url, c.body) ELSE postJson(c.url, c.body)
  PROVE  FinitelyMany' /\ InFlight \in Nat /\ InFlight' \in Nat /\ InFlight' <= InFlight + 1
<1>1. c \in Requests /\ c = [url |-> c.url, file |-> c.file, body |-> c.body] /\ c.file \in BOOLEAN
  BY CallShape
<1>2. inflight' = [inflight EXCEPT ![c] = @ + 1] \/ inflight' = inflight
  BY <1>1 DEF postFile, postJson, Send
<1>4. CASE inflight' = inflight
  BY <1>4, InFlightSame
<1>5. CASE inflight' = [inflight EXCEPT ![c] = @ + 1]
  <2>1. /\ inflight' \in [Requests -> Nat] /\ inflight'[c] = inflight[c] + 1
        /\ inflight[c] \in Nat
        /\ \A q \in Requests \ {c} : inflight'[q] = inflight[q]
    BY <1>1, <1>5
  <2>2. /\ FinitelyMany' /\ InFlight \in Nat /\ InFlight' \in Nat
        /\ InFlight' + inflight[c] = InFlight + inflight'[c]
    BY <1>1, <2>1, InFlightChange
  <2>. QED
    BY <2>1, <2>2
<1>. QED
  BY <1>2, <1>4, <1>5

\* A request that ends is one less.
LEMMA FinishEndsOne ==
  ASSUME FinitelyMany, inflight \in [Requests -> Nat], NEW r \in Requests, Finish(r)
  PROVE  FinitelyMany' /\ InFlight \in Nat /\ InFlight' \in Nat /\ InFlight' < InFlight
<1>2. /\ inflight' \in [Requests -> Nat] /\ inflight'[r] + 1 = inflight[r]
      /\ inflight'[r] \in Nat /\ inflight[r] \in Nat
      /\ \A q \in Requests \ {r} : inflight'[q] = inflight[q]
  BY DEF Finish
<1>3. /\ FinitelyMany' /\ InFlight \in Nat /\ InFlight' \in Nat
      /\ InFlight' + inflight[r] = InFlight + inflight'[r]
  BY <1>2, InFlightChange
<1>4. InFlight' < InFlight
  BY <1>2, <1>3
<1>. QED
  BY <1>3, <1>4

-----------------------------------------------------------------------------
(* The invariant *)

\* The strategy in force is one that was given.
LEMMA StrategyIs ==
  ASSUME ClientTypeOK
  PROVE  /\ maxRetries \in Nat /\ initialDelay \in Nat /\ maxDelay \in Nat
         /\ \E s \in Strategies : /\ s.maxRetries = maxRetries
                                 /\ s.initialDelay = initialDelay /\ s.maxDelay = maxDelay
<1>. DEFINE s == [maxRetries |-> maxRetries, initialDelay |-> initialDelay, maxDelay |-> maxDelay]
<1>1. s \in Strategies
  BY DEF ClientTypeOK
<1>2. s \in [maxRetries : Nat, initialDelay : Nat, maxDelay : Nat]
  BY <1>1, ClientAssumption DEF ClientAssumption
<1>3. s.maxRetries = maxRetries /\ s.initialDelay = initialDelay /\ s.maxDelay = maxDelay
  OBVIOUS
<1>. HIDE DEF s
<1>. QED
  BY <1>1, <1>2, <1>3

\* The wait before a retry that the limit allows is between zero and maxDelay.
LEMMA BackoffBounded ==
  ASSUME ClientTypeOK, NEW k \in Nat, k < maxRetries
  PROVE  calculateBackoff(k + 1) \in 0..maxDelay
<1>1. PICK s \in Strategies : /\ s.maxRetries = maxRetries
                              /\ s.initialDelay = initialDelay /\ s.maxDelay = maxDelay
  BY StrategyIs
<1>2. maxRetries \in Nat /\ initialDelay \in Nat /\ maxDelay \in Nat /\ MaxWait \in Nat
  BY StrategyIs, ClientAssumption DEF ClientAssumption
<1>3. k \in 0..s.maxRetries
  BY <1>1, <1>2
<1>4. s.initialDelay * 2^k \in 0..MaxWait
  BY <1>3, WaitAssumption DEF WaitAssumption
<1>5. (k + 1) - 1 = k
  OBVIOUS
<1>6. initialDelay * 2^((k + 1) - 1) \in 0..MaxWait
  BY <1>1, <1>4, <1>5
<1>. QED
  BY <1>2, <1>6 DEF calculateBackoff

\* Initially nothing is remembered, sent or pending.
LEMMA InitInv == ClientInit => ClientInv
<1>. SUFFICES ASSUME ClientInit PROVE ClientInv
  OBVIOUS
<1>. USE DEF ClientInit
<1>1. ClientTypeOK
  <2>1. inflight \in [Requests -> Nat]
    OBVIOUS
  <2>2. PICK s \in Strategies :
          maxRetries = s.maxRetries /\ initialDelay = s.initialDelay /\ maxDelay = s.maxDelay
    OBVIOUS
  <2>3. s \in [maxRetries : Nat, initialDelay : Nat, maxDelay : Nat]
    BY ClientAssumption DEF ClientAssumption
  <2>4. [maxRetries |-> maxRetries, initialDelay |-> initialDelay, maxDelay |-> maxDelay] = s
    BY <2>2, <2>3
  <2>5. delay \in 0..s.maxDelay
    BY <2>3
  <2>. QED
    BY <2>1, <2>4, <2>5 DEF ClientTypeOK
<1>2. RetryPending /\ Remembered /\ RequestsAreCalls
  BY DEF RetryPending, Remembered, RequestsAreCalls
<1>3. Waiting = {}
  BY DEF Waiting
<1>4. FinitelyMany
  BY <1>3, FS_EmptySet DEF FinitelyMany
<1>. QED
  BY <1>1, <1>2, <1>4 DEF ClientInv

\* What a posting leaves behind, whether the user or the timer asked for it.
Posted ==
  /\ (lastUrl \in Urls)' /\ (lastUrl # None)'
  /\ (lastData \in Objects \cup {None})'
  /\ (lastFilePathName \in Files \cup {None})'
  /\ (isFileTransfer \in BOOLEAN)'
  /\ (currentRetry = 0)'
  /\ (inflight \in [Requests -> Nat])'
  /\ InFlight' \in Nat
  /\ Remembered' /\ RequestsAreCalls' /\ FinitelyMany'

\* Posting the object of a call remembers and sends that call.
LEMMA PostJsonPosts ==
  ASSUME ClientInv, NEW c \in Calls, ~c.file, postJson(c.url, c.body)
  PROVE  Posted
<1>1. /\ c \in Requests /\ c.url \in Urls /\ c.url # None /\ c.body \in Objects
      /\ c = [url |-> c.url, file |-> FALSE, body |-> c.body]
  BY CallShape
<1>2. inflight' = [inflight EXCEPT ![c] = @ + 1]
  BY <1>1 DEF postJson, Send
<1>3. /\ lastUrl' = c.url /\ lastData' = c.body /\ lastFilePathName' = None
      /\ isFileTransfer' = FALSE /\ currentRetry' = 0
  BY DEF postJson
<1>4. inflight' \in [Requests -> Nat]
  BY <1>1, <1>2 DEF ClientInv, ClientTypeOK
<1>5. Remembered'
  BY <1>1, <1>3 DEF Remembered
<1>6. RequestsAreCalls'
  BY <1>1, <1>2 DEF ClientInv, ClientTypeOK, RequestsAreCalls
<1>7. FinitelyMany' /\ InFlight' \in Nat
  BY PostingSendsOne DEF ClientInv, ClientTypeOK
<1>. QED
  BY <1>1, <1>3, <1>4, <1>5, <1>6, <1>7 DEF Posted

\* Posting the file of a call remembers that call, and sends it or nothing.
LEMMA PostFilePosts ==
  ASSUME ClientInv, NEW c \in Calls, c.file, postFile(c.url, c.body)
  PROVE  Posted
<1>1. /\ c \in Requests /\ c.url \in Urls /\ c.url # None
      /\ c.body \in Files /\ c.body # None
      /\ c = [url |-> c.url, file |-> TRUE, body |-> c.body]
  BY CallShape
<1>2. inflight' = [inflight EXCEPT ![c] = @ + 1] \/ inflight' = inflight
  BY <1>1 DEF postFile, Send
<1>3. /\ lastUrl' = c.url /\ lastData' = lastData /\ lastFilePathName' = c.body
      /\ isFileTransfer' = TRUE /\ currentRetry' = 0
  BY DEF postFile
<1>4. inflight' \in [Requests -> Nat]
  BY <1>1, <1>2 DEF ClientInv, ClientTypeOK
<1>5. Remembered'
  BY <1>1, <1>3 DEF Remembered
<1>6. RequestsAreCalls'
  BY <1>1, <1>2 DEF ClientInv, ClientTypeOK, RequestsAreCalls
<1>7. FinitelyMany' /\ InFlight' \in Nat
  BY PostingSendsOne DEF ClientInv, ClientTypeOK
<1>. QED
  BY <1>1, <1>3, <1>4, <1>5, <1>6, <1>7 DEF Posted, ClientInv, ClientTypeOK

\* The user's posts preserve the invariant.
LEMMA PostInv ==
  ASSUME ClientInv, NEW c \in Calls, Post(c)
  PROVE  ClientInv'
<1>1. Posted
  BY PostJsonPosts, PostFilePosts, CallShape DEF Post
<1>2. ClientTypeOK'
  BY <1>1 DEF Posted, Post, strategy, ClientInv, ClientTypeOK
<1>3. RetryPending'
  BY <1>1 DEF Posted, RetryPending
<1>. QED
  BY <1>1, <1>2, <1>3 DEF Posted, ClientInv

\* The timer resends the call that is remembered.
LEMMA ReconnectResends ==
  ASSUME ClientInv, attemptReconnect
  PROVE  \E c \in Calls :
           IF c.file THEN postFile(c.url, c.body) ELSE postJson(c.url, c.body)
<1>. DEFINE c == [url |-> lastUrl, file |-> isFileTransfer,
                  body |-> IF isFileTransfer THEN lastFilePathName ELSE lastData]
<1>1. c \in Calls
  BY DEF attemptReconnect, ClientInv, Remembered
<1>2. c.url = lastUrl /\ c.file = isFileTransfer
  OBVIOUS
<1>3. CASE isFileTransfer
  <2>1. c.file /\ c.body = lastFilePathName
    BY <1>3
  <2>2. lastFilePathName # None
    BY <1>1, <2>1, CallShape
  <2>3. postFile(c.url, c.body)
    BY <1>3, <2>1, <2>2, <1>2 DEF attemptReconnect
  <2>. HIDE DEF c
  <2>. QED
    BY <1>1, <2>1, <2>3
<1>4. CASE ~isFileTransfer
  <2>1. ~c.file /\ c.body = lastData
    BY <1>4
  <2>2. postJson(c.url, c.body)
    BY <1>4, <2>1, <1>2 DEF attemptReconnect
  <2>. HIDE DEF c
  <2>. QED
    BY <1>1, <2>1, <2>2
<1>. QED
  BY <1>3, <1>4

\* So it preserves the invariant.
LEMMA ReconnectInv ==
  ASSUME ClientInv, attemptReconnect
  PROVE  ClientInv'
<1>1. Posted
  <2>1. PICK c \in Calls : IF c.file THEN postFile(c.url, c.body) ELSE postJson(c.url, c.body)
    BY ReconnectResends
  <2>2. CASE c.file
    BY <2>1, <2>2, PostFilePosts
  <2>3. CASE ~c.file
    BY <2>1, <2>3, PostJsonPosts
  <2>. QED
    BY <2>2, <2>3
<1>2. ClientTypeOK'
  <2>1. attempts' \in Nat
    BY DEF attemptReconnect, ClientInv, ClientTypeOK
  <2>. QED
    BY <1>1, <2>1 DEF Posted, attemptReconnect, strategy, ClientInv, ClientTypeOK
<1>3. RetryPending'
  BY <1>1 DEF Posted, RetryPending
<1>. QED
  BY <1>1, <1>2, <1>3 DEF Posted, ClientInv

\* A request that ends, with an answer or not, preserves it.
LEMMA FailInv ==
  ASSUME ClientInv, NEW r \in Requests, FailRequest(r)
  PROVE  ClientInv'
<1>. USE DEF ClientInv
<1>1. /\ inflight[r] \in Nat /\ inflight[r] > 0
      /\ inflight' = [inflight EXCEPT ![r] = @ - 1]
      /\ UNCHANGED <<last, strategy, history>>
  BY DEF ClientTypeOK, FailRequest, Finish
<1>2. maxRetries \in Nat /\ currentRetry \in Nat
  BY StrategyIs DEF ClientTypeOK
<1>3. /\ inflight' \in [Requests -> Nat]
      /\ \A q \in Requests : inflight'[q] > 0 => inflight[q] > 0
  BY <1>1 DEF ClientTypeOK
<1>4. lastUrl # None
  BY <1>1 DEF Remembered
<1>5. /\ currentRetry' \in Nat /\ reconnectTimer' \in BOOLEAN
      /\ \E s \in Strategies : delay' \in 0..s.maxDelay
  <2>1. CASE currentRetry < maxRetries
    <3>1. delay' \in 0..maxDelay
      BY <2>1, <1>2, BackoffBounded DEF FailRequest
    <3>. QED
      BY <2>1, <1>2, <3>1, StrategyIs DEF FailRequest
  <2>2. CASE ~(currentRetry < maxRetries)
    BY <2>2, <1>2 DEF FailRequest, retry, ClientTypeOK
  <2>. QED
    BY <2>1, <2>2
<1>6. ClientTypeOK'
  BY <1>1, <1>3, <1>5 DEF ClientTypeOK, last, strategy, history
<1>7. RetryPending'
  BY <1>2 DEF RetryPending, FailRequest, retry
<1>8. Remembered'
  BY <1>1, <1>4 DEF Remembered, last
<1>9. RequestsAreCalls'
  BY <1>3 DEF RequestsAreCalls
<1>10. FinitelyMany'
  BY FinishEndsOne DEF FailRequest, ClientTypeOK
<1>. QED
  BY <1>6, <1>7, <1>8, <1>9, <1>10

LEMMA AnswerInv ==
  ASSUME ClientInv, NEW r \in Requests, AnswerRequest(r)
  PROVE  ClientInv'
<1>. USE DEF ClientInv
<1>1. /\ inflight[r] \in Nat /\ inflight[r] > 0
      /\ inflight' = [inflight EXCEPT ![r] = @ - 1]
      /\ UNCHANGED <<last, strategy>>
  BY DEF ClientTypeOK, AnswerRequest, Finish
<1>2. /\ inflight' \in [Requests -> Nat]
      /\ \A q \in Requests : inflight'[q] > 0 => inflight[q] > 0
  BY <1>1 DEF ClientTypeOK
<1>3. lastUrl # None
  BY <1>1 DEF Remembered
<1>4. delivered' \in BOOLEAN
  BY DEF AnswerRequest, ClientTypeOK
<1>5. ClientTypeOK'
  BY <1>1, <1>2, <1>4 DEF ClientTypeOK, last, strategy, AnswerRequest
<1>6. RetryPending'
  BY DEF RetryPending, AnswerRequest
<1>7. Remembered'
  BY <1>1, <1>3 DEF Remembered, last
<1>8. RequestsAreCalls'
  BY <1>2 DEF RequestsAreCalls
<1>9. FinitelyMany'
  BY FinishEndsOne DEF AnswerRequest, ClientTypeOK
<1>. QED
  BY <1>5, <1>6, <1>7, <1>8, <1>9

\* Every step of the client preserves the invariant.
LEMMA NextInv == ClientInv /\ [ClientNext]_clientVars => ClientInv'
<1>. SUFFICES ASSUME ClientInv, [ClientNext]_clientVars PROVE ClientInv'
  OBVIOUS
<1>1. CASE \E c \in Calls : Post(c)
  BY <1>1, PostInv
<1>2. CASE \E s \in Strategies : setReconnectStrategy(s)
  <2>1. PICK s \in Strategies : setReconnectStrategy(s)
    BY <1>2
  <2>2. s \in [maxRetries : Nat, initialDelay : Nat, maxDelay : Nat]
    BY ClientAssumption DEF ClientAssumption
  <2>3. [maxRetries |-> maxRetries', initialDelay |-> initialDelay', maxDelay |-> maxDelay'] = s
    BY <2>1, <2>2 DEF setReconnectStrategy
  <2>4. UNCHANGED <<last, retry, inflight, history>>
    BY <2>1 DEF setReconnectStrategy
  <2>. QED
    BY <2>3, <2>4 DEF last, retry, history, ClientInv, ClientTypeOK,
              RetryPending, Remembered, RequestsAreCalls, FinitelyMany, Waiting
<1>3. CASE \E r \in Requests : FailRequest(r) \/ AnswerRequest(r)
  BY <1>3, FailInv, AnswerInv
<1>4. CASE \E r \in Requests, peer \in Certificates, errors \in (SUBSET SslErrors) \ {{}} :
             onSslErrors(r, peer, errors)
  BY <1>4, FailInv DEF onSslErrors
<1>5. CASE attemptReconnect
  BY <1>5, ReconnectInv
<1>6. CASE UNCHANGED clientVars
  BY <1>6 DEF clientVars, last, retry, strategy, history, ClientInv, ClientTypeOK,
              RetryPending, Remembered, RequestsAreCalls, FinitelyMany, Waiting
<1>. QED
  BY <1>1, <1>2, <1>3, <1>4, <1>5, <1>6 DEF ClientNext

\* The invariant holds in every reachable state.
THEOREM ClientInvariant == ClientSpec => []ClientInv
<1>. QED
  BY InitInv, NextInv, PTL DEF ClientSpec

\* Type correctness of the client (ClientTypeOK), for any calls and strategy.
THEOREM ClientTypeCorrect == ClientSpec => []ClientTypeOK
<1>1. ClientInv => ClientTypeOK
  BY DEF ClientInv
<1>. QED
  BY <1>1, ClientInvariant, PTL

\* currentRetry is positive only while the reconnect timer runs.
THEOREM RetryIsPending == ClientSpec => []RetryPending
<1>1. ClientInv => RetryPending
  BY DEF ClientInv
<1>. QED
  BY <1>1, ClientInvariant, PTL

\* Only requests that were asked for are ever sent by post and retry.
THEOREM OnlyCallsAreSent == ClientSpec => []RequestsAreCalls
<1>1. ClientInv => RequestsAreCalls
  BY DEF ClientInv
<1>. QED
  BY <1>1, ClientInvariant, PTL

\* A failed request always leaves the reconnect timer running when the strategy
\* allows a retry, however many requests share the counter.
THEOREM FailuresAreRetried == ClientSpec => FailureIsRetried
<1>. DEFINE Step == (\E r \in Requests : FailRequest(r)) /\ maxRetries > 0
                      => reconnectTimer'
<1>1. ClientInv /\ [ClientNext]_clientVars => [Step]_clientVars
  <2>. SUFFICES ASSUME ClientInv, NEW r \in Requests, FailRequest(r), maxRetries > 0
                PROVE  reconnectTimer'
    OBVIOUS
  <2>1. maxRetries \in Nat /\ currentRetry \in Nat /\ RetryPending
    BY StrategyIs DEF ClientInv, ClientTypeOK
  <2>. QED
    BY <2>1 DEF FailRequest, RetryPending, retry
<1>. QED
  BY <1>1, ClientInvariant, PTL DEF ClientSpec, FailureIsRetried

-----------------------------------------------------------------------------
(* The load *)

\* One request less makes room for a retry, and the retry for its request.
LEMMA RetryMakesRoom ==
  ASSUME NEW n \in Nat, NEW m \in Nat, NEW t \in BOOLEAN, NEW u \in BOOLEAN,
         m < n \/ (m <= n + 1 /\ t /\ ~u) \/ (m = n /\ u = t)
  PROVE  m + (IF u THEN 1 ELSE 0) <= n + (IF t THEN 1 ELSE 0)
<1>1. CASE m < n
  BY <1>1
<1>2. CASE m <= n + 1 /\ t /\ ~u
  BY <1>2
<1>3. CASE m = n /\ u = t
  BY <1>3
<1>. QED
  BY <1>1, <1>2, <1>3

\* No step but a post of the user adds to the requests and the retry together.
LEMMA StepOutstanding ==
  ASSUME ClientInv, [ClientNext]_clientVars
  PROVE  /\ InFlight \in Nat /\ InFlight' \in Nat
         /\ (\A c \in Calls : ~Post(c)) => Outstanding' <= Outstanding
<1>. DEFINE Room == \/ InFlight' < InFlight
                    \/ InFlight' <= InFlight + 1 /\ reconnectTimer /\ ~reconnectTimer'
                    \/ InFlight' = InFlight /\ reconnectTimer' = reconnectTimer
            Kept == InFlight \in Nat /\ InFlight' \in Nat
<1>1. /\ reconnectTimer \in BOOLEAN /\ reconnectTimer' \in BOOLEAN
      /\ inflight \in [Requests -> Nat] /\ FinitelyMany
  BY NextInv DEF ClientInv, ClientTypeOK
<1>2. ASSUME NEW c \in Calls, Post(c) PROVE Kept
  BY <1>1, <1>2, PostingSendsOne DEF Post
<1>3. ASSUME UNCHANGED inflight, UNCHANGED reconnectTimer PROVE Kept /\ Room
  <2>1. InFlight' = InFlight /\ InFlight \in Nat
    BY <1>1, <1>3, InFlightSame
  <2>. QED
    BY <1>3, <2>1
<1>4. ASSUME NEW r \in Requests, FailRequest(r) \/ AnswerRequest(r) PROVE Kept /\ Room
  BY <1>1, <1>4, FinishEndsOne DEF FailRequest, AnswerRequest
<1>5. ASSUME attemptReconnect PROVE Kept /\ Room
  BY <1>1, <1>5, ReconnectResends, PostingSendsOne DEF attemptReconnect
<1>6. CASE \E c \in Calls : Post(c)
  BY <1>2, <1>6
<1>. HIDE DEF Kept, Room
<1>7. CASE ~\E c \in Calls : Post(c)
  <2>1. ASSUME (\E s \in Strategies : setReconnectStrategy(s)) \/ UNCHANGED clientVars
        PROVE  Kept /\ Room
    <3>1. UNCHANGED inflight /\ UNCHANGED reconnectTimer
      BY <2>1 DEF setReconnectStrategy, clientVars, retry
    <3>. QED
      BY <1>3, <3>1, Zenon
  <2>2. Kept /\ Room
    BY <1>4, <1>5, <1>7, <2>1 DEF ClientNext, onSslErrors
  <2>3. InFlight \in Nat /\ InFlight' \in Nat
    BY <2>2 DEF Kept
  <2>4. Outstanding' <= Outstanding
    <3>1. InFlight' + (IF reconnectTimer' THEN 1 ELSE 0)
            <= InFlight + (IF reconnectTimer THEN 1 ELSE 0)
      BY <1>1, <2>2, <2>3, RetryMakesRoom, Zenon DEF Room
    <3>. QED
      BY <3>1, Zenon DEF Outstanding
  <2>. QED
    BY <2>3, <2>4
<1>. QED
  BY <1>6, <1>7

\* Retrying never multiplies the load (NoRetryStorm): whatever fails together, and
\* for any strategy, only the user adds to the requests in flight and the retry
\* that is pending.  There may be infinitely many requests to choose from.
THEOREM RetriesDoNotMultiply == ClientSpec => NoRetryStorm
<1>. DEFINE Step == (\A c \in Calls : ~Post(c)) => Outstanding' <= Outstanding
<1>1. ClientInv /\ [ClientNext]_clientVars => [Step]_clientVars
  BY StepOutstanding
<1>. QED
  BY <1>1, ClientInvariant, PTL DEF ClientSpec, NoRetryStorm

-----------------------------------------------------------------------------
(* The retry counter *)

\* A posting starts the count anew, whoever asks for it.
LEMMA PostingResets ==
  ASSUME NEW c \in Calls,
         IF c.file THEN postFile(c.url, c.body) ELSE postJson(c.url, c.body)
  PROVE  currentRetry' = 0
BY DEF postFile, postJson

LEMMA InitCount == ClientInit => CountFollowsLoad
<1>. SUFFICES ASSUME ClientInit PROVE CountFollowsLoad
  OBVIOUS
<1>1. Waiting = {} /\ currentRetry = 0 /\ load = 0
  BY DEF ClientInit, Waiting
<1>2. InFlight = 0
  BY <1>1, InFlightIsSum, SumEmpty
<1>. QED
  BY <1>1, <1>2 DEF CountFollowsLoad

\* Every step keeps the count within the load.
LEMMA StepCount ==
  ASSUME ClientInv, CountFollowsLoad, [ClientNext]_clientVars
  PROVE  CountFollowsLoad'
<1>. DEFINE n == InFlight
            m == InFlight'
            k == currentRetry
            l == currentRetry'
<1>1. /\ inflight \in [Requests -> Nat] /\ FinitelyMany
      /\ k \in Nat /\ load \in Nat /\ m \in Nat /\ l \in Nat
  BY NextInv, StepOutstanding DEF ClientInv, ClientTypeOK
<1>2. k + n <= load
  BY DEF CountFollowsLoad
<1>3. ASSUME l = 0, load' = m PROVE l + m <= load'
  <2>. HIDE DEF n, m, k, l
  <2>. QED
    BY <1>1, <1>3
<1>4. ASSUME NEW c \in Calls, Post(c) PROVE l + m <= load'
  <2>1. l = 0 /\ load' = m
    BY <1>4, PostingResets DEF Post
  <2>. QED
    BY <1>3, <2>1
<1>5. ASSUME attemptReconnect PROVE l + m <= load'
  <2>1. l = 0 /\ load' = m
    BY <1>5, ReconnectResends, PostingResets DEF attemptReconnect
  <2>. QED
    BY <1>3, <2>1
<1>6. ASSUME NEW r \in Requests, FailRequest(r) \/ AnswerRequest(r)
      PROVE  l + m <= load'
  <2>1. n \in Nat /\ m < n
    BY <1>1, <1>6, FinishEndsOne DEF FailRequest, AnswerRequest
  <2>2. (l = 0 \/ l = k \/ l = k + 1) /\ load' = load
    BY <1>6 DEF FailRequest, AnswerRequest, retry, history
  <2>. HIDE DEF n, m, k, l
  <2>. QED
    BY <1>1, <1>2, <2>1, <2>2
<1>7. CASE (\E s \in Strategies : setReconnectStrategy(s)) \/ UNCHANGED clientVars
  <2>1. UNCHANGED <<inflight, currentRetry, load>>
    BY <1>7 DEF setReconnectStrategy, clientVars, retry, history
  <2>2. m = n
    BY <1>1, <2>1, InFlightSame
  <2>. QED
    BY <1>2, <2>1, <2>2 DEF CountFollowsLoad
<1>. HIDE DEF n, m, k, l
<1>8. CASE ~((\E s \in Strategies : setReconnectStrategy(s)) \/ UNCHANGED clientVars)
  <2>1. l + m <= load'
    BY <1>4, <1>5, <1>6, <1>8 DEF ClientNext, onSslErrors
  <2>. QED
    BY <2>1 DEF CountFollowsLoad, m, l
<1>. QED
  BY <1>7, <1>8

\* The retry counter and what is still in flight never exceed what was in flight when
\* a request was posted or resent last (CountFollowsLoad), for any strategy and
\* however many requests the user posts: the wait grows with the requests that fail
\* together and not with the failures of one.
THEOREM CountIsOfTheLoad == ClientSpec => []CountFollowsLoad
<1>. QED
  BY InitCount, StepCount, ClientInvariant, PTL DEF ClientSpec

\* A request that was alone in flight when it was posted or resent waits no longer
\* than the first delay of the strategy in force when it fails, however often it has
\* failed before: for it there is no backoff.
THEOREM AloneThereIsNoBackoff ==
  ClientSpec => [][\A r \in Requests :
                     FailRequest(r) /\ load = 1 /\ maxRetries > 0
                       => delay' = calculateBackoff(1)]_clientVars
<1>. DEFINE Step == \A r \in Requests :
                      FailRequest(r) /\ load = 1 /\ maxRetries > 0
                        => delay' = calculateBackoff(1)
<1>1. ClientInv /\ CountFollowsLoad /\ [ClientNext]_clientVars => [Step]_clientVars
  <2>. SUFFICES ASSUME ClientInv, CountFollowsLoad,
                       NEW r \in Requests, FailRequest(r), load = 1, maxRetries > 0
                PROVE  delay' = calculateBackoff(1)
    BY Zenon
  <2>1. InFlight \in Nat /\ InFlight' \in Nat /\ InFlight' < InFlight /\ currentRetry \in Nat
    BY FinishEndsOne DEF FailRequest, ClientInv, ClientTypeOK
  <2>2. currentRetry = 0
    <3>1. currentRetry + InFlight <= 1
      BY DEF CountFollowsLoad
    <3>. QED
      BY <2>1, <3>1
  <2>3. currentRetry + 1 = 1 /\ currentRetry < maxRetries
    BY <2>2, StrategyIs DEF ClientInv
  <2>. QED
    BY <2>3, Zenon DEF FailRequest
<1>. QED
  BY <1>1, ClientInvariant, CountIsOfTheLoad, PTL DEF ClientSpec
=============================================================================
