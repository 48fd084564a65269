---------------------------- MODULE NetworkClient ----------------------------
(***************************************************************************)
(* Class NetworkClient (src/src/core/network_client.cpp): posts JSON       *)
(* objects and files, and resends after a failure.  It remembers only the  *)
(* newest call (lastUrl, lastData, lastFilePathName, isFileTransfer), one  *)
(* retry counter and one single-shot timer, whatever the number of         *)
(* requests in flight.                                                     *)
(*                                                                         *)
(* A request is a record [url, file, body]; body is the JSON object, or    *)
(* the path of the file to send.  The network may answer requests in any   *)
(* order, fail any of them, or keep one forever: the code sets no timeout  *)
(* (onRequestTimeout is connected to nothing).                             *)
(***************************************************************************)
EXTENDS Naturals, FiniteSetsExt

CONSTANTS
  Urls, Objects, Files,
  Calls,            \* the requests the client's user asks for
  Strategies,       \* what setReconnectStrategy is given
  certificateVerificationEnabled,
  Certificates, pinnedCertificate, \* the pin is NoCertificate when none is set
  NoCertificate, None,
  MaxInFlight,      \* bound: the user posts while fewer requests are in flight
  MaxWait,          \* the largest number of milliseconds a qint64 holds
  MaxAttempts       \* bound: where the history variable attempts saturates

Requests == [url : Urls, file : {FALSE}, body : Objects]
              \cup [url : Urls, file : {TRUE}, body : Files]

SslErrors == {"untrusted", "selfSigned", "other"}

ASSUME ClientAssumption ==
  /\ Calls \subseteq Requests
  /\ None \notin Urls \cup Objects \cup Files
  /\ Strategies \subseteq [maxRetries : Nat, initialDelay : Nat, maxDelay : Nat]
  /\ certificateVerificationEnabled \in BOOLEAN
  /\ pinnedCertificate \in Certificates \cup {NoCertificate}
  /\ MaxInFlight \in Nat /\ MaxAttempts \in Nat /\ MaxWait \in Nat

\* The product calculateBackoff computes does not overflow for the attempts made.
ASSUME WaitAssumption ==
  \A s \in Strategies : \A k \in 0..s.maxRetries : s.initialDelay * 2^k \in 0..MaxWait

VARIABLES
  lastUrl, lastData, lastFilePathName, isFileTransfer,
  currentRetry,
  maxRetries, initialDelay, maxDelay,
  inflight,         \* [Requests -> how many are waiting for their reply]
  reconnectTimer,   \* the timer is running
  delay,            \* the interval it was started with last
  newest,           \* history: the call made last
  delivered,        \* history: a request equal to it was answered since
  attempts,         \* history: resends since that call or the last answer
  load              \* history: requests in flight when one was posted or resent last

last       == <<lastUrl, lastData, lastFilePathName, isFileTransfer>>
retry      == <<currentRetry, reconnectTimer, delay>>
strategy   == <<maxRetries, initialDelay, maxDelay>>
history    == <<newest, delivered, attempts, load>>
clientVars == <<last, retry, strategy, inflight, history>>

ClientInit ==
  /\ lastUrl = None /\ lastData = None /\ lastFilePathName = None
  /\ isFileTransfer = FALSE
  /\ currentRetry = 0
  /\ \E s \in Strategies :
       maxRetries = s.maxRetries /\ initialDelay = s.initialDelay /\ maxDelay = s.maxDelay
  /\ inflight = [r \in Requests |-> 0]
  /\ reconnectTimer = FALSE
  /\ delay = 0
  /\ newest = None /\ delivered = FALSE /\ attempts = 0 /\ load = 0

InFlight == MapThenSumSet(LAMBDA r : inflight[r], {r \in Requests : inflight[r] > 0})

Outstanding == InFlight + (IF reconnectTimer THEN 1 ELSE 0)

-----------------------------------------------------------------------------
(* Posting *)

Send(r) == inflight' = [inflight EXCEPT ![r] = @ + 1]

\* Slip in postJson: the counter is left as it is.
postJson_KeepsCount(url, object) ==
  /\ lastUrl' = url
  /\ lastData' = object
  /\ lastFilePathName' = None
  /\ isFileTransfer' = FALSE
  /\ UNCHANGED currentRetry
  /\ Send([url |-> url, file |-> FALSE, body |-> object])

postJson(url, object) ==
  /\ lastUrl' = url
  /\ lastData' = object
  /\ lastFilePathName' = None
  /\ isFileTransfer' = FALSE
  /\ currentRetry' = 0
  /\ Send([url |-> url, file |-> FALSE, body |-> object])

\* A file that cannot be opened is reported and nothing is sent; the call is
\* remembered all the same.
postFile(url, path) ==
  /\ lastUrl' = url
  /\ lastFilePathName' = path
  /\ isFileTransfer' = TRUE
  /\ currentRetry' = 0
  /\ Send([url |-> url, file |-> TRUE, body |-> path]) \/ UNCHANGED inflight
  /\ UNCHANGED lastData

\* The user posts.  A retry that was pending stays pending.
Post(c) ==
  /\ InFlight < MaxInFlight
  /\ IF c.file THEN postFile(c.url, c.body) ELSE postJson(c.url, c.body)
  /\ newest' = c /\ delivered' = FALSE /\ attempts' = 0 /\ load' = InFlight'
  /\ UNCHANGED <<reconnectTimer, delay, strategy>>

\* A wait that was begun is not changed.
setReconnectStrategy(s) ==
  /\ maxRetries' = s.maxRetries
  /\ initialDelay' = s.initialDelay /\ maxDelay' = s.maxDelay
  /\ UNCHANGED <<last, retry, inflight, history>>

-----------------------------------------------------------------------------
(* Replies *)

\* Slip in calculateBackoff: no limit.
calculateBackoff_Unlimited(attempt) == initialDelay * 2^(attempt - 1)

calculateBackoff(attempt) ==
  LET wait == initialDelay * 2^(attempt - 1)
  IN IF wait < maxDelay THEN wait ELSE maxDelay

Finish(r) ==
  /\ inflight[r] > 0
  /\ inflight' = [inflight EXCEPT ![r] = @ - 1]
  /\ UNCHANGED <<last, strategy>>

\* Slips in FailRequest: the failure is counted before the limit is tested; the
\* last allowed retry is not taken.
FailRequest_CountsFirst(r) ==
  /\ Finish(r)
  /\ currentRetry' = currentRetry + 1
  /\ IF currentRetry < maxRetries
       THEN reconnectTimer' = TRUE /\ delay' = calculateBackoff(currentRetry + 1)
       ELSE UNCHANGED <<reconnectTimer, delay>>
  /\ UNCHANGED history

FailRequest_OffByOne(r) ==
  /\ Finish(r)
  /\ IF currentRetry + 1 < maxRetries
       THEN /\ currentRetry' = currentRetry + 1
            /\ reconnectTimer' = TRUE
            /\ delay' = calculateBackoff(currentRetry + 1)
       ELSE UNCHANGED retry
  /\ UNCHANGED history

\* onRequestFinished with an error.  Starting a running QTimer restarts it.
FailRequest(r) ==
  /\ Finish(r)
  /\ IF currentRetry < maxRetries
       THEN /\ currentRetry' = currentRetry + 1
            /\ reconnectTimer' = TRUE
            /\ delay' = calculateBackoff(currentRetry + 1)
       ELSE UNCHANGED retry
  /\ UNCHANGED history

\* Slip in AnswerRequest: any answer cancels the retry that is pending.
AnswerRequest_StopsTimer(r) ==
  /\ Finish(r)
  /\ currentRetry' = 0 /\ reconnectTimer' = FALSE
  /\ delivered' = (delivered \/ r = newest)
  /\ attempts' = 0
  /\ UNCHANGED <<delay, newest, load>>

\* onRequestFinished without one.  The timer is left as it is.
AnswerRequest(r) ==
  /\ Finish(r)
  /\ currentRetry' = 0
  /\ delivered' = (delivered \/ r = newest)
  /\ attempts' = 0
  /\ UNCHANGED <<reconnectTimer, delay, newest, load>>

verifyPinnedCertificate(peer) ==
  pinnedCertificate = NoCertificate \/ peer = pinnedCertificate

Rejects(peer, errors) ==
  /\ certificateVerificationEnabled
  /\ \/ ~verifyPinnedCertificate(peer)
     \/ errors \ {"untrusted", "selfSigned"} # {}

\* onSslErrors: the errors are ignored and the request goes on, or it is aborted,
\* which finishes it with an error before abort() returns.
onSslErrors(r, peer, errors) == Rejects(peer, errors) /\ FailRequest(r)

\* Slips in attemptReconnect: an object that was posted once is preferred to a
\* newer file; the timer repeats.
attemptReconnect_PrefersObject ==
  /\ reconnectTimer
  /\ reconnectTimer' = FALSE
  /\ IF lastData = None THEN postFile(lastUrl, lastFilePathName)
                        ELSE postJson(lastUrl, lastData)
  /\ attempts' = IF attempts < MaxAttempts THEN attempts + 1 ELSE attempts
  /\ load' = InFlight'
  /\ UNCHANGED <<delay, strategy, newest, delivered>>

attemptReconnect_Repeats ==
  /\ reconnectTimer
  /\ IF isFileTransfer /\ lastFilePathName # None
       THEN postFile(lastUrl, lastFilePathName)
       ELSE postJson(lastUrl, lastData)
  /\ attempts' = IF attempts < MaxAttempts THEN attempts + 1 ELSE attempts
  /\ load' = InFlight'
  /\ UNCHANGED <<reconnectTimer, delay, strategy, newest, delivered>>

\* The single-shot timer fires.
attemptReconnect ==
  /\ reconnectTimer
  /\ reconnectTimer' = FALSE
  /\ IF isFileTransfer /\ lastFilePathName # None
       THEN postFile(lastUrl, lastFilePathName)
       ELSE postJson(lastUrl, lastData)
  /\ attempts' = IF attempts < MaxAttempts THEN attempts + 1 ELSE attempts
  /\ load' = InFlight'
  /\ UNCHANGED <<delay, strategy, newest, delivered>>

-----------------------------------------------------------------------------
ClientNext ==
  \/ \E c \in Calls : Post(c)
  \/ \E s \in Strategies : setReconnectStrategy(s)
  \/ \E r \in Requests : FailRequest(r) \/ AnswerRequest(r)
  \/ \E r \in Requests, peer \in Certificates, errors \in (SUBSET SslErrors) \ {{}} :
       onSslErrors(r, peer, errors)
  \/ attemptReconnect

\* The timer fires, and the network is not against one request for ever: a
\* request that is sent again and again is answered some day.
ClientFairness ==
  /\ WF_clientVars(attemptReconnect)
  /\ \A r \in Requests : SF_clientVars(AnswerRequest(r))

ClientSpec == ClientInit /\ [][ClientNext]_clientVars /\ ClientFairness

-----------------------------------------------------------------------------
(* Properties *)

\* Every variable stays in its type; no wait is longer than the longest that a
\* strategy allows.
ClientTypeOK ==
  /\ lastUrl \in Urls \cup {None}
  /\ lastData \in Objects \cup {None}
  /\ lastFilePathName \in Files \cup {None}
  /\ isFileTransfer \in BOOLEAN
  /\ currentRetry \in Nat
  /\ [maxRetries |-> maxRetries, initialDelay |-> initialDelay, maxDelay |-> maxDelay]
       \in Strategies
  /\ inflight \in [Requests -> Nat]
  /\ reconnectTimer \in BOOLEAN
  /\ \E s \in Strategies : delay \in 0..s.maxDelay
  /\ newest \in Calls \cup {None}
  /\ delivered \in BOOLEAN
  /\ attempts \in Nat /\ load \in Nat

\* A counted retry is a pending one: the counter is above zero only while the
\* timer runs, whatever posts and answers of other requests came in between.
RetryPending == currentRetry > 0 => reconnectTimer

\* A failure is never the last word.  Even when the shared counter is used up by
\* other requests, or the limit was lowered meanwhile, a failed request leaves a
\* retry pending, as long as retries are allowed at all.
FailureIsRetried ==
  [][(\E r \in Requests : FailRequest(r)) /\ maxRetries > 0 => reconnectTimer']_clientVars

\* What is on the wire was asked for: a request never pairs the URL of one call
\* with the object or the file of another, though the fields that remember the
\* newest call are set separately and a file that failed to open sets only some.
RequestsAreCalls == \A r \in Requests : inflight[r] > 0 => r \in Calls

\* Retrying does not multiply the load: only the user adds to the requests in
\* flight and the retries pending.  (However many requests fail together, one
\* timer answers them.)
NoRetryStorm ==
  [][(\A c \in Calls : ~Post(c)) => Outstanding' <= Outstanding]_clientVars

\* The wait grows with the requests that fail together, not with the failures of
\* one: every post and every resend starts the count anew, so the count and what is
\* still in flight are never more than what was in flight then, whatever was posted
\* while a retry was pending.  A request that is alone never sees the second delay.
CountFollowsLoad == currentRetry + InFlight <= load

\* As long as the strategy allows retries, an object that is posted is delivered
\* unless a newer call takes its place: no sequence of failures and late answers
\* makes the client forget it.  (A file can be forgotten: when it cannot be
\* opened again.)
NewestIsDelivered ==
  [](maxRetries > 0) =>
    \A c \in Calls :
      (newest = c /\ ~c.file /\ ~delivered) ~> (delivered \/ newest # c)

\* network_client.h:61: "maxRetries Maximum number of reconnection attempts".
AttemptsAreLimited == attempts <= maxRetries
=============================================================================
