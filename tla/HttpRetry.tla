----------------------------- MODULE HttpRetry ------------------------------
(***************************************************************************)
(* One call of httpreq.DoRequestWithRetries, the client side of every HTTP *)
(* exchange of the node observer and of the REST providers, with a caller  *)
(* that may cancel the request's context at any moment.                    *)
(***************************************************************************)
EXTENDS HttpReq

CONSTANTS
    Codes,          \* status codes the server answers with
    Headers,        \* Retry-After headers it sends
    ReadFailure     \* 500, the code for a response that cannot be read

ASSUME CodesAssumption == Codes \subseteq 100..599
ASSUME HeadersAssumption == \A h \in Headers : h.value \in Int

VARIABLES
    build,          \* the error code the RequestFunc yields, 0 for none
    state,          \* where the loop is
    attempt,        \* its local of that name
    answer,         \* outcome of the last attempt: [code, header]
    wait,           \* time left of waitForRetry
    cancelled,      \* the context of the request is done
    result,         \* what the call returned, 0 before
    waited,         \* history: total time spent in waitForRetry
    waitedAfter,    \* history: the part of it after the cancellation
    triesAfter      \* history: attempts begun after the cancellation

clientVars == <<build, state, attempt, answer, wait, cancelled, result, waited,
                waitedAfter, triesAfter>>

Backoff == 1
Built == build = 0
Success(code) == code \in 200..299
NoAnswer == [code |-> 0, header |-> NoHeader]
BuildErrors == {400, 500}   \* GetURL failed; NewRequestWithContext failed
TransportError == [code |-> 502, header |-> NoHeader]

Return == state' = "returned" /\ result' = answer'.code

(* The test of requestCtx right after the attempt.  A request that could   *)
(* not be built leaves requestCtx nil.                                     *)
CancelNoticed == Built /\ cancelled

(* The loop's exit condition.                                              *)
Final(code) == Success(code) \/ attempt = MaxRetries \/ ~ShouldRetry(code)

(* What the loop does with the outcome a of an attempt.                    *)
Judge(a) ==
    /\ answer' = a
    /\ IF CancelNoticed \/ Final(a.code)
       THEN Return /\ UNCHANGED wait
       ELSE /\ state' = "waiting"
            /\ wait' = GetNextBackoff(a.header, Backoff, attempt - 1)
            /\ UNCHANGED result

(* An attempt begins; f() fails at once, or the request is on its way.  A  *)
(* request whose context is already done fails without being sent.         *)
Attempt ==
    /\ state = "trying"
    /\ state' = "flying"
    /\ attempt' = attempt + 1
    /\ triesAfter' = IF cancelled THEN triesAfter + 1 ELSE triesAfter
    /\ UNCHANGED <<build, answer, wait, cancelled, result, waited, waitedAfter>>

(* f() returned an error: no response, no context.                         *)
BuildFails ==
    /\ state = "flying"
    /\ ~Built
    /\ Judge([code |-> build, header |-> NoHeader])
    /\ UNCHANGED <<build, attempt, cancelled, waited, waitedAfter, triesAfter>>

(* The server answers; a body that cannot be read counts as ReadFailure.   *)
Answer ==
    /\ state = "flying"
    /\ Built
    /\ ~(cancelled /\ triesAfter > 0)
    /\ \E h \in Headers, c \in Codes \cup {ReadFailure} :
          Judge([code |-> c, header |-> h])
    /\ UNCHANGED <<build, attempt, cancelled, waited, waitedAfter, triesAfter>>

(* client.Do fails: a network error, or the context is done.               *)
TransportFails ==
    /\ state = "flying"
    /\ Built
    /\ Judge(TransportError)
    /\ UNCHANGED <<build, attempt, cancelled, waited, waitedAfter, triesAfter>>

(* Mutant: a plain time.Sleep.                                             *)
NotCancellable == FALSE

(* waitForRetry selects on the context, if there is one.                   *)
Cancellable == Built

WaitElapses ==
    /\ state = "waiting"
    /\ wait > 0
    /\ ~(Cancellable /\ cancelled)
    /\ wait' = wait - 1
    /\ waited' = waited + 1
    /\ waitedAfter' = IF cancelled THEN waitedAfter + 1 ELSE waitedAfter
    /\ UNCHANGED <<build, state, attempt, answer, cancelled, result, triesAfter>>

(* Mutant: the select has no case for the timer.                           *)
WaitEndsOnCancel ==
    /\ state = "waiting"
    /\ Cancellable /\ cancelled /\ answer' = answer /\ Return
    /\ UNCHANGED <<build, attempt, wait, cancelled, waited, waitedAfter,
                   triesAfter>>

(* waitForRetry returns.  With the timer fired and the context done the    *)
(* select takes either case.                                               *)
WaitEnds ==
    /\ state = "waiting"
    /\ \/ wait = 0 /\ state' = "trying" /\ UNCHANGED <<answer, result>>
       \/ Cancellable /\ cancelled /\ answer' = answer /\ Return
    /\ UNCHANGED <<build, attempt, wait, cancelled, waited, waitedAfter,
                   triesAfter>>

Cancel ==
    /\ ~cancelled
    /\ state # "returned"
    /\ cancelled' = TRUE
    /\ UNCHANGED <<build, state, attempt, answer, wait, result, waited,
                   waitedAfter, triesAfter>>

InitClient ==
    /\ build \in {0} \cup BuildErrors
    /\ state = "trying" /\ attempt = 0 /\ answer = NoAnswer /\ wait = 0
    /\ cancelled \in BOOLEAN
    /\ result = 0 /\ waited = 0 /\ waitedAfter = 0 /\ triesAfter = 0

NextClient ==
    \/ Attempt \/ BuildFails \/ Answer \/ TransportFails
    \/ WaitElapses \/ WaitEnds \/ Cancel

ClientSpec == InitClient /\ [][NextClient]_clientVars

(* The caller's goroutine runs and time passes.  http.Client has no        *)
(* timeout, so nothing is assumed of the server's answer.                  *)
ClientFairness ==
    WF_clientVars(Attempt) /\ WF_clientVars(BuildFails) /\ WF_clientVars(WaitElapses)
        /\ WF_clientVars(WaitEnds)

FairClientSpec == ClientSpec /\ ClientFairness

-----------------------------------------------------------------------------
(* Whatever the server asks for in Retry-After, a call sleeps at most      *)
(* MaxRetries - 1 times and each time no longer than the cap or the        *)
(* largest backoff, and it gives up on a retryable error only after the    *)
(* last attempt or because its caller has.                                 *)
TotalWaitBounded ==
    LET backoff == Backoff * 2^(MaxRetries - 2)
    IN  /\ waited <= (MaxRetries - 1) *
                     (IF MaxRetryAfter > backoff THEN MaxRetryAfter ELSE backoff)
        /\ state = "returned" /\ ShouldRetry(result) =>
               attempt = MaxRetries \/ (Built /\ cancelled)

(* A caller that has given up is let go: once the context is done at most  *)
(* one more attempt begins (the select of waitForRetry may prefer a timer  *)
(* that fired as well), although every attempt with a dead context fails   *)
(* with the retryable code 502, and no time is spent waiting.  A request   *)
(* that could not be built has no context to select on.                    *)
CancelIsPrompt == Built => triesAfter <= 1 /\ waitedAfter = 0

(* If no attempt is left without an answer for ever, the call returns.     *)
ReturnsIfAnswered == ([]<>(state # "flying")) => <>(state = "returned")
=============================================================================
