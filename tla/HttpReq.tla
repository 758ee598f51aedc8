------------------------------ MODULE HttpReq -------------------------------
(***************************************************************************)
(* The retry policy of internal/httpreq: which status codes are retried    *)
(* and how long to wait before the next attempt.  Durations are in units   *)
(* of the client's initial backoff, 500 ms, so that a second is two units. *)
(***************************************************************************)
EXTENDS Integers

CONSTANTS
    MaxRetries,     \* maxRetries, the number of attempts
    MaxRetryAfter   \* maxRetryAfter, the longest Retry-After honoured

ASSUME RetryAssumption == MaxRetries \in Nat \ {0} /\ MaxRetryAfter \in Nat

Second == 2
NoWait == -1

ShouldRetry(status) == status \in {408, 429, 500, 502, 503, 504}

(* A Retry-After header: absent, a number of seconds (possibly negative),  *)
(* a date some time from now (possibly past), or neither.                  *)
Header(kind, value) == [kind |-> kind, value |-> value]
NoHeader == Header("absent", 0)

(* Mutant: the header is honoured whatever it says.                        *)
Uncapped(d) == d

Capped(d) == IF d > MaxRetryAfter THEN MaxRetryAfter ELSE d

(* ParseRetryAfter: the wait the header asks for, or NoWait.               *)
ParseRetryAfter(h) ==
    IF h.kind = "seconds" /\ h.value >= 0 THEN Capped(h.value * Second)
    ELSE IF h.kind = "date" /\ h.value > 0 THEN Capped(h.value)
    ELSE NoWait

(* GetNextBackoff: the header if it is valid, else exponential backoff.    *)
GetNextBackoff(h, initialBackoff, attempt) ==
    LET wait == ParseRetryAfter(h)
    IN  IF wait # NoWait THEN wait ELSE initialBackoff * 2^attempt
=============================================================================
