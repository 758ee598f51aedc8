-------------------------- MODULE TokenCredential ---------------------------
(***************************************************************************)
(* The workload-identity credential of the lambdai provider                *)
(* (pkg/providers/lambdai/token.go), shared by all requests of the         *)
(* process, and its one user, lambdaiClient.InstanceList (provider.go).    *)
(* Each caller runs InstanceList: obtain a key, call the API with it, and  *)
(* on a 401 drop that key and try once more.  A key is cached with the     *)
(* deadline that expiryOf reads from the answer and an earlier refresh     *)
(* time; refreshMu lets one caller at a time exchange the pod's token for  *)
(* a new key; mu makes every access to cur atomic.  The callers share one  *)
(* credential: same identity, token path and base URL.                     *)
(***************************************************************************)
EXTENDS Integers

CONSTANTS
    Callers,        \* concurrent InstanceList calls
    Lives,          \* lifetimes the server gives a key (possibly past)
    Lags,           \* how long before its answer arrives a key was minted
    DefaultTTL,     \* defaultTokenTTL
    RefreshWindow,  \* refreshWindow
    JitterDiv,      \* 1 / jitterFrac
    Backoff,        \* failedRefreshBackoff
    MaxTime,        \* bound: the clock
    MaxMints        \* bound: keys the server mints

ASSUME CallersAssumption == Callers # {}
ASSUME WindowAssumption ==
    RefreshWindow \in Nat /\ Backoff \in Nat /\ JitterDiv \in Nat \ {0}
ASSUME LivesAssumption == Lives \subseteq Int /\ Lags \subseteq Nat /\ DefaultTTL \in Nat
ASSUME BoundsAssumption == MaxTime \in Nat /\ MaxMints \in Nat

VARIABLES
    now,
    cur,            \* the cachedToken: [key, expiresAt, refreshAt]; NoKey for nil
    refreshMu,      \* the caller that holds it, or Nobody
    pc,             \* where each caller is
    seen,           \* its local cur of Token
    bearer,         \* the key Token returned to it, 0 for none
    round,          \* 1, or 2 after a 401
    rejected,       \* the key it called the API with when it got a 401
    minted,         \* keys minted so far are 1..minted
    expiry,         \* their expiry, as the server knows it
    due,            \* their deadline, as the exchange's answer gave it
    revoked,        \* keys the server no longer accepts
    dropped         \* history: keys that left the cache

vars == <<now, cur, refreshMu, pc, seen, bearer, round, rejected, minted,
          expiry, due, revoked, dropped>>

Keys == 1..MaxMints
NoKey == [key |-> 0, expiresAt |-> 0, refreshAt |-> 0]
Nobody == "nobody"
ASSUME NobodyAssumption == Nobody \notin Callers

server == <<minted, expiry, due, revoked>>

(* Integer division of a duration as Go does it, towards zero.             *)
Half(d) == IF d >= 0 THEN d \div 2 ELSE 0 - ((0 - d) \div 2)

(* The jitter is a random part of jitterFrac of the window.                *)
Jitters(w) == IF w >= 0 THEN 0..(w \div JitterDiv)
                        ELSE (0 - ((0 - w) \div JitterDiv))..0

(* exchangeOnce: how long before its expiry a key is refreshed.            *)
Window(life) == IF RefreshWindow >= life THEN Half(life) ELSE RefreshWindow

(* exchangeOnce: the times to refresh a key that expires at e.             *)
RefreshTimes(e) ==
    LET life == e - now
        window == Window(life)
        Start(j) == e - (window - j)
    IN  {IF Start(j) > now THEN Start(j) ELSE now + Half(life) :
            j \in Jitters(window)}

(* expiryOf: expires_at, a positive expires_in counted from the arrival of *)
(* the answer, or the default.  e is the server's own expiry.              *)
expiryOf(said, e, life) ==
    CASE said = "expires_at" -> e
      [] said = "expires_in" /\ life > 0 -> now + life
      [] OTHER -> now + DefaultTTL

(* The key may be handed out without a refresh.                            *)
Fresh(t) == t # NoKey /\ now < t.refreshAt

Goto(c, l) == pc' = [pc EXCEPT ![c] = l]

(* Mutant: the deferred unlock is missing.                                 *)
HandKeepingLock(c, k) ==
    /\ bearer' = [bearer EXCEPT ![c] = k]
    /\ Goto(c, "call")
    /\ seen' = [seen EXCEPT ![c] = NoKey]
    /\ UNCHANGED refreshMu

(* Token returns key k to caller c, from behind refreshMu if it held it.   *)
Hand(c, k) ==
    /\ bearer' = [bearer EXCEPT ![c] = k]
    /\ Goto(c, "call")
    /\ refreshMu' = IF refreshMu = c THEN Nobody ELSE refreshMu
    /\ seen' = [seen EXCEPT ![c] = NoKey]

-----------------------------------------------------------------------------
(* Token.                                                                  *)

(* The fast path; cur is read under mu.                                    *)
FastPath(c) ==
    /\ pc[c] = "token"
    /\ \/ Fresh(cur) /\ Hand(c, cur.key)
       \/ ~Fresh(cur) /\ Goto(c, "lock") /\ UNCHANGED <<seen, bearer, refreshMu>>
    /\ UNCHANGED <<now, cur, round, rejected, server, dropped>>

LockRefresh(c) ==
    /\ pc[c] = "lock"
    /\ refreshMu = Nobody
    /\ refreshMu' = c
    /\ Goto(c, "recheck")
    /\ UNCHANGED <<now, cur, seen, bearer, round, rejected, server, dropped>>

(* Mutant: whoever gets the lock refreshes.                                *)
RecheckSkipped(c) ==
    /\ pc[c] = "recheck"
    /\ seen' = [seen EXCEPT ![c] = cur]
    /\ Goto(c, "exchange")
    /\ UNCHANGED <<now, cur, refreshMu, bearer, round, rejected, server,
                   dropped>>

(* The second look, under refreshMu: someone may have refreshed meanwhile. *)
Recheck(c) ==
    /\ pc[c] = "recheck"
    /\ \/ Fresh(cur) /\ Hand(c, cur.key)
       \/ /\ ~Fresh(cur)
          /\ Goto(c, "exchange")
          /\ seen' = [seen EXCEPT ![c] = cur]
          /\ UNCHANGED <<bearer, refreshMu>>
    /\ UNCHANGED <<now, cur, round, rejected, server, dropped>>

(* exchangeOnce succeeds and the new key is installed under mu.            *)
ExchangeSucceeds(c) ==
    /\ pc[c] = "exchange"
    /\ minted < MaxMints
    /\ minted' = minted + 1
    /\ \E life \in Lives, lag \in Lags, said \in {"expires_at", "expires_in", "neither"} :
          LET e == now - lag + life
              d == expiryOf(said, e, life)
          IN  /\ expiry' = [expiry EXCEPT ![minted + 1] = e]
              /\ due' = [due EXCEPT ![minted + 1] = d]
              /\ \E r \in RefreshTimes(d) :
                    cur' = [key |-> minted + 1, expiresAt |-> d, refreshAt |-> r]
    /\ dropped' = dropped \cup {cur.key}
    /\ Hand(c, minted + 1)
    /\ UNCHANGED <<now, round, rejected, revoked>>

(* exchangeOnce fails: the token file, the transport or the server.        *)
ExchangeFails(c) ==
    /\ pc[c] = "exchange"
    /\ Goto(c, "failed")
    /\ UNCHANGED <<now, cur, refreshMu, seen, bearer, round, rejected, server,
                   dropped>>

(* A key that is still valid survives the failure; otherwise Token returns *)
(* the error, and InstanceList with it: a 401 of the exchange is retried   *)
(* like one of the API (with no key to drop), any other error ends it.     *)
FailedRefresh(c) ==
    /\ pc[c] = "failed"
    /\ \/ /\ seen[c] # NoKey /\ now < seen[c].expiresAt
          /\ Goto(c, "defer")
          /\ UNCHANGED <<refreshMu, seen, round>>
       \/ /\ ~(seen[c] # NoKey /\ now < seen[c].expiresAt)
          /\ refreshMu' = Nobody
          /\ seen' = [seen EXCEPT ![c] = NoKey]
          /\ \/ Goto(c, "done") /\ UNCHANGED round
             \/ /\ round[c] = 1
                /\ Goto(c, "token")
                /\ round' = [round EXCEPT ![c] = 2]
    /\ UNCHANGED <<now, cur, bearer, rejected, server, dropped>>

(* Mutant: the refresh may be deferred beyond the expiry.                  *)
DeferPastExpiry(t) == now + Backoff

(* deferRefresh: the next refresh time, never past the hard expiry.        *)
Deferral(t) == IF now + Backoff > t.expiresAt THEN t.expiresAt ELSE now + Backoff

(* Mutant: the stale key is republished whatever the cache holds now.      *)
AnyCurrent(c) == TRUE

(* deferRefresh: the cache still holds the key the caller failed to renew. *)
StillCurrent(c) == cur # NoKey /\ cur = seen[c]

DeferRefresh(c) ==
    /\ pc[c] = "defer"
    /\ cur' = IF StillCurrent(c) /\ Deferral(seen[c]) > seen[c].refreshAt
              THEN [seen[c] EXCEPT !.refreshAt = Deferral(seen[c])]
              ELSE cur
    /\ Hand(c, seen[c].key)
    /\ UNCHANGED <<now, round, rejected, server, dropped>>

-----------------------------------------------------------------------------
(* InstanceList.                                                           *)

Accepted(k) == k \notin revoked /\ now < expiry[k]

(* The API answers: with the list or an error that ends the call, or with  *)
(* a 401 for a key it does not take.                                       *)
Call(c) ==
    /\ pc[c] = "call"
    /\ bearer' = [bearer EXCEPT ![c] = 0]
    /\ \/ Goto(c, "done") /\ UNCHANGED rejected
       \/ /\ ~Accepted(bearer[c])
          /\ round[c] = 1
          /\ Goto(c, "invalidate")
          /\ rejected' = [rejected EXCEPT ![c] = bearer[c]]
    /\ UNCHANGED <<now, cur, refreshMu, seen, round, server, dropped>>

(* Mutant: a 401 drops whatever key is cached.                             *)
InvalidatesAny(k) == cur # NoKey

(* Mutant: the rejected key stays cached.                                  *)
NeverInvalidates(k) == FALSE

(* The condition of InvalidateIfCurrent.                                   *)
Invalidates(k) == cur # NoKey /\ cur.key = k

InvalidateIfCurrent(c) ==
    /\ pc[c] = "invalidate"
    /\ cur' = IF Invalidates(rejected[c]) THEN NoKey ELSE cur
    /\ dropped' = IF Invalidates(rejected[c]) THEN dropped \cup {cur.key}
                                              ELSE dropped
    /\ round' = [round EXCEPT ![c] = @ + 1]
    /\ Goto(c, "token")
    /\ UNCHANGED <<now, refreshMu, seen, bearer, rejected, server>>

(* The next request's InstanceList.                                        *)
Begin(c) ==
    /\ pc[c] = "done"
    /\ Goto(c, "token")
    /\ round' = [round EXCEPT ![c] = 1]
    /\ rejected' = [rejected EXCEPT ![c] = 0]
    /\ UNCHANGED <<now, cur, refreshMu, seen, bearer, server, dropped>>

Revoke(k) ==
    /\ k <= minted
    /\ k \notin revoked
    /\ revoked' = revoked \cup {k}
    /\ UNCHANGED <<now, cur, refreshMu, pc, seen, bearer, round, rejected,
                   minted, expiry, due, dropped>>

Tick ==
    /\ now < MaxTime
    /\ now' = now + 1
    /\ UNCHANGED <<cur, refreshMu, pc, seen, bearer, round, rejected, server,
                   dropped>>

-----------------------------------------------------------------------------
Init ==
    /\ now = 0 /\ cur = NoKey /\ refreshMu = Nobody
    /\ pc = [c \in Callers |-> "token"]
    /\ seen = [c \in Callers |-> NoKey]
    /\ bearer = [c \in Callers |-> 0]
    /\ round = [c \in Callers |-> 1]
    /\ rejected = [c \in Callers |-> 0]
    /\ minted = 0 /\ expiry = [k \in Keys |-> 0] /\ due = [k \in Keys |-> 0]
    /\ revoked = {}
    /\ dropped = {}

Token(c) ==
    \/ FastPath(c) \/ LockRefresh(c) \/ Recheck(c) \/ ExchangeSucceeds(c)
    \/ ExchangeFails(c) \/ FailedRefresh(c) \/ DeferRefresh(c)

Next ==
    \/ \E c \in Callers : Token(c) \/ Call(c) \/ InvalidateIfCurrent(c) \/ Begin(c)
    \/ \E k \in Keys : Revoke(k)
    \/ Tick

Spec == Init /\ [][Next]_vars

(* Every caller runs; an exchange and an API call end, one way or another  *)
(* (DoRequestWithRetries returns), and no other caller can disable a step  *)
(* that is not the locking of refreshMu.  A caller that waits for that one *)
(* gets it in the end: sync.Mutex is starvation free.                      *)
Runs(c) ==
    \/ FastPath(c) \/ Recheck(c) \/ ExchangeSucceeds(c) \/ ExchangeFails(c)
    \/ FailedRefresh(c) \/ DeferRefresh(c) \/ Call(c) \/ InvalidateIfCurrent(c)

Fairness == \A c \in Callers : WF_vars(Runs(c)) /\ SF_vars(LockRefresh(c))

FairSpec == Spec /\ Fairness

-----------------------------------------------------------------------------
(* A key that left the cache, replaced or dropped after a 401, never comes *)
(* back: deferRefresh republishes only the value it finds unchanged.       *)
NoResurrection == cur # NoKey => cur.key \notin dropped

(* "It never defers past the hard expiry, since the key must still be      *)
(* re-minted before it dies": with any jitter, lifetime and sequence of    *)
(* failed refreshes, Token serves from the cache, on the fast path or      *)
(* behind refreshMu, no key past the deadline its own exchange gave it     *)
(* (the server's expiry, if the answer had expires_at).                    *)
ServedKeyIsLive ==
    [][\A c \in Callers :
         pc[c] \in {"token", "recheck"} /\ pc'[c] = "call"
           => now < due[bearer'[c]]]_vars

(* "preventing a concurrent refresh from being wiped by a delayed response *)
(* for an older key": the cache is cleared only of a key the API refused.  *)
OnlyRejectedKeysDropped ==
    [][cur # NoKey /\ cur' = NoKey => ~Accepted(cur.key)]_vars

(* A new key replaces only the one its caller set out to renew (or one     *)
(* that a 401 has dropped since), and only when that is still due: callers *)
(* that queued behind refreshMu take the key they find.                    *)
NoNeedlessExchange ==
    [][\A c \in Callers : pc[c] = "exchange" /\ minted' > minted
         => cur \in {NoKey, seen[c]} /\ ~Fresh(cur)]_vars

(* The second try after a 401 never uses the key the first was refused     *)
(* with, whatever other callers did to the cache in between.               *)
RetryUsesAnotherKey ==
    \A c \in Callers :
        pc[c] = "call" /\ round[c] = 2 /\ rejected[c] # 0 => bearer[c] # rejected[c]

(* Every InstanceList ends: nobody waits for refreshMu for ever, and no    *)
(* endless cycle of 401s.                                                  *)
CallsEnd == \A c \in Callers : pc[c] = "token" ~> pc[c] = "done"
=============================================================================
