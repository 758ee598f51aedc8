----------------------- MODULE TokenCredentialProofs ------------------------
(***************************************************************************)
(* The safety of the cached workload-identity key for any number of        *)
(* callers, any lifetimes, windows and jitter, and any order of calls,     *)
(* refreshes, failures and 401s.                                           *)
(***************************************************************************)
EXTENDS TokenCredential, TLAPS

(* The steps are first-order, and Zenon proves them, but for the ones that *)
(* say SMT.                                                                *)
USE Zenon

Tokens == [key : Nat, expiresAt : Int, refreshAt : Int]

TypeOK ==
    /\ now \in Int
    /\ minted \in 0..MaxMints /\ expiry \in [Keys -> Int] /\ due \in [Keys -> Int]
    /\ cur \in Tokens
    /\ pc \in [Callers -> {"token", "lock", "recheck", "exchange", "failed",
                           "defer", "call", "invalidate", "done"}]
    /\ seen \in [Callers -> Tokens]
    /\ bearer \in [Callers -> 0..minted] /\ rejected \in [Callers -> 0..minted]
    /\ round \in [Callers -> {1, 2}]
    /\ dropped \subseteq 0..minted

(* The cached key: it has not left the cache before, its deadline is the   *)
(* one it was minted with, and it is refreshed before that.  A key whose   *)
(* deadline was over when it arrived is refreshed at once.                 *)
CurOK ==
    cur # NoKey =>
        /\ cur.key \in 1..minted /\ cur.key \notin dropped
        /\ cur.expiresAt = due[cur.key]
        /\ now < cur.refreshAt => cur.refreshAt <= cur.expiresAt

(* What a caller knows of it: behind refreshMu it renews the key it saw,   *)
(* and after a 401 the refused key is gone.                                *)
CallerOK(c) ==
    /\ pc[c] \in {"recheck", "exchange", "failed", "defer"} => refreshMu = c
    /\ pc[c] \notin {"exchange", "failed", "defer"} => seen[c] = NoKey
    /\ seen[c] # NoKey => seen[c].key \in 1..minted
    /\ pc[c] = "defer" => seen[c] # NoKey
    /\ pc[c] = "exchange" => cur \in {NoKey, seen[c]} /\ ~Fresh(cur)
    /\ pc[c] = "call" => bearer[c] # 0
    /\ pc[c] = "invalidate" => round[c] = 1 /\ rejected[c] # 0 /\ ~Accepted(rejected[c])
    /\ round[c] = 1 /\ pc[c] # "invalidate" => rejected[c] = 0
    /\ round[c] = 2 /\ rejected[c] # 0 =>
         /\ cur.key # rejected[c] /\ seen[c].key # rejected[c]
         /\ pc[c] = "call" => bearer[c] # rejected[c]

Inv == TypeOK /\ CurOK /\ \A c \in Callers : CallerOK(c)

-----------------------------------------------------------------------------
(* Go's division is between zero and its argument.                         *)
LEMMA DivBounds ==
    ASSUME NEW w \in Nat, NEW d \in Nat \ {0} PROVE w \div d \in 0..w
BY SMT

(* So is half a duration, on either side of zero.                          *)
LEMMA HalfBounds ==
    ASSUME NEW d \in Int
    PROVE  /\ Half(d) \in Int
           /\ d >= 0 => 0 <= Half(d) /\ Half(d) <= d
           /\ d <= 0 => d <= Half(d) /\ Half(d) <= 0
BY SMT DEF Half

(* exchangeOnce never schedules a refresh that is still to come after the  *)
(* expiry, whatever the lifetime and the jitter.                           *)
LEMMA RefreshInTime ==
    ASSUME now \in Int, NEW e \in Int, NEW r \in RefreshTimes(e)
    PROVE  r \in Int /\ (now < r => r <= e)
<1> DEFINE life == e - now
           w == Window(life)
           Start(j) == e - (w - j)
<1>1. life \in Int /\ e = now + life
  BY SMT
<1>2. PICK j \in Jitters(w) : r = IF Start(j) > now THEN Start(j) ELSE now + Half(life)
  BY DEF RefreshTimes
<1>3. w \in Int /\ (life >= 0 => w >= 0) /\ (life <= 0 => w = Half(life))
  BY <1>1, HalfBounds, WindowAssumption, SMT DEF Window
<1> HIDE DEF w, life
<1>4. /\ j \in Int
      /\ w >= 0 => 0 <= j /\ j <= w
      /\ w < 0 => j <= 0
  <2>1. CASE w >= 0
    BY <1>3, <2>1, DivBounds, WindowAssumption, SMT DEF Jitters
  <2>2. CASE w < 0
    <3>1. 0 - w \in Nat
      BY <1>3, <2>2, SMT
    <3>2. (0 - w) \div JitterDiv \in Int
      BY <3>1, DivBounds, WindowAssumption, SMT
    <3>3. QED
      BY <1>3, <2>2, <3>2, SMT DEF Jitters
  <2>3. QED
    BY <1>3, <2>1, <2>2, SMT
<1>5. CASE life >= 0
  BY <1>1, <1>2, <1>3, <1>4, <1>5, HalfBounds, SMT
<1>6. CASE life < 0
  BY <1>1, <1>2, <1>3, <1>4, <1>6, HalfBounds, SMT
<1>7. QED
  BY <1>1, <1>5, <1>6, SMT
(* The deadline of a key is a time.                                        *)
LEMMA DeadlineIsTime ==
    ASSUME now \in Int, NEW said, NEW e \in Int, NEW life \in Int
    PROVE  expiryOf(said, e, life) \in Int
<1>1. DefaultTTL \in Int
  BY LivesAssumption, SMT
<1>2. now + life \in Int /\ now + DefaultTTL \in Int
  BY <1>1, SMT
<1>3. QED
  BY <1>2 DEF expiryOf

-----------------------------------------------------------------------------
(* The initial state.                                                      *)
LEMMA InitInv == Init => Inv
BY BoundsAssumption, SMT DEF Init, Inv, TypeOK, CurOK, CallerOK, Tokens, NoKey, Keys

(* A step of c that leaves cur and the server alone leaves what the other  *)
(* callers know true.                                                      *)
LEMMA OthersKeep ==
    ASSUME Inv, NEW c \in Callers, NEW d \in Callers \ {c},
           UNCHANGED <<now, cur, server>>,
           pc'[d] = pc[d], seen'[d] = seen[d], bearer'[d] = bearer[d],
           round'[d] = round[d], rejected'[d] = rejected[d],
           refreshMu = d => refreshMu' = d
    PROVE  CallerOK(d)'
<1>1. CallerOK(d)
  BY DEF Inv
<1>2. QED
  BY <1>1 DEF CallerOK, Fresh, Accepted, server

(* Token hands the cached or the remembered key out.                       *)
LEMMA HandKeeps ==
    ASSUME Inv, NEW c \in Callers, NEW k \in 1..minted, Hand(c, k),
           pc[c] \in {"token", "recheck"}, k = cur.key,
           UNCHANGED <<now, cur, round, rejected, server, dropped>>
    PROVE  Inv'
<1>1. TypeOK'
  BY SMT DEF Inv, TypeOK, Hand, Goto, server, Tokens, NoKey
<1>2. CurOK'
  BY DEF Inv, CurOK, server
<1>3. CallerOK(c)'
  BY SMT DEF Inv, TypeOK, CallerOK, Hand, Goto, NoKey, Fresh, Accepted, server
<1>4. ASSUME NEW d \in Callers \ {c} PROVE CallerOK(d)'
  BY <1>4, OthersKeep DEF Hand, Goto, Inv, TypeOK
<1>5. QED
  BY <1>1, <1>2, <1>3, <1>4 DEF Inv

(* Every step.                                                             *)
LEMMA StepInv == Inv /\ [Next]_vars => Inv'
<1> SUFFICES ASSUME Inv, [Next]_vars PROVE Inv'
  OBVIOUS
<1>0. TypeOK /\ CurOK /\ \A c \in Callers : CallerOK(c)
  BY DEF Inv
<1>1. ASSUME NEW c \in Callers, FastPath(c) \/ Recheck(c) PROVE Inv'
  <2>1. CASE Fresh(cur) /\ Hand(c, cur.key)
    <3>1. cur.key \in 1..minted
      BY <1>0, <2>1 DEF Fresh, CurOK
    <3>2. QED
      BY <1>1, <2>1, <3>1, HandKeeps DEF FastPath, Recheck
  <2>2. CASE ~Fresh(cur) /\ FastPath(c)
    <3>1. /\ pc' = [pc EXCEPT ![c] = "lock"] /\ pc[c] = "token"
          /\ UNCHANGED <<seen, bearer, refreshMu, now, cur, round, rejected, server, dropped>>
      BY <2>2 DEF FastPath, Goto
    <3>2. TypeOK' /\ CurOK'
      BY <1>0, <3>1 DEF TypeOK, CurOK, server
    <3>3. CallerOK(c)'
      BY <1>0, <3>1 DEF TypeOK, CallerOK, server
    <3>4. ASSUME NEW d \in Callers \ {c} PROVE CallerOK(d)'
      BY <1>0, <3>1, <3>4, OthersKeep DEF TypeOK
    <3>5. QED
      BY <3>2, <3>3, <3>4 DEF Inv
  <2>3. CASE ~Fresh(cur) /\ Recheck(c)
    <3>1. /\ pc' = [pc EXCEPT ![c] = "exchange"] /\ pc[c] = "recheck"
          /\ seen' = [seen EXCEPT ![c] = cur]
          /\ UNCHANGED <<bearer, refreshMu, now, cur, round, rejected, server, dropped>>
      BY <2>3 DEF Recheck, Goto
    <3>2. TypeOK' /\ CurOK'
      BY <1>0, <3>1 DEF TypeOK, CurOK, server
    <3>3. CallerOK(c)'
      BY <1>0, <2>3, <3>1 DEF TypeOK, CurOK, CallerOK, Fresh, server
    <3>4. ASSUME NEW d \in Callers \ {c} PROVE CallerOK(d)'
      BY <1>0, <3>1, <3>4, OthersKeep DEF TypeOK
    <3>5. QED
      BY <3>2, <3>3, <3>4 DEF Inv
  <2>4. QED
    BY <1>1, <2>1, <2>2, <2>3 DEF FastPath, Recheck
<1>2. ASSUME NEW c \in Callers, LockRefresh(c) PROVE Inv'
  <2>1. TypeOK' /\ CurOK'
    BY <1>0, <1>2 DEF LockRefresh, Goto, TypeOK, CurOK, server
  <2>2. CallerOK(c)'
    BY <1>0, <1>2 DEF LockRefresh, Goto, TypeOK, CallerOK, server
  <2>3. ASSUME NEW d \in Callers \ {c} PROVE CallerOK(d)'
    <3>1. refreshMu # d
      BY <1>2, NobodyAssumption DEF LockRefresh
    <3>2. QED
      BY <1>0, <1>2, <2>3, <3>1, OthersKeep DEF LockRefresh, Goto, TypeOK
  <2>4. QED
    BY <2>1, <2>2, <2>3 DEF Inv
<1>3. ASSUME NEW c \in Callers, ExchangeSucceeds(c) PROVE Inv'
  <2>0. PICK life \in Lives, lag \in Lags, said \in {"expires_at", "expires_in", "neither"} :
          LET e == now - lag + life
              d == expiryOf(said, e, life)
          IN  /\ expiry' = [expiry EXCEPT ![minted + 1] = e]
              /\ due' = [due EXCEPT ![minted + 1] = d]
              /\ \E r \in RefreshTimes(d) :
                    cur' = [key |-> minted + 1, expiresAt |-> d, refreshAt |-> r]
    BY <1>3 DEF ExchangeSucceeds
  <2> DEFINE e == now - lag + life
             t == expiryOf(said, e, life)
  <2>1. PICK r \in RefreshTimes(t) :
          /\ expiry' = [expiry EXCEPT ![minted + 1] = e]
          /\ due' = [due EXCEPT ![minted + 1] = t]
          /\ cur' = [key |-> minted + 1, expiresAt |-> t, refreshAt |-> r]
    BY <2>0
  <2>11. now \in Int /\ life \in Int /\ lag \in Int /\ DefaultTTL \in Int
    BY <1>0, LivesAssumption, SMT DEF TypeOK
  <2>12. e \in Int
    BY <2>11, SMT
  <2>13. t \in Int
    BY <2>11, <2>12, DeadlineIsTime
  <2> HIDE DEF e, t
  <2>2. r \in Int /\ (now < r => r <= t)
    BY <2>11, <2>13, RefreshInTime
  <2>3. /\ pc[c] = "exchange" /\ minted < MaxMints /\ minted' = minted + 1
        /\ dropped' = dropped \cup {cur.key}
        /\ bearer' = [bearer EXCEPT ![c] = minted + 1]
        /\ pc' = [pc EXCEPT ![c] = "call"]
        /\ refreshMu' = (IF refreshMu = c THEN Nobody ELSE refreshMu)
        /\ seen' = [seen EXCEPT ![c] = NoKey]
        /\ UNCHANGED <<now, round, rejected, revoked>>
    BY <1>3 DEF ExchangeSucceeds, Hand, Goto
  <2>4. minted \in Nat /\ minted + 1 \in Keys /\ cur.key \in 0..minted /\ minted' \in 0..MaxMints
    BY <1>0, <2>3, BoundsAssumption, SMT DEF TypeOK, CurOK, Keys, NoKey
  <2>5. TypeOK'
    <3>1. cur' \in Tokens /\ NoKey \in Tokens
      BY <1>0, <2>1, <2>2, <2>4, <2>13, SMT DEF TypeOK, Tokens, NoKey
    <3>2. expiry' \in [Keys -> Int] /\ due' \in [Keys -> Int]
      BY <1>0, <2>1, <2>12, <2>13 DEF TypeOK
    <3>3. bearer' \in [Callers -> 0..minted'] /\ rejected' \in [Callers -> 0..minted']
      BY <1>0, <2>3, <2>4, SMT DEF TypeOK
    <3>4. dropped' \subseteq 0..minted'
      <4>1. 0..minted \subseteq 0..minted' /\ dropped \subseteq 0..minted
        BY <1>0, <2>3, <2>4, SMT DEF TypeOK
      <4>2. QED
        BY <2>3, <2>4, <4>1
    <3>5. QED
      BY <1>0, <2>3, <2>4, <3>1, <3>2, <3>3, <3>4 DEF TypeOK
  <2>6. CurOK'
    BY <1>0, <2>1, <2>2, <2>3, <2>4, <2>13, SMT DEF TypeOK, CurOK
  <2>7. cur'.key = minted + 1 /\ \A k \in 1..minted : expiry'[k] = expiry[k]
    BY <1>0, <2>1, <2>4, SMT DEF TypeOK, Keys
  <2>8. CallerOK(c)'
    BY <1>0, <2>3, <2>4, <2>7, SMT DEF TypeOK, CallerOK, NoKey
  <2>9. ASSUME NEW d \in Callers \ {c} PROVE CallerOK(d)'
    <3>1. /\ pc'[d] = pc[d] /\ seen'[d] = seen[d] /\ bearer'[d] = bearer[d]
          /\ round'[d] = round[d] /\ rejected'[d] = rejected[d]
      BY <1>0, <2>3 DEF TypeOK
    <3>2. refreshMu = c /\ pc[d] \notin {"recheck", "exchange", "failed", "defer"}
      BY <1>0, <2>3 DEF CallerOK
    <3>3. rejected[d] # 0 => Accepted(rejected[d])' = Accepted(rejected[d])
      BY <1>0, <2>3, <2>7, <3>1, SMT DEF TypeOK, Accepted
    <3>4. rejected[d] \in 0..minted
      BY <1>0 DEF TypeOK
    <3>5. QED
      BY <1>0, <2>3, <2>4, <2>7, <3>1, <3>2, <3>3, <3>4, SMT DEF CallerOK
  <2>10. QED
    BY <2>5, <2>6, <2>8, <2>9 DEF Inv
<1>4. ASSUME NEW c \in Callers, ExchangeFails(c) PROVE Inv'
  <2>1. TypeOK' /\ CurOK'
    BY <1>0, <1>4 DEF ExchangeFails, Goto, TypeOK, CurOK, server
  <2>2. CallerOK(c)'
    BY <1>0, <1>4 DEF ExchangeFails, Goto, TypeOK, CallerOK, server
  <2>3. ASSUME NEW d \in Callers \ {c} PROVE CallerOK(d)'
    BY <1>0, <1>4, <2>3, OthersKeep DEF ExchangeFails, Goto, TypeOK
  <2>4. QED
    BY <2>1, <2>2, <2>3 DEF Inv
<1>5. ASSUME NEW c \in Callers, FailedRefresh(c) PROVE Inv'
  <2>1. CASE seen[c] # NoKey /\ now < seen[c].expiresAt
    <3>1. /\ pc[c] = "failed" /\ pc' = [pc EXCEPT ![c] = "defer"]
          /\ UNCHANGED <<refreshMu, seen, round, now, cur, bearer, rejected, server, dropped>>
      BY <1>5, <2>1 DEF FailedRefresh, Goto
    <3>2. TypeOK' /\ CurOK'
      BY <1>0, <3>1 DEF TypeOK, CurOK, server
    <3>3. CallerOK(c)'
      BY <1>0, <2>1, <3>1 DEF TypeOK, CallerOK, server
    <3>4. ASSUME NEW d \in Callers \ {c} PROVE CallerOK(d)'
      BY <1>0, <3>1, <3>4, OthersKeep DEF TypeOK
    <3>5. QED
      BY <3>2, <3>3, <3>4 DEF Inv
  <2>2. CASE ~(seen[c] # NoKey /\ now < seen[c].expiresAt)
    <3>1. /\ pc[c] = "failed" /\ refreshMu' = Nobody /\ seen' = [seen EXCEPT ![c] = NoKey]
          /\ \/ pc' = [pc EXCEPT ![c] = "done"] /\ round' = round
             \/ /\ pc' = [pc EXCEPT ![c] = "token"] /\ round[c] = 1
                /\ round' = [round EXCEPT ![c] = 2]
          /\ UNCHANGED <<now, cur, bearer, rejected, server, dropped>>
      BY <1>5, <2>2 DEF FailedRefresh, Goto
    <3>2. TypeOK' /\ CurOK'
      <4>1. NoKey \in Tokens
        BY SMT DEF NoKey, Tokens
      <4>2. pc' \in [Callers -> {"token", "lock", "recheck", "exchange", "failed",
                                 "defer", "call", "invalidate", "done"}]
        BY <1>0, <3>1 DEF TypeOK
      <4>3. seen' \in [Callers -> Tokens]
        BY <1>0, <3>1, <4>1 DEF TypeOK
      <4>4. round' \in [Callers -> {1, 2}]
        BY <1>0, <3>1, SMT DEF TypeOK
      <4>5. QED
        BY <1>0, <3>1, <4>2, <4>3, <4>4 DEF TypeOK, CurOK, server
    <3>3. CallerOK(c)'
      BY <1>0, <3>1 DEF TypeOK, CallerOK, NoKey, server
    <3>4. ASSUME NEW d \in Callers \ {c} PROVE CallerOK(d)'
      <4>1. refreshMu # d
        BY <1>0, <3>1 DEF CallerOK
      <4>2. QED
        BY <1>0, <3>1, <3>4, <4>1, OthersKeep DEF TypeOK
    <3>5. QED
      BY <3>2, <3>3, <3>4 DEF Inv
  <2>3. QED
    BY <2>1, <2>2
<1>6. ASSUME NEW c \in Callers, DeferRefresh(c) PROVE Inv'
  <2>1. /\ pc[c] = "defer" /\ seen' = [seen EXCEPT ![c] = NoKey]
        /\ pc' = [pc EXCEPT ![c] = "call"] /\ bearer' = [bearer EXCEPT ![c] = seen[c].key]
        /\ refreshMu' = (IF refreshMu = c THEN Nobody ELSE refreshMu)
        /\ UNCHANGED <<now, round, rejected, server, dropped>>
    BY <1>6 DEF DeferRefresh, Hand, Goto
  <2>2. seen[c] # NoKey /\ seen[c].key \in 1..minted /\ refreshMu = c /\ seen[c] \in Tokens
    BY <1>0, <2>1 DEF CallerOK, TypeOK
  <2>3. \/ cur' = cur
        \/ /\ cur # NoKey /\ cur = seen[c]
           /\ cur' = [cur EXCEPT !.refreshAt = Deferral(cur)]
    BY <1>6 DEF DeferRefresh, StillCurrent
  <2>4. Deferral(cur) \in Int /\ Deferral(cur) <= cur.expiresAt
    BY <1>0, WindowAssumption, SMT DEF TypeOK, Tokens, Deferral
  <2>5. cur' \in Tokens /\ cur'.key = cur.key /\ cur'.expiresAt = cur.expiresAt
    BY <1>0, <2>3, <2>4 DEF TypeOK, Tokens
  <2>6. TypeOK'
    BY <1>0, <2>1, <2>2, <2>5, SMT DEF TypeOK, Tokens, NoKey, server
  <2>7. CurOK'
    <3>1. CASE cur' = cur
      BY <1>0, <2>1, <3>1 DEF CurOK, server
    <3>2. CASE cur # NoKey /\ cur' = [cur EXCEPT !.refreshAt = Deferral(cur)]
      <4>1. cur'.refreshAt <= cur'.expiresAt
        BY <1>0, <2>4, <2>5, <3>2 DEF TypeOK, Tokens
      <4>2. QED
        BY <1>0, <2>1, <2>5, <3>2, <4>1, SMT DEF CurOK, server
    <3>3. QED
      BY <2>3, <3>1, <3>2
  <2>8. CallerOK(c)'
    BY <1>0, <2>1, <2>2, <2>5, SMT DEF TypeOK, CallerOK, NoKey, server
  <2>9. ASSUME NEW d \in Callers \ {c} PROVE CallerOK(d)'
    <3>1. /\ pc'[d] = pc[d] /\ seen'[d] = seen[d] /\ bearer'[d] = bearer[d]
          /\ round'[d] = round[d] /\ rejected'[d] = rejected[d]
      BY <1>0, <2>1 DEF TypeOK
    <3>2. pc[d] \notin {"recheck", "exchange", "failed", "defer"}
      BY <1>0, <2>2 DEF CallerOK
    <3>3. Accepted(rejected[d])' = Accepted(rejected[d])
      BY <2>1, <3>1 DEF Accepted, server
    <3>4. QED
      BY <1>0, <2>1, <2>5, <3>1, <3>2, <3>3, SMT DEF CallerOK, server
  <2>10. QED
    BY <2>6, <2>7, <2>8, <2>9 DEF Inv
<1>7. ASSUME NEW c \in Callers, Call(c) PROVE Inv'
  <2>1. /\ pc[c] = "call" /\ bearer' = [bearer EXCEPT ![c] = 0]
        /\ \/ pc' = [pc EXCEPT ![c] = "done"] /\ rejected' = rejected
           \/ /\ ~Accepted(bearer[c]) /\ round[c] = 1
              /\ pc' = [pc EXCEPT ![c] = "invalidate"]
              /\ rejected' = [rejected EXCEPT ![c] = bearer[c]]
        /\ UNCHANGED <<now, cur, refreshMu, seen, round, server, dropped>>
    BY <1>7 DEF Call, Goto
  <2>2. TypeOK'
    BY <1>0, <2>1, SMT DEF TypeOK, server
  <2>3. CurOK'
    BY <1>0, <2>1 DEF CurOK, server
  <2>4. CallerOK(c)'
    BY <1>0, <2>1, SMT DEF TypeOK, CallerOK, Accepted, server
  <2>5. ASSUME NEW d \in Callers \ {c} PROVE CallerOK(d)'
    BY <1>0, <2>1, <2>5, OthersKeep DEF TypeOK
  <2>6. QED
    BY <2>2, <2>3, <2>4, <2>5 DEF Inv
<1>8. ASSUME NEW c \in Callers, InvalidateIfCurrent(c) PROVE Inv'
  <2>1. /\ pc[c] = "invalidate" /\ pc' = [pc EXCEPT ![c] = "token"]
        /\ round' = [round EXCEPT ![c] = round[c] + 1]
        /\ \/ cur # NoKey /\ cur.key = rejected[c] /\ cur' = NoKey /\ dropped' = dropped \cup {cur.key}
           \/ ~(cur # NoKey /\ cur.key = rejected[c]) /\ cur' = cur /\ dropped' = dropped
        /\ UNCHANGED <<now, refreshMu, seen, bearer, rejected, server>>
    BY <1>8 DEF InvalidateIfCurrent, Invalidates, Goto
  <2>2. round[c] = 1 /\ rejected[c] # 0 /\ seen[c] = NoKey
    BY <1>0, <2>1 DEF CallerOK
  <2>3. TypeOK'
    <3>1. NoKey \in Tokens
      BY SMT DEF Tokens, NoKey
    <3>2. rejected[c] \in 0..minted /\ dropped \subseteq 0..minted
      BY <1>0 DEF TypeOK
    <3>3. dropped' \subseteq 0..minted
      BY <2>1, <3>2
    <3>4. QED
      BY <1>0, <2>1, <2>2, <3>1, <3>3, SMT DEF TypeOK, server
  <2>4. CurOK'
    BY <1>0, <2>1, SMT DEF CurOK, server
  <2>5. cur' \in {cur, NoKey} /\ cur'.key # rejected[c] /\ ~Fresh(NoKey) /\ NoKey.key = 0
    BY <2>1, <2>2, SMT DEF NoKey, Fresh
  <2>6. CallerOK(c)'
    BY <1>0, <2>1, <2>2, <2>5, SMT DEF TypeOK, CallerOK, server
  <2>7. ASSUME NEW d \in Callers \ {c} PROVE CallerOK(d)'
    <3>1. /\ pc'[d] = pc[d] /\ seen'[d] = seen[d] /\ bearer'[d] = bearer[d]
          /\ round'[d] = round[d] /\ rejected'[d] = rejected[d]
      BY <1>0, <2>1 DEF TypeOK
    <3>2. Accepted(rejected[d])' = Accepted(rejected[d])
      BY <2>1, <3>1 DEF Accepted, server
    <3>3. Fresh(cur)' => Fresh(cur)
      BY <2>1, <2>5 DEF Fresh
    <3>4. QED
      BY <1>0, <2>1, <2>5, <3>1, <3>2, <3>3, SMT DEF CallerOK, server
  <2>8. QED
    BY <2>3, <2>4, <2>6, <2>7 DEF Inv
<1>9. ASSUME NEW c \in Callers, Begin(c) PROVE Inv'
  <2>1. TypeOK' /\ CurOK'
    BY <1>0, <1>9, SMT DEF Begin, Goto, TypeOK, CurOK, server
  <2>2. CallerOK(c)'
    BY <1>0, <1>9 DEF Begin, Goto, TypeOK, CallerOK, server
  <2>3. ASSUME NEW d \in Callers \ {c} PROVE CallerOK(d)'
    BY <1>0, <1>9, <2>3, OthersKeep DEF Begin, Goto, TypeOK
  <2>4. QED
    BY <2>1, <2>2, <2>3 DEF Inv
<1>10. ASSUME NEW k \in Keys, Revoke(k) PROVE Inv'
  BY <1>0, <1>10 DEF Revoke, Inv, TypeOK, CurOK, CallerOK, Fresh, Accepted
<1>11. ASSUME Tick PROVE Inv'
  <2>1. now' = now + 1 /\ now \in Int
    BY <1>0, <1>11 DEF Tick, TypeOK
  <2>2. TypeOK'
    BY <1>0, <1>11, <2>1, SMT DEF Tick, TypeOK, server
  <2>3. CurOK'
    BY <1>0, <1>11, <2>1, SMT DEF Tick, TypeOK, Tokens, CurOK, server
  <2>4. ASSUME NEW c \in Callers PROVE CallerOK(c)'
    <3>1. Fresh(cur)' => Fresh(cur)
      BY <1>0, <1>11, <2>1, SMT DEF Tick, Fresh, TypeOK, Tokens
    <3>2. rejected[c] # 0 /\ ~Accepted(rejected[c]) => ~Accepted(rejected[c])'
      <4>1. rejected[c] # 0 => rejected[c] \in Keys
        BY <1>0, BoundsAssumption, SMT DEF TypeOK, Keys
      <4>2. rejected[c] # 0 => expiry[rejected[c]] \in Int
        BY <1>0, <4>1 DEF TypeOK
      <4>3. UNCHANGED <<rejected, revoked, expiry>>
        BY <1>11 DEF Tick, server
      <4>4. QED
        BY <2>1, <4>2, <4>3, SMT DEF Accepted
    <3>3. QED
      BY <1>0, <1>11, <3>1, <3>2 DEF Tick, CallerOK, server
  <2>5. QED
    BY <2>2, <2>3, <2>4 DEF Inv
<1>12. CASE UNCHANGED vars
  BY <1>0, <1>12 DEF vars, Inv, TypeOK, CurOK, CallerOK, Fresh, Accepted
<1>13. QED
  BY <1>1, <1>2, <1>3, <1>4, <1>5, <1>6, <1>7, <1>8, <1>9, <1>10, <1>11, <1>12 DEF Next, Token

-----------------------------------------------------------------------------
(* A key that left the cache never comes back.                             *)
THEOREM Resurrection == Spec => []NoResurrection
<1>1. Inv => NoResurrection
  BY DEF Inv, CurOK, NoResurrection
<1>2. QED
  BY <1>1, InitInv, StepInv, PTL DEF Spec

(* The second try after a 401 never uses the key the first was refused     *)
(* with.                                                                   *)
THEOREM Retry == Spec => []RetryUsesAnotherKey
<1>1. Inv => RetryUsesAnotherKey
  BY DEF Inv, CallerOK, RetryUsesAnotherKey
<1>2. QED
  BY <1>1, InitInv, StepInv, PTL DEF Spec

(* Token serves no key from the cache that is past its deadline.           *)
THEOREM Served == Spec => ServedKeyIsLive
<1> DEFINE Live == \A c \in Callers :
        pc[c] \in {"token", "recheck"} /\ pc'[c] = "call" => now < due[bearer'[c]]
<1>1. Inv /\ [Next]_vars => [Live]_vars
  <2> SUFFICES ASSUME Inv, Next, NEW c \in Callers,
                      pc[c] \in {"token", "recheck"}, pc'[c] = "call"
               PROVE  now < due[bearer'[c]]
    OBVIOUS
  <2>0. TypeOK /\ CurOK
    BY DEF Inv
  <2>1. ASSUME NEW d \in Callers, pc' = [pc EXCEPT ![d] = pc'[d]] PROVE d = c
    BY <2>0, <2>1 DEF TypeOK
  <2>2. FastPath(c) \/ Recheck(c)
    <3>1. ASSUME NEW d \in Callers, Token(d) PROVE FastPath(c) \/ Recheck(c)
      <4>1. pc' = [pc EXCEPT ![d] = pc'[d]]
        BY <2>0, <3>1 DEF TypeOK, Token, FastPath, LockRefresh, Recheck, ExchangeSucceeds,
           ExchangeFails, FailedRefresh, DeferRefresh, Hand, Goto
      <4>2. d = c
        BY <2>1, <4>1
      <4>3. QED
        BY <2>0, <3>1, <4>2 DEF TypeOK, Token, LockRefresh, ExchangeSucceeds,
           ExchangeFails, FailedRefresh, DeferRefresh, Goto
    <3>2. ASSUME NEW d \in Callers, Call(d) \/ InvalidateIfCurrent(d) \/ Begin(d) PROVE FALSE
      BY <2>0, <3>2 DEF TypeOK, Call, InvalidateIfCurrent, Begin, Goto
    <3>3. ASSUME NEW k \in Keys, Revoke(k) PROVE FALSE
      BY <3>3 DEF Revoke
    <3>4. ASSUME Tick PROVE FALSE
      BY <3>4 DEF Tick
    <3>5. QED
      BY <3>1, <3>2, <3>3, <3>4 DEF Next
  <2>3. Fresh(cur) /\ Hand(c, cur.key)
    BY <2>0, <2>2 DEF FastPath, Recheck, Goto, TypeOK
  <2>4. bearer'[c] = cur.key
    BY <2>0, <2>3 DEF Hand, TypeOK
  <2>5. cur.key \in Keys
    BY <2>0, <2>3, BoundsAssumption, SMT DEF Fresh, CurOK, TypeOK, Keys
  <2>6. QED
    BY <2>0, <2>3, <2>4, <2>5, SMT DEF Fresh, CurOK, TypeOK, Tokens
<1>2. QED
  BY <1>1, InitInv, StepInv, PTL DEF Spec, ServedKeyIsLive

(* The cache is cleared only of a key the API refused.                     *)
THEOREM Dropped == Spec => OnlyRejectedKeysDropped
<1> DEFINE Refused == cur # NoKey /\ cur' = NoKey => ~Accepted(cur.key)
<1>1. Inv /\ [Next]_vars => [Refused]_vars
  <2> SUFFICES ASSUME Inv, Next, cur # NoKey, cur' = NoKey PROVE ~Accepted(cur.key)
    OBVIOUS
  <2>0. TypeOK /\ CurOK /\ \A c \in Callers : CallerOK(c)
    BY DEF Inv
  <2>1. ASSUME NEW c \in Callers, ExchangeSucceeds(c) PROVE FALSE
    <3>1. cur'.key = minted + 1
      BY <2>1, SMT DEF ExchangeSucceeds
    <3>2. QED
      BY <2>0, <3>1, SMT DEF TypeOK, NoKey
  <2>2. ASSUME NEW c \in Callers, DeferRefresh(c) PROVE FALSE
    <3>1. cur'.key \in {cur.key, seen[c].key}
      BY <2>0, <2>2 DEF DeferRefresh, TypeOK, Tokens
    <3>2. cur.key # 0 /\ seen[c].key # 0
      BY <2>0, <2>2, SMT DEF DeferRefresh, CallerOK, CurOK
    <3>3. QED
      BY <3>1, <3>2 DEF NoKey
  <2>3. ASSUME NEW c \in Callers, InvalidateIfCurrent(c) PROVE ~Accepted(cur.key)
    BY <2>0, <2>3 DEF InvalidateIfCurrent, Invalidates, CallerOK
  <2>4. ASSUME UNCHANGED cur PROVE FALSE
    BY <2>4
  <2>5. QED
    BY <2>1, <2>2, <2>3, <2>4 DEF Next, Token, FastPath, LockRefresh, Recheck,
       ExchangeFails, FailedRefresh, Call, Begin, Revoke, Tick
<1>2. QED
  BY <1>1, InitInv, StepInv, PTL DEF Spec, OnlyRejectedKeysDropped

(* A new key replaces only the one its caller set out to renew, when that  *)
(* is still due.                                                           *)
THEOREM Exchanges == Spec => NoNeedlessExchange
<1> DEFINE Needed == \A c \in Callers : pc[c] = "exchange" /\ minted' > minted
                        => cur \in {NoKey, seen[c]} /\ ~Fresh(cur)
<1>1. Inv /\ [Next]_vars => [Needed]_vars
  BY DEF Inv, CallerOK
<1>2. QED
  BY <1>1, InitInv, StepInv, PTL DEF Spec, NoNeedlessExchange
=============================================================================
