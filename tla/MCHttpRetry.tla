---------------------------- MODULE MCHttpRetry -----------------------------
(* DoRequestWithRetries for TLC: headers of every kind ParseRetryAfter     *)
(* tells apart, at and beyond the cap.                                     *)
EXTENDS HttpRetry

MCHeaders == {NoHeader, Header("seconds", 0), Header("seconds", 2),
              Header("seconds", 9), Header("seconds", -1),
              Header("date", 5), Header("date", 0), Header("garbage", 0)}
=============================================================================
