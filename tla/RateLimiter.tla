---------------------------- MODULE RateLimiter ----------------------------
(***************************************************************************)
(* The fixed windows that requests are counted in: _rateLimitState of      *)
(* server.cjs (per route and address, swept every few minutes) and         *)
(* _clientRateState of public/js/api.js (per route, never swept).          *)
(*                                                                         *)
(* A window is opened by the first request after the last one has passed;  *)
(* the configuration that gives its length and limit may be edited at any  *)
(* time (server-config.json), which changes the limit of the windows that  *)
(* are open and the length of those to come.                               *)
(***************************************************************************)
EXTENDS Integers, FiniteSets

CONSTANTS
  ServerKeys,  \* "<route>:<address>"
  ClientKeys,  \* routes, in a browser
  Configs,     \* the limits and lengths an operator may choose
  MinWindow,   \* the shortest of those lengths
  MaxLimit,    \* the highest of those limits
  SweepEvery,  \* RATE_LIMIT_SWEEP_INTERVAL_MS
  LastTime,     \* bound: the time
  NoWindow     \* a key without an entry

Keys == ServerKeys \cup ClientKeys
Windows == [count : Nat, reset : Nat]

ASSUME LimiterAssumption ==
  /\ ServerKeys \cap ClientKeys = {}
  /\ MinWindow \in Nat \ {0} /\ MaxLimit \in Nat \ {0} /\ SweepEvery \in Nat /\ LastTime \in Nat
  /\ Configs \subseteq [limit : 1..MaxLimit, windowMs : {w \in Nat : w >= MinWindow}]
  /\ NoWindow \notin Windows

VARIABLES
  windows,  \* the two maps
  swept,    \* _lastRateLimitSweep
  cfg,      \* the configuration in force
  clock,    \* Date.now()
  granted,  \* history: the requests let through, [key, at, no, n]: the n-th of window no
  opened    \* history: the windows opened for each key, and when the last one was

limiterVars == <<windows, swept, cfg, clock, granted, opened>>

LimiterTypeOK ==
  /\ windows \in [Keys -> Windows \cup {NoWindow}]
  /\ swept \in Nat /\ cfg \in Configs /\ clock \in Nat
  /\ granted \subseteq [key : Keys, at : Nat, no : Nat, n : 1..MaxLimit]
  /\ opened \in [Keys -> [no : Nat, at : Nat]]

LimiterInit ==
  /\ windows = [k \in Keys |-> NoWindow]
  /\ swept = 0 /\ cfg \in Configs /\ clock = 0
  /\ granted = {} /\ opened = [k \in Keys |-> [no |-> 0, at |-> 0]]
-----------------------------------------------------------------------------
Past(w) == w = NoWindow \/ (w # NoWindow /\ clock >= w.reset)

\* Mutant: the sweep empties the map.
SweepAll(ws) == [k \in Keys |-> IF k \in ServerKeys THEN NoWindow ELSE ws[k]]

\* sweepRateLimits
SweepRateLimits(ws) ==
  [k \in Keys |-> IF k \in ServerKeys /\ Past(ws[k]) THEN NoWindow ELSE ws[k]]

\* What the windows are when a request of k has been counted in ws.
Count(k, ws) ==
  IF Past(ws[k])
  THEN /\ windows' = [ws EXCEPT ![k] = [count |-> 1, reset |-> clock + cfg.windowMs]]
       /\ opened' = [opened EXCEPT ![k] = [no |-> opened[k].no + 1, at |-> clock]]
       /\ granted' = granted \cup {[key |-> k, at |-> clock, no |-> opened[k].no + 1, n |-> 1]}
  ELSE IF ws[k].count >= cfg.limit
  THEN windows' = ws /\ UNCHANGED <<opened, granted>>
  ELSE /\ windows' = [ws EXCEPT ![k] = [count |-> ws[k].count + 1, reset |-> ws[k].reset]]
       /\ granted' = granted \cup
            {[key |-> k, at |-> clock, no |-> opened[k].no, n |-> ws[k].count + 1]}
       /\ UNCHANGED opened

\* takeRateLimitToken, called by rateLimit: a sweep when one is due, then the count.
TakeRateLimitToken(k) ==
  /\ k \in ServerKeys
  /\ IF clock - swept >= SweepEvery
     THEN Count(k, SweepRateLimits(windows)) /\ swept' = clock
     ELSE Count(k, windows) /\ swept' = swept
  /\ UNCHANGED <<cfg, clock>>

\* hitClientRateLimit: limits and lengths are those of CLIENT_RATE_LIMITS.
HitClientRateLimit(k) ==
  /\ k \in ClientKeys
  /\ Count(k, windows)
  /\ UNCHANGED <<swept, cfg, clock>>

\* getRateLimitConfig answers with what the last reload found.
Reconfigure(c) ==
  /\ cfg' = c
  /\ UNCHANGED <<windows, swept, clock, granted, opened>>

TimePasses ==
  /\ clock < LastTime /\ clock' = clock + 1
  /\ UNCHANGED <<windows, swept, cfg, granted, opened>>

LimiterNext ==
  \/ \E k \in Keys : TakeRateLimitToken(k) \/ HitClientRateLimit(k)
  \/ \E c \in Configs : Reconfigure(c)
  \/ TimePasses

LimiterSpec == LimiterInit /\ [][LimiterNext]_limiterVars
-----------------------------------------------------------------------------
Served(k, t) == {g \in granted : g.key = k /\ g.at \in t..(t + MinWindow - 1)}

\* Whatever is swept and reconfigured, in any span as long as the shortest window
\* no key is let through more often than twice the highest limit: a fixed window
\* may be used up at its end and the next one at its start, and that is all.
AtMostTwiceTheLimit ==
  \A k \in Keys, g \in granted : Cardinality(Served(k, g.at)) <= 2 * MaxLimit
=============================================================================
