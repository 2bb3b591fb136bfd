------------------------------- MODULE RateLimit -------------------------------
(***************************************************************************)
(* HTTP rate limiting: enforceRateLimit with its cached settings and its   *)
(* fixed windows in Redis, and updateConfig.  The model is of the counters *)
(* of one group and subject: others have keys of their own.  Times are in  *)
(* ticks of the clock (the code's milliseconds), the settings and Redis'   *)
(* times to live in seconds; a counter's key is the number of its window.  *)
(***************************************************************************)
EXTENDS Naturals, FiniteSets

CONSTANTS
  Server,         \* processes, each with its settingsCache
  Request,        \* requests under way
  MaxRequests,    \* bound: requests that are counted or refused
  MaxUpdates,     \* bound: calls of updateConfig
  WindowSeconds,  \* window lengths an admin may set
  Limits,         \* values of maxRequests an admin may set
  TicksPerSecond, \* how fine the clock is: a thousand in the code
  CacheTtl,       \* SETTINGS_CACHE_TTL_MS, in ticks
  Start, End,     \* bound: the ticks the instance lasts
  Faults          \* whether processes die and Redis calls fail

Ticks(seconds) == seconds * TicksPerSecond

ASSUME RateAssumption ==
  /\ MaxRequests \in Nat /\ MaxUpdates \in Nat
  /\ TicksPerSecond \in Nat \ {0} /\ CacheTtl \in Nat \ {0}
  /\ WindowSeconds \subseteq Nat \ {0} /\ Limits \subseteq Nat \ {0} /\ Faults \in BOOLEAN
  /\ Start \in Nat /\ End \in Nat /\ Start <= End
  /\ \E w \in WindowSeconds : \A v \in WindowSeconds : v <= w
  /\ \E n \in Limits : \A m \in Limits : m <= n
  \* The epoch is long past and windows are short: while the instance lasts, windows
  \* of different lengths never share a number.
  /\ \A v, w \in WindowSeconds, s, t \in Start..End :
       s \div Ticks(v) = t \div Ticks(w) => v = w

Config == [enabled : BOOLEAN, windowSeconds : WindowSeconds, maxRequests : Limits]
DefaultConfig ==
  CHOOSE c \in Config : c.enabled /\ \A d \in Config : d.windowSeconds <= c.windowSeconds
                                                  /\ d.maxRequests <= c.maxRequests

VARIABLES
  now,
  settings,   \* the rate_limit_settings row, with the number of updates so far
  settingsCache, \* of each server
  request,    \* the requests in enforceRateLimit
  update,     \* updateConfig under way, on each server
  counter,    \* Redis: counters and when they expire
  served,     \* requests that have been counted or refused
  passed,     \* history: requests let through while their window lasted, by
              \* configuration and window
  done        \* history: the last update that each server has completed

rateVars == <<now, settings, settingsCache, request, update, counter, served, passed, done>>

Time == Start..End
Window == {0} \union {t \div Ticks(w) : t \in Time, w \in WindowSeconds}
Longest == CHOOSE w \in WindowSeconds : \A v \in WindowSeconds : v <= w
Never == End + CacheTtl + 1 + Ticks(Longest)

Settings == [exists : BOOLEAN, config : Config, version : 0..MaxUpdates]
Cached == [valid : BOOLEAN, config : Config, expiresAt : 0..Never,
           version : 0..MaxUpdates, late : BOOLEAN]
RequestState ==
  [pc : {"idle", "create", "store", "clock", "incr", "expire", "ttl", "blocked"},
   server : Server, config : Config, version : 0..MaxUpdates,
   window : Window, retryAt : Nat]
Counter == [value : Nat, expiresAt : 0..Never]

NoCounter == [value |-> 0, expiresAt |-> Never]
NoCache == [valid |-> FALSE, config |-> DefaultConfig, expiresAt |-> 0, version |-> 0,
            late |-> FALSE]
Idle(s) == [pc |-> "idle", server |-> s, config |-> DefaultConfig, version |-> 0,
            window |-> 0, retryAt |-> 0]

RateInit ==
  /\ now = Start
  /\ settings = [exists |-> FALSE, config |-> DefaultConfig, version |-> 0]
  /\ settingsCache = [s \in Server |-> NoCache]
  /\ request \in [Request -> {Idle(s) : s \in Server}]
  /\ update = [s \in Server |-> 0]
  /\ counter = [w \in Window |-> NoCounter]
  /\ served = 0
  /\ passed = [c \in Config |-> [w \in Window |-> 0]]
  /\ done = [s \in Server |-> 0]

Become(r, state) == request' = [request EXCEPT ![r] = state]
Ends(r) == Become(r, Idle(request[r].server))

\* The counter of the window as Redis has it: gone when it has expired.
Current(w) == IF counter[w].expiresAt <= now THEN NoCounter ELSE counter[w]

-----------------------------------------------------------------------------
(***************************************************************************)
(* getOverview.                                                            *)
(***************************************************************************)
Proceed(r, config, version) ==
  IF config.enabled
  THEN Become(r, [request[r] EXCEPT !.pc = "clock", !.config = config, !.version = version])
  ELSE Ends(r)

BeginRequest(r) ==
  LET s == request[r].server
  IN  /\ request[r].pc = "idle"
      /\ served < MaxRequests
      /\ served' = served + 1
      /\ IF settingsCache[s].valid /\ settingsCache[s].expiresAt > now
         THEN Proceed(r, settingsCache[s].config, settingsCache[s].version)
         ELSE Become(r, [request[r] EXCEPT !.pc = IF settings.exists THEN "store" ELSE "create",
                                           !.config = settings.config,
                                           !.version = settings.version])
      /\ UNCHANGED <<now, settings, settingsCache, update, counter, passed, done>>

\* The insert with the defaults; a lost race ends in the 503 of enforceRateLimit.
CreateSettings(r) ==
  /\ request[r].pc = "create"
  /\ IF settings.exists
     THEN Ends(r) /\ UNCHANGED settings
     ELSE /\ settings' = [settings EXCEPT !.exists = TRUE, !.config = DefaultConfig]
          /\ Become(r, [request[r] EXCEPT !.pc = "store", !.config = DefaultConfig])
  /\ UNCHANGED <<now, settingsCache, update, counter, served, passed, done>>

\* What was read, however long ago, becomes the cache of the process.
StoreSettings(r) ==
  /\ request[r].pc = "store"
  /\ settingsCache' = [settingsCache EXCEPT ![request[r].server] =
       [valid |-> TRUE, config |-> request[r].config, expiresAt |-> now + CacheTtl,
        version |-> request[r].version, late |-> request[r].version # settings.version]]
  /\ Proceed(r, request[r].config, request[r].version)
  /\ UNCHANGED <<now, settings, update, counter, served, passed, done>>

-----------------------------------------------------------------------------
(***************************************************************************)
(* consumeRateLimit.                                                       *)
(***************************************************************************)
CurrentWindow(config) == now \div Ticks(config.windowSeconds)

\* windowId, by the clock of the process, once it is connected.
ReadClock(r) ==
  /\ request[r].pc = "clock"
  /\ Become(r, [request[r] EXCEPT !.pc = "incr", !.window = CurrentWindow(request[r].config)])
  /\ UNCHANGED <<now, settings, settingsCache, update, counter, served, passed, done>>

\* A request that arrives when its window is over is not one of the window's: if
\* its counter is gone it starts one that nobody else will find.
Passes(r) ==
  LET config == request[r].config
      w == request[r].window
  IN  passed' = IF w = CurrentWindow(config) THEN [passed EXCEPT ![config][w] = @ + 1] ELSE passed

\* Mutant: one request too many.
UnderLimitByOne(value, config) == value <= config.maxRequests + 1

UnderLimit(value, config) == value <= config.maxRequests

Increment(r) ==
  LET config == request[r].config
      w == request[r].window
      value == Current(w).value + 1
  IN  /\ request[r].pc = "incr"
      /\ counter' = [counter EXCEPT ![w] = [Current(w) EXCEPT !.value = value]]
      /\ IF UnderLimit(value, config) THEN Passes(r) ELSE UNCHANGED passed
      /\ \/ value = 1 /\ Become(r, [request[r] EXCEPT !.pc = "expire"])
         \/ value > 1 /\ UnderLimit(value, config) /\ Ends(r)
         \/ value > 1 /\ ~UnderLimit(value, config) /\ Become(r, [request[r] EXCEPT !.pc = "ttl"])
      /\ UNCHANGED <<now, settings, settingsCache, update, served, done>>

\* A limit is one at least, so the first request passes.
SetExpire(r) ==
  LET w == request[r].window
  IN  /\ request[r].pc = "expire"
      /\ counter' = IF Current(w).value = 0 THEN counter
           ELSE [counter EXCEPT ![w].expiresAt = now + Ticks(request[r].config.windowSeconds)]
      /\ Ends(r)
      /\ UNCHANGED <<now, settings, settingsCache, update, served, passed, done>>

\* Redis' TTL: what is left of a counter's life, to the nearest second.
HalfSecond == TicksPerSecond \div 2
TimeToLive(w) == (Current(w).expiresAt - now + HalfSecond) \div TicksPerSecond

\* Mutant: no time to live means that the client may come back at once.
RetryAfterNothing(w, config) == IF Current(w).expiresAt = Never THEN 0 ELSE TimeToLive(w)

\* ttl, or the window: if the key is gone, has not been given a life yet, or has less
\* than half a second of it left.
RetryAfter(w, config) ==
  IF Current(w).expiresAt # Never /\ TimeToLive(w) > 0 THEN TimeToLive(w) ELSE config.windowSeconds

Refuse(r) ==
  /\ request[r].pc = "ttl"
  /\ Become(r, [request[r] EXCEPT !.pc = "blocked",
                  !.retryAt = now + Ticks(RetryAfter(request[r].window, request[r].config))])
  /\ UNCHANGED <<now, settings, settingsCache, update, counter, served, passed, done>>

\* 429, after incrementBlockedStats.
Answer(r) ==
  /\ request[r].pc = "blocked"
  /\ Ends(r)
  /\ UNCHANGED <<now, settings, settingsCache, update, counter, served, passed, done>>

\* Redis throws (503), or the process dies with what it holds.
Unavailable(r) ==
  /\ Faults
  /\ request[r].pc # "idle"
  /\ Ends(r)
  /\ UNCHANGED <<now, settings, settingsCache, update, counter, served, passed, done>>

-----------------------------------------------------------------------------
(***************************************************************************)
(* updateConfig.                                                           *)
(***************************************************************************)
Upsert(s, config) ==
  /\ update[s] = 0
  /\ settings.version < MaxUpdates
  /\ settings' = [exists |-> TRUE, config |-> config, version |-> settings.version + 1]
  /\ update' = [update EXCEPT ![s] = settings.version + 1]
  /\ UNCHANGED <<now, settingsCache, request, counter, served, passed, done>>

\* Mutant: nobody clears the cache.
InvalidateCacheNot(s) ==
  /\ update[s] > 0
  /\ done' = [done EXCEPT ![s] = update[s]]
  /\ update' = [update EXCEPT ![s] = 0]
  /\ UNCHANGED <<now, settings, settingsCache, request, counter, served, passed>>

InvalidateCache(s) ==
  /\ update[s] > 0
  /\ settingsCache' = [settingsCache EXCEPT ![s] = NoCache]
  /\ done' = [done EXCEPT ![s] = update[s]]
  /\ update' = [update EXCEPT ![s] = 0]
  /\ UNCHANGED <<now, settings, request, counter, served, passed>>

Tick ==
  /\ now < End
  /\ now' = now + 1
  /\ UNCHANGED <<settings, settingsCache, request, update, counter, served, passed, done>>

-----------------------------------------------------------------------------
RequestStep(r) ==
  \/ CreateSettings(r) \/ StoreSettings(r)
  \/ ReadClock(r) \/ Increment(r) \/ SetExpire(r) \/ Refuse(r) \/ Answer(r)

RateNext ==
  \/ \E r \in Request : BeginRequest(r) \/ RequestStep(r) \/ Unavailable(r)
  \/ \E s \in Server : InvalidateCache(s) \/ \E c \in Config : Upsert(s, c)
  \/ Tick

RateSpec == RateInit /\ [][RateNext]_rateVars

-----------------------------------------------------------------------------
(***************************************************************************)
(* Properties.                                                             *)
(***************************************************************************)

\* Settings, caches, counters and the locals of requests have their types.
RateTypeOK ==
  /\ now \in Time
  /\ settings \in Settings
  /\ settingsCache \in [Server -> Cached]
  /\ request \in [Request -> RequestState]
  /\ update \in [Server -> 0..MaxUpdates]
  /\ counter \in [Window -> Counter]
  /\ served \in 0..MaxRequests
  /\ passed \in [Config -> [Window -> Nat]]
  /\ done \in [Server -> 0..MaxUpdates]

\* While a window lasts no more requests pass under a configuration than it
\* allows, also while the settings change, counters expire, requests overlap on
\* several servers and some come with the number of an earlier window.
PassedWithinLimit ==
  \A c \in Config, w \in Window : passed[c][w] <= c.maxRequests

\* A refused client that waits for Retry-After comes back in another window or at
\* most half a second before the end of this one, also when the counter has no time
\* to live yet, or has expired meanwhile.
RetryAfterSuffices ==
  \A r \in Request :
    request[r].pc = "blocked" =>
      (request[r].retryAt + HalfSecond) \div Ticks(request[r].config.windowSeconds)
        > request[r].window

\* A server that has completed an update serves no older settings from its
\* cache, except what a request stored that had read the row before it.
OwnUpdateSticks ==
  \A s \in Server : settingsCache[s].valid => settingsCache[s].version >= done[s] \/ settingsCache[s].late

\* The cached config is invalidated after updating settings: what a server
\* caches is not older than the update it has completed.
CacheFollowsUpdate ==
  \A s \in Server : settingsCache[s].valid => settingsCache[s].version >= done[s]
=============================================================================
