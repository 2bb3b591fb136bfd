-------------------------- MODULE RequestGatesProofs --------------------------
(***************************************************************************)
(* Machine-checked proofs about what a request passes before its handler:  *)
(* the limiter and the effective permissions.                              *)
(***************************************************************************)
EXTENDS RateLimit, RbacCache, TLAPS

-------------------------------------------------------------------------------
(***************************************************************************)
(* RateLimit, for every number of servers and requests, every set of       *)
(* window lengths and limits an admin may choose, and any faults.          *)
(***************************************************************************)

\* The window of a given length, in ticks, that an instant falls into, and its end.
WindowAt(t, ticks) == t \div ticks
WindowEnd(w, ticks) == (w + 1) * ticks

\* A counter lives at least as long as the window it counts.
CountersLast ==
  \A t \in Time, seconds \in WindowSeconds :
    WindowEnd(WindowAt(t, Ticks(seconds)), Ticks(seconds))
      <= counter[WindowAt(t, Ticks(seconds))].expiresAt

\* In the current window no request has passed without being counted, and in a
\* later one none has passed.
PassedAreCounted ==
  \A c \in Config :
    /\ passed[c][CurrentWindow(c)] <= Current(CurrentWindow(c)).value
    /\ \A w \in Window : w > CurrentWindow(c) => passed[c][w] = 0

\* A request that has read the clock knows a window that has begun; one that is
\* refused is told to come back no earlier than half a second before its end.
RequestInWindow(h) ==
  /\ h.pc \in {"incr", "expire", "ttl", "blocked"} =>
       \E t \in Start..now : h.window = WindowAt(t, Ticks(h.config.windowSeconds))
  /\ h.pc = "blocked" =>
       WindowEnd(h.window, Ticks(h.config.windowSeconds)) <= h.retryAt + HalfSecond

RequestsInWindow == \A r \in Request : RequestInWindow(request[r])

\* No update is ahead of the row.
UpdatesBehind ==
  \A s \in Server : update[s] <= settings.version /\ done[s] <= settings.version

RateIInv ==
  /\ RateTypeOK
  /\ CountersLast
  /\ PassedAreCounted
  /\ PassedWithinLimit
  /\ RequestsInWindow
  /\ UpdatesBehind
  /\ OwnUpdateSticks

-----------------------------------------------------------------------------
\* Division: an instant lies in its window.
LEMMA InWindow ==
  ASSUME NEW t \in Nat, NEW v \in Nat \ {0}
  PROVE  /\ WindowAt(t, v) \in Nat
         /\ WindowAt(t, v) * v <= t
         /\ t < WindowEnd(WindowAt(t, v), v)
         /\ WindowEnd(WindowAt(t, v), v) = WindowAt(t, v) * v + v
<1>1. WindowAt(t, v) \in Nat /\ WindowAt(t, v) * v <= t /\ t < WindowEnd(WindowAt(t, v), v)
  BY DEF WindowAt, WindowEnd
<1>2. \A n \in Nat : (n + 1) * v = n * v + v
  OBVIOUS
<1>3. QED
  BY <1>1, <1>2 DEF WindowEnd

LEMMA WindowsAscend ==
  ASSUME NEW s \in Nat, NEW t \in Nat, s <= t, NEW v \in Nat \ {0}
  PROVE  WindowAt(s, v) <= WindowAt(t, v)
BY DEF WindowAt

\* An instant at or after the end of a window is in a later window.
LEMMA AfterWindow ==
  ASSUME NEW w \in Nat, NEW t \in Nat, NEW v \in Nat \ {0}, WindowEnd(w, v) <= t
  PROVE  w < WindowAt(t, v)
BY DEF WindowAt, WindowEnd

-----------------------------------------------------------------------------
USE RateAssumption

\* To the nearest second is at most half a second short.
LEMMA NearestSecond ==
  ASSUME NEW t \in Nat
  PROVE  /\ (t + HalfSecond) \div TicksPerSecond \in Nat
         /\ t <= Ticks((t + HalfSecond) \div TicksPerSecond) + HalfSecond
<1>1. PICK half \in Nat : half = HalfSecond /\ TicksPerSecond <= 2 * half + 1
  BY DEF HalfSecond
<1>2. PICK q \in Nat : q = (t + half) \div TicksPerSecond
  BY <1>1
<1>3. t + half < (q + 1) * TicksPerSecond
  BY <1>2
<1>4. PICK whole \in Nat : whole = q * TicksPerSecond
  OBVIOUS
<1>5. (q + 1) * TicksPerSecond = whole + TicksPerSecond
  BY <1>4
<1>6. t <= whole + half
  BY <1>1, <1>3, <1>5
<1>7. QED
  BY <1>1, <1>2, <1>4, <1>6 DEF Ticks

\* The constants: windows have a length, the model's end of time lies behind every
\* expiry, and the default configuration is one.
LEMMA RateConstants ==
  /\ Time \subseteq Nat /\ Start \in Time
  /\ Never \in Nat
  /\ \A v \in WindowSeconds : v \in Nat \ {0}
  /\ \A v \in WindowSeconds : Ticks(v) \in Nat \ {0} /\ End + CacheTtl + 1 + Ticks(v) <= Never
  /\ DefaultConfig \in Config
  /\ Window \subseteq Nat
  /\ \A t \in Time, v \in WindowSeconds : WindowAt(t, Ticks(v)) \in Window
<1>1. Longest \in WindowSeconds /\ \A v \in WindowSeconds : v <= Longest
  BY DEF Longest
<1>2. ASSUME NEW v \in WindowSeconds
      PROVE  v \in Nat \ {0} /\ Ticks(v) \in Nat \ {0} /\ Ticks(v) <= Ticks(Longest)
  <2>1. v \in Nat \ {0} /\ Longest \in Nat /\ v <= Longest
    BY <1>1
  <2>2. \A n \in Nat : n * TicksPerSecond \in Nat
    OBVIOUS
  <2>3. PICK more \in Nat : Longest = v + more
    BY <2>1
  <2>4. Longest * TicksPerSecond = v * TicksPerSecond + more * TicksPerSecond
    BY <2>1, <2>3
  <2>5. v * TicksPerSecond # 0
    BY <2>1
  <2>6. QED
    BY <2>1, <2>2, <2>4, <2>5 DEF Ticks
<1>3. /\ Never \in Nat
      /\ \A v \in WindowSeconds : v \in Nat \ {0}
      /\ \A v \in WindowSeconds : Ticks(v) \in Nat \ {0} /\ End + CacheTtl + 1 + Ticks(v) <= Never
  BY <1>1, <1>2 DEF Never
<1>4. DefaultConfig \in Config
  <2>1. PICK w \in WindowSeconds : \A v \in WindowSeconds : v <= w
    OBVIOUS
  <2>2. PICK n \in Limits : \A m \in Limits : m <= n
    OBVIOUS
  <2>3. [enabled |-> TRUE, windowSeconds |-> w, maxRequests |-> n] \in Config
    BY DEF Config
  <2>4. \E c \in Config : c.enabled /\ \A d \in Config : /\ d.windowSeconds <= c.windowSeconds
                                                         /\ d.maxRequests <= c.maxRequests
    <3>1. WITNESS [enabled |-> TRUE, windowSeconds |-> w, maxRequests |-> n] \in Config
    <3>2. QED
      BY <2>1, <2>2 DEF Config
  <2>5. QED
    BY <2>4 DEF DefaultConfig
<1>5. Time \subseteq Nat /\ Start \in Time
  BY DEF Time
<1>6. \A t \in Time, v \in WindowSeconds : WindowAt(t, Ticks(v)) \in Window
  BY DEF Window, WindowAt
<1>7. Window \subseteq Nat
  <2>1. \A t \in Time, v \in WindowSeconds : t \div Ticks(v) \in Nat
    BY <1>3, <1>5, InWindow DEF WindowAt
  <2>2. QED
    BY <2>1 DEF Window
<1>8. QED
  BY <1>3, <1>4, <1>5, <1>6, <1>7

\* A configuration has a window length and a limit.
LEMMA ConfigParts ==
  ASSUME NEW c \in Config
  PROVE  /\ c.windowSeconds \in WindowSeconds /\ Ticks(c.windowSeconds) \in Nat \ {0}
         /\ c.maxRequests \in Limits /\ c.maxRequests \in Nat \ {0}
         /\ c.enabled \in BOOLEAN
BY RateConstants DEF Config

\* The window of now is one of the instance.
LEMMA CurrentWindows ==
  ASSUME now \in Time, NEW c \in Config
  PROVE  /\ CurrentWindow(c) = WindowAt(now, Ticks(c.windowSeconds))
         /\ CurrentWindow(c) \in Window /\ CurrentWindow(c) \in Nat
<1>1. CurrentWindow(c) = WindowAt(now, Ticks(c.windowSeconds))
  BY DEF CurrentWindow, WindowAt
<1>2. PICK seconds \in WindowSeconds : seconds = c.windowSeconds
  BY ConfigParts
<1>3. PICK w \in Window : w = WindowAt(now, Ticks(seconds))
  BY RateConstants
<1>4. w \in Nat
  BY RateConstants
<1>5. QED
  BY <1>1, <1>2, <1>3, <1>4

\* A counter without a time to live outlasts every window of the instance.
LEMMA EndsBeforeNever ==
  ASSUME NEW t \in Time, NEW seconds \in WindowSeconds
  PROVE  WindowEnd(WindowAt(t, Ticks(seconds)), Ticks(seconds)) <= Never
<1>1. PICK v \in Nat \ {0} : v = Ticks(seconds)
  BY RateConstants
<1>2. t \in Nat /\ t + v <= Never
  BY <1>1, RateConstants DEF Time
<1>3. WindowAt(t, v) * v <= t /\ WindowEnd(WindowAt(t, v), v) = WindowAt(t, v) * v + v
      /\ WindowAt(t, v) \in Nat
  BY <1>1, <1>2, InWindow
<1>4. WindowAt(t, v) * v \in Nat
  BY <1>1, <1>3
<1>5. QED
  BY <1>1, <1>2, <1>3, <1>4, RateConstants

LEMMA CurrentType ==
  ASSUME RateTypeOK, NEW w \in Window
  PROVE  Current(w) \in Counter
<1>1. counter[w] \in Counter
  BY DEF RateTypeOK
<1>2. NoCounter \in Counter
  BY RateConstants DEF NoCounter, Counter
<1>3. QED
  BY <1>1, <1>2 DEF Current

LEMMA IdleRequest ==
  ASSUME NEW s \in Server
  PROVE  /\ Idle(s) \in RequestState /\ Idle(s).pc = "idle" /\ Idle(s).server = s
         /\ RequestInWindow(Idle(s))
BY RateConstants DEF Idle, RequestState, Window, RequestInWindow

LEMMA RateInitInv == RateInit => RateIInv
<1> SUFFICES ASSUME RateInit
             PROVE  RateIInv
  OBVIOUS
<1>1. request \in [Request -> RequestState] /\ \A r \in Request : \E s \in Server : request[r] = Idle(s)
  BY IdleRequest DEF RateInit
<1>2. NoCache \in Cached /\ NoCounter \in Counter
  BY RateConstants DEF NoCache, Cached, NoCounter, Counter
<1>3. RateTypeOK
  BY <1>1, <1>2, RateConstants DEF RateInit, RateTypeOK, Settings
<1>4. CountersLast
  BY RateConstants, EndsBeforeNever DEF RateInit, CountersLast, NoCounter
<1>5. PassedAreCounted
  <2>1. \A w \in Window : Current(w) = NoCounter
    BY DEF RateInit, Current
  <2>2. ASSUME NEW c \in Config
        PROVE  /\ CurrentWindow(c) \in Window
               /\ \A w \in Window : passed[c][w] = 0
    BY RateConstants, CurrentWindows DEF RateInit
  <2>3. QED
    BY <2>1, <2>2 DEF PassedAreCounted, NoCounter
<1>6. PassedWithinLimit
  BY ConfigParts DEF RateInit, PassedWithinLimit
<1>7. RequestsInWindow
  BY <1>1, IdleRequest DEF RequestsInWindow
<1>8. UpdatesBehind /\ OwnUpdateSticks
  BY DEF RateInit, UpdatesBehind, OwnUpdateSticks, NoCache
<1>9. QED
  BY <1>3, <1>4, <1>5, <1>6, <1>7, <1>8 DEF RateIInv

-----------------------------------------------------------------------------
\* A request goes on without touching a counter.
LEMMA RequestMoves ==
  ASSUME RateIInv, UNCHANGED <<now, counter, passed>>,
         NEW r \in Request, NEW h \in RequestState, Become(r, h), RequestInWindow(h)
  PROVE  /\ request' \in [Request -> RequestState]
         /\ CountersLast' /\ PassedAreCounted' /\ PassedWithinLimit' /\ RequestsInWindow'
<1>1. request'[r] = h /\ \A q \in Request \ {r} : request'[q] = request[q]
  BY DEF Become, RateIInv, RateTypeOK
<1>2. RequestsInWindow'
  BY <1>1 DEF RateIInv, RequestsInWindow, RequestInWindow
<1>3. request' \in [Request -> RequestState]
  BY DEF Become, RateIInv, RateTypeOK
<1>4. CountersLast' /\ PassedAreCounted' /\ PassedWithinLimit'
  BY DEF RateIInv, CountersLast, PassedAreCounted, Current, CurrentWindow, PassedWithinLimit
<1>5. QED
  BY <1>2, <1>3, <1>4

\* Proceed leaves a request at the clock, or ends it.
LEMMA ProceedMoves ==
  ASSUME RateIInv, UNCHANGED <<now, counter, passed>>,
         NEW r \in Request, NEW c \in Config, NEW version \in 0..MaxUpdates,
         Proceed(r, c, version)
  PROVE  /\ request' \in [Request -> RequestState]
         /\ CountersLast' /\ PassedAreCounted' /\ PassedWithinLimit' /\ RequestsInWindow'
<1> DEFINE h == [request[r] EXCEPT !.pc = "clock", !.config = c, !.version = version]
<1>1. request[r] \in RequestState /\ request[r].server \in Server
  BY DEF RateIInv, RateTypeOK, RequestState
<1>2. h \in RequestState /\ RequestInWindow(h)
  BY <1>1 DEF RequestState, RequestInWindow
<1>3. Become(r, h) \/ Become(r, Idle(request[r].server))
  BY DEF Proceed, Ends
<1> HIDE DEF h
<1>4. QED
  BY <1>1, <1>2, <1>3, IdleRequest, RequestMoves

\* A request that ends, for whatever reason.
LEMMA RequestEnds ==
  ASSUME RateIInv, NEW r \in Request, Ends(r),
         UNCHANGED <<now, settings, settingsCache, update, counter, served, passed, done>>
  PROVE  RateIInv'
<1>1. request[r].server \in Server
  BY DEF RateIInv, RateTypeOK, RequestState
<1>2. /\ request' \in [Request -> RequestState]
      /\ CountersLast' /\ PassedAreCounted' /\ PassedWithinLimit' /\ RequestsInWindow'
  BY <1>1, IdleRequest, RequestMoves DEF Ends
<1>3. RateTypeOK' /\ UpdatesBehind' /\ OwnUpdateSticks'
  BY <1>2 DEF RateIInv, RateTypeOK, UpdatesBehind, OwnUpdateSticks
<1>4. QED
  BY <1>2, <1>3 DEF RateIInv

LEMMA BeginRequestKeeps ==
  ASSUME RateIInv, NEW r \in Request, BeginRequest(r)
  PROVE  RateIInv'
<1> DEFINE s == request[r].server
<1>1. request[r] \in RequestState /\ s \in Server /\ settings \in Settings /\ settingsCache[s] \in Cached
  BY DEF RateIInv, RateTypeOK, RequestState
<1>2. UNCHANGED <<now, settings, settingsCache, update, counter, passed, done>>
  BY DEF BeginRequest
<1>3. served' \in 0..MaxRequests
  BY DEF BeginRequest, RateIInv, RateTypeOK
<1>4. /\ request' \in [Request -> RequestState]
      /\ CountersLast' /\ PassedAreCounted' /\ PassedWithinLimit' /\ RequestsInWindow'
  <2>1. CASE Proceed(r, settingsCache[s].config, settingsCache[s].version)
    BY <1>1, <1>2, <2>1, ProceedMoves DEF Cached
  <2>2. ASSUME NEW pc \in {"store", "create"},
               Become(r, [request[r] EXCEPT !.pc = pc, !.config = settings.config,
                                            !.version = settings.version])
        PROVE  /\ request' \in [Request -> RequestState]
               /\ CountersLast' /\ PassedAreCounted' /\ PassedWithinLimit' /\ RequestsInWindow'
    <3> DEFINE h == [request[r] EXCEPT !.pc = pc, !.config = settings.config,
                                       !.version = settings.version]
    <3>1. h \in RequestState /\ RequestInWindow(h)
      BY <1>1 DEF RequestState, Settings, RequestInWindow
    <3>2. Become(r, h)
      BY <2>2
    <3> HIDE DEF h
    <3>3. QED
      BY <1>2, <3>1, <3>2, RequestMoves
  <2>3. QED
    BY <2>1, <2>2 DEF BeginRequest
<1>5. RateTypeOK' /\ UpdatesBehind' /\ OwnUpdateSticks'
  BY <1>2, <1>3, <1>4 DEF RateIInv, RateTypeOK, UpdatesBehind, OwnUpdateSticks
<1>6. QED
  BY <1>4, <1>5 DEF RateIInv

LEMMA CreateSettingsKeeps ==
  ASSUME RateIInv, NEW r \in Request, CreateSettings(r)
  PROVE  RateIInv'
<1>1. UNCHANGED <<now, settingsCache, update, counter, served, passed, done>>
  BY DEF CreateSettings
<1>2. CASE settings.exists
  BY <1>1, <1>2, RequestEnds DEF CreateSettings
<1>3. CASE ~settings.exists
  <2> DEFINE h == [request[r] EXCEPT !.pc = "store", !.config = DefaultConfig]
  <2>1. request[r] \in RequestState /\ settings \in Settings
    BY DEF RateIInv, RateTypeOK
  <2>2. h \in RequestState /\ RequestInWindow(h)
    BY <2>1, RateConstants DEF RequestState, RequestInWindow
  <2>3. Become(r, h)
    BY <1>3 DEF CreateSettings
  <2> HIDE DEF h
  <2>4. /\ request' \in [Request -> RequestState]
        /\ CountersLast' /\ PassedAreCounted' /\ PassedWithinLimit' /\ RequestsInWindow'
    BY <1>1, <2>2, <2>3, RequestMoves
  <2>5. settings' \in Settings /\ settings'.version = settings.version
    BY <1>3, <2>1, RateConstants DEF CreateSettings, Settings
  <2>6. RateTypeOK' /\ UpdatesBehind' /\ OwnUpdateSticks'
    BY <1>1, <2>4, <2>5 DEF RateIInv, RateTypeOK, UpdatesBehind, OwnUpdateSticks
  <2>7. QED
    BY <2>4, <2>6 DEF RateIInv
<1>4. QED
  BY <1>2, <1>3

\* What a request read before an update enters the cache marked as late.
LEMMA StoreSettingsKeeps ==
  ASSUME RateIInv, NEW r \in Request, StoreSettings(r)
  PROVE  RateIInv'
<1> DEFINE s == request[r].server
           entry == [valid |-> TRUE, config |-> request[r].config,
                     expiresAt |-> now + CacheTtl, version |-> request[r].version,
                     late |-> request[r].version # settings.version]
<1>1. /\ request[r] \in RequestState /\ s \in Server
      /\ request[r].config \in Config /\ request[r].version \in 0..MaxUpdates
      /\ now \in Start..End /\ settings.version \in 0..MaxUpdates
  BY DEF RateIInv, RateTypeOK, RequestState, Time, Settings
<1>2. UNCHANGED <<now, settings, update, counter, served, passed, done>>
  BY DEF StoreSettings
<1>3. settingsCache' = [settingsCache EXCEPT ![s] = entry]
  BY DEF StoreSettings
<1>4. now + CacheTtl \in 0..Never
  <2>1. PICK v \in Nat : End + CacheTtl + 1 + v <= Never
    BY RateConstants
  <2>2. QED
    BY <1>1, <2>1, RateConstants
<1>5. entry \in Cached
  BY <1>1, <1>4 DEF Cached
<1>6. /\ request' \in [Request -> RequestState]
      /\ CountersLast' /\ PassedAreCounted' /\ PassedWithinLimit' /\ RequestsInWindow'
  BY <1>1, <1>2, ProceedMoves DEF StoreSettings
<1>7. RateTypeOK'
  BY <1>2, <1>3, <1>5, <1>6 DEF RateIInv, RateTypeOK
<1>8. UpdatesBehind'
  BY <1>2 DEF RateIInv, UpdatesBehind
<1>9. OwnUpdateSticks'
  <2>1. ASSUME NEW q \in Server, settingsCache'[q].valid
        PROVE  settingsCache'[q].version >= done'[q] \/ settingsCache'[q].late
    <3>1. CASE q = s
      <4>1. settingsCache'[q] = entry
        BY <1>1, <1>3, <3>1 DEF RateIInv, RateTypeOK
      <4>2. done[q] <= settings.version
        BY DEF RateIInv, UpdatesBehind
      <4>3. CASE request[r].version = settings.version
        <5>1. settingsCache'[q].version = settings.version
          BY <4>1, <4>3
        <5>2. QED
          BY <1>2, <4>2, <5>1
      <4>4. CASE request[r].version # settings.version
        <5>1. entry.late
          BY <4>4
        <5>2. QED
          BY <4>1, <5>1
      <4>5. QED
        BY <4>3, <4>4
    <3>2. CASE q # s
      BY <1>2, <1>3, <2>1, <3>2 DEF RateIInv, RateTypeOK, OwnUpdateSticks
    <3>3. QED
      BY <3>1, <3>2
  <2>2. QED
    BY <2>1 DEF OwnUpdateSticks
<1>10. QED
  BY <1>6, <1>7, <1>8, <1>9 DEF RateIInv

\* The number of the window, by the clock of the process.
LEMMA ReadClockKeeps ==
  ASSUME RateIInv, NEW r \in Request, ReadClock(r)
  PROVE  RateIInv'
<1>1. /\ request[r] \in RequestState /\ request[r].config \in Config
      /\ now \in Time /\ now \in Start..now
  BY DEF RateIInv, RateTypeOK, RequestState, Time
<1>2. PICK w \in Window :
        w = CurrentWindow(request[r].config)
        /\ w = WindowAt(now, Ticks(request[r].config.windowSeconds))
  BY <1>1, CurrentWindows
<1> DEFINE h == [request[r] EXCEPT !.pc = "incr", !.window = w]
<1>3. /\ h \in RequestState
      /\ h.pc = "incr" /\ h.window = w /\ h.config = request[r].config
  BY <1>1 DEF RequestState
<1>4. RequestInWindow(h)
  BY <1>1, <1>2, <1>3 DEF RequestInWindow
<1>5. Become(r, h) /\ UNCHANGED <<now, settings, settingsCache, update, counter, served, passed, done>>
  BY <1>2 DEF ReadClock
<1> HIDE DEF h
<1>6. /\ request' \in [Request -> RequestState]
      /\ CountersLast' /\ PassedAreCounted' /\ PassedWithinLimit' /\ RequestsInWindow'
  BY <1>3, <1>4, <1>5, RequestMoves
<1>7. RateTypeOK' /\ UpdatesBehind' /\ OwnUpdateSticks'
  BY <1>5, <1>6 DEF RateIInv, RateTypeOK, UpdatesBehind, OwnUpdateSticks
<1>8. QED
  BY <1>6, <1>7 DEF RateIInv

\* A refused client is sent to within half a second of the end of its window: by the
\* counter's time to live if there is one to speak of, by a whole window if not.
LEMMA RefuseKeeps ==
  ASSUME RateIInv, NEW r \in Request, Refuse(r)
  PROVE  RateIInv'
<1>0. PICK seconds \in WindowSeconds : seconds = request[r].config.windowSeconds
  BY ConfigParts DEF RateIInv, RateTypeOK, RequestState
<1>v. PICK v \in Nat \ {0} : v = Ticks(seconds)
  BY RateConstants
<1>h. HalfSecond \in Nat
  BY DEF HalfSecond
<1> DEFINE w == request[r].window
           ttl == TimeToLive(w)
           at == now + Ticks(RetryAfter(w, request[r].config))
           h == [request[r] EXCEPT !.pc = "blocked", !.retryAt = at]
<1>1. /\ request[r] \in RequestState /\ request[r].pc = "ttl" /\ w \in Window
      /\ now \in Start..End /\ now \in Nat /\ counter[w] \in Counter
  BY RateConstants DEF Refuse, RateIInv, RateTypeOK, RequestState, Time
<1>2. PICK t \in Start..now : w = WindowAt(t, v)
  BY <1>0, <1>v, <1>1 DEF RateIInv, RequestsInWindow, RequestInWindow
<1>3. t \in Time /\ t \in Nat /\ t <= now
  BY <1>1, <1>2 DEF Time
<1>4. PICK begins \in Nat : begins = w * v /\ begins <= t /\ WindowEnd(w, v) = begins + v
  <2>1. WindowAt(t, v) \in Nat /\ WindowAt(t, v) * v <= t
        /\ WindowEnd(w, v) = WindowAt(t, v) * v + v
    BY <1>2, <1>3, InWindow
  <2>2. \A n \in Nat : n * v \in Nat
    OBVIOUS
  <2>3. QED
    BY <1>2, <2>1, <2>2
<1>5. WindowEnd(w, v) <= at + HalfSecond /\ at \in Nat
  <2>1. CASE Current(w).expiresAt # Never /\ ttl > 0
    <3>1. Current(w) = counter[w] /\ counter[w].expiresAt \in Nat /\ now < counter[w].expiresAt
      BY <1>1, <2>1, RateConstants DEF Current, NoCounter, Counter
    <3>2. PICK left \in Nat : left = counter[w].expiresAt - now
      BY <1>1, <3>1
    <3>3. ttl = (left + HalfSecond) \div TicksPerSecond /\ RetryAfter(w, request[r].config) = ttl
      BY <2>1, <3>1, <3>2 DEF TimeToLive, RetryAfter
    <3>4. ttl \in Nat /\ left <= Ticks(ttl) + HalfSecond
      BY <3>2, <3>3, NearestSecond
    <3> HIDE DEF ttl
    <3>5. PICK wait \in Nat : wait = Ticks(ttl)
      BY <3>4 DEF Ticks
    <3>6. at = now + wait /\ left <= wait + HalfSecond
      BY <3>3, <3>4, <3>5
    <3>7. WindowEnd(w, v) <= counter[w].expiresAt
      BY <1>0, <1>v, <1>1, <1>2, <1>3 DEF RateIInv, CountersLast
    <3>8. QED
      BY <1>1, <1>4, <1>h, <3>1, <3>2, <3>5, <3>6, <3>7
  <2>2. CASE ~(Current(w).expiresAt # Never /\ ttl > 0)
    <3>1. at = now + v
      BY <1>0, <1>v, <2>2 DEF RetryAfter
    <3>2. QED
      BY <1>1, <1>3, <1>4, <1>h, <3>1
  <2>3. QED
    BY <2>1, <2>2
<1>6. UNCHANGED <<now, settings, settingsCache, update, counter, served, passed, done>>
  BY DEF Refuse
<1>7. Become(r, h)
  BY DEF Refuse
<1> HIDE DEF at
<1>8. /\ h \in RequestState /\ h.pc = "blocked" /\ h.retryAt = at
      /\ h.window = w /\ h.config = request[r].config
  BY <1>1, <1>5 DEF RequestState
<1>9. RequestInWindow(h)
  BY <1>0, <1>v, <1>2, <1>5, <1>8 DEF RequestInWindow
<1> HIDE DEF h
<1>10. /\ request' \in [Request -> RequestState]
       /\ CountersLast' /\ PassedAreCounted' /\ PassedWithinLimit' /\ RequestsInWindow'
  BY <1>6, <1>7, <1>8, <1>9, RequestMoves
<1>11. RateTypeOK' /\ UpdatesBehind' /\ OwnUpdateSticks'
  BY <1>6, <1>10 DEF RateIInv, RateTypeOK, UpdatesBehind, OwnUpdateSticks
<1>12. QED
  BY <1>10, <1>11 DEF RateIInv

\* incr: the window's counter grows with every request, so that what passes is
\* never more than what has been counted.
LEMMA IncrementKeeps ==
  ASSUME RateIInv, NEW r \in Request, Increment(r)
  PROVE  RateIInv'
<1>0. PICK c \in Config : c = request[r].config
  BY DEF RateIInv, RateTypeOK, RequestState
<1>a. now \in Time /\ now \in Nat /\ request[r] \in RequestState
  BY RateConstants DEF RateIInv, RateTypeOK
<1>b. PICK w \in Window : w = request[r].window
  BY <1>a DEF RequestState
<1>c. Current(w) \in Counter
  BY CurrentType DEF RateIInv
<1>d. PICK value \in Nat : value = Current(w).value + 1
  BY <1>c DEF Counter
<1>1. /\ c = request[r].config /\ w = request[r].window
      /\ value = Current(w).value + 1 /\ Current(w) \in Counter
      /\ now \in Time /\ now \in Nat /\ request[r] \in RequestState
      /\ counter' = [counter EXCEPT ![w] = [Current(w) EXCEPT !.value = value]]
      /\ IF UnderLimit(value, c) /\ w = CurrentWindow(c)
         THEN passed' = [passed EXCEPT ![c][w] = @ + 1] ELSE passed' = passed
  BY <1>0, <1>a, <1>b, <1>c, <1>d DEF Increment, Passes
<1>2. UNCHANGED <<now, settings, settingsCache, update, served, done>>
  BY DEF Increment
<1>3. counter \in [Window -> Counter] /\ passed \in [Config -> [Window -> Nat]]
  BY DEF RateIInv, RateTypeOK
<1>4. /\ counter' \in [Window -> Counter]
      /\ counter'[w].value = value /\ counter'[w].expiresAt = Current(w).expiresAt
      /\ \A x \in Window \ {w} : counter'[x] = counter[x]
  BY <1>1, <1>3 DEF Counter
<1>5. /\ Current(w)'.value = value
      /\ \A x \in Window \ {w} : Current(x)' = Current(x)
  <2>1. Current(w).expiresAt > now
    <3>1. Never > now
      <4>1. PICK v \in Nat : End + CacheTtl + 1 + v <= Never
        BY RateConstants
      <4>2. QED
        BY <1>1, <4>1, RateConstants DEF Time
    <3>2. counter[w].expiresAt \in Nat
      BY <1>3 DEF Counter
    <3>3. CASE counter[w].expiresAt <= now
      BY <3>1, <3>3 DEF Current, NoCounter
    <3>4. CASE ~(counter[w].expiresAt <= now)
      <4>1. Current(w) = counter[w]
        BY <3>4 DEF Current
      <4>2. QED
        BY <1>1, <3>2, <3>4, <4>1
    <3>5. QED
      BY <3>3, <3>4
  <2>2. ~(counter'[w].expiresAt <= now')
    BY <1>1, <1>2, <1>4, <2>1, RateConstants DEF Counter
  <2>3. QED
    BY <1>2, <1>4, <2>2 DEF Current
<1>6. CountersLast'
  <2>1. ASSUME NEW t \in Time, NEW v \in WindowSeconds
        PROVE  WindowEnd(WindowAt(t, Ticks(v)), Ticks(v)) <= counter'[WindowAt(t, Ticks(v))].expiresAt
    <3>1. PICK x \in Window : x = WindowAt(t, Ticks(v))
      BY RateConstants
    <3>2. counter'[x].expiresAt \in {counter[x].expiresAt, Never}
      BY <1>1, <1>4 DEF Current, NoCounter
    <3>3. QED
      BY <3>1, <3>2, EndsBeforeNever DEF RateIInv, CountersLast
  <2>2. QED
    BY <2>1 DEF CountersLast
<1>7. \A d \in Config, x \in Window :
        /\ passed[d][x] \in Nat
        /\ passed'[d][x] \in {passed[d][x], passed[d][x] + 1}
        /\ passed'[d][x] # passed[d][x] =>
             d = c /\ x = w /\ value <= c.maxRequests /\ w = CurrentWindow(c)
  BY <1>1, <1>3 DEF UnderLimit
<1>8. PassedAreCounted'
  <2>1. ASSUME NEW d \in Config, NEW n \in Window, n = CurrentWindow(d)
        PROVE  /\ passed'[d][n] <= Current(n)'.value
               /\ \A x \in Window : x > n => passed'[d][x] = 0
    <3>1. /\ passed[d][n] <= Current(n).value
          /\ \A x \in Window : x > n => passed[d][x] = 0
      BY <2>1 DEF RateIInv, PassedAreCounted
    <3>2. CASE n = w
      <4>1. Current(w)'.value = Current(w).value + 1 /\ Current(w).value \in Nat
        BY <1>1, <1>5 DEF Counter
      <4>2. passed[d][w] \in Nat /\ passed'[d][w] \in {passed[d][w], passed[d][w] + 1}
        BY <1>7
      <4>3. passed'[d][w] <= Current(w)'.value
        BY <3>1, <3>2, <4>1, <4>2
      <4>4. \A x \in Window : x > w => passed'[d][x] = 0
        BY <1>7, <3>1, <3>2, RateConstants
      <4>5. QED
        BY <3>2, <4>3, <4>4
    <3>3. CASE n # w
      <4>1. ASSUME NEW x \in Window PROVE passed'[d][x] = passed[d][x]
        BY <1>7, <2>1, <3>3
      <4>2. \A x \in Window : passed'[d][x] = passed[d][x]
        BY <4>1
      <4>3. QED
        BY <1>5, <3>1, <3>3, <4>2
    <3>4. QED
      BY <3>2, <3>3
  <2>2. \A d \in Config : CurrentWindow(d) \in Window /\ CurrentWindow(d)' = CurrentWindow(d)
    BY <1>1, <1>2, CurrentWindows DEF CurrentWindow
  <2>3. QED
    BY <2>1, <2>2 DEF PassedAreCounted
<1>9. PassedWithinLimit'
  <2>1. ASSUME NEW d \in Config, NEW x \in Window
        PROVE  passed'[d][x] <= d.maxRequests
    <3>1. passed[d][x] <= d.maxRequests /\ d.maxRequests \in Nat
      BY ConfigParts DEF RateIInv, PassedWithinLimit
    <3>2. CASE passed'[d][x] = passed[d][x]
      BY <3>1, <3>2
    <3>3. CASE passed'[d][x] # passed[d][x]
      <4>1. d = c /\ x = w /\ value <= c.maxRequests /\ w = CurrentWindow(c)
            /\ passed'[d][x] = passed[d][x] + 1
        BY <1>7, <3>3
      <4>2. passed[c][w] <= Current(w).value
        BY <1>1, <4>1 DEF RateIInv, PassedAreCounted
      <4>3. passed[c][w] \in Nat /\ Current(w).value \in Nat
        BY <1>1, <1>7 DEF Counter
      <4>4. QED
        BY <1>1, <3>1, <4>1, <4>2, <4>3
    <3>4. QED
      BY <3>2, <3>3
  <2>2. QED
    BY <2>1 DEF PassedWithinLimit
<1>10. PICK h \in RequestState : Become(r, h) /\ RequestInWindow(h)
  <2>1. request[r].server \in Server
    BY <1>1 DEF RequestState
  <2>2. CASE Ends(r)
    BY <2>1, <2>2, IdleRequest DEF Ends
  <2>3. ASSUME NEW pc \in {"expire", "ttl"},
               Become(r, [request[r] EXCEPT !.pc = pc]), request[r].pc = "incr"
        PROVE  \E h \in RequestState : Become(r, h) /\ RequestInWindow(h)
    <3> DEFINE h == [request[r] EXCEPT !.pc = pc]
    <3>1. /\ h \in RequestState /\ h.pc = pc
          /\ h.window = request[r].window /\ h.config = request[r].config
      BY <1>1 DEF RequestState
    <3>2. RequestInWindow(request[r])
      BY DEF RateIInv, RequestsInWindow
    <3>3. RequestInWindow(h)
      BY <2>3, <3>1, <3>2 DEF RequestInWindow
    <3>4. Become(r, h)
      BY <2>3
    <3> HIDE DEF h
    <3>5. QED
      BY <3>1, <3>3, <3>4
  <2>4. QED
    BY <1>1, <2>2, <2>3 DEF Increment
<1>11. /\ request' \in [Request -> RequestState]
       /\ \A q \in Request : request'[q] = IF q = r THEN h ELSE request[q]
  BY <1>10 DEF Become, RateIInv, RateTypeOK
<1>12. RequestsInWindow'
  BY <1>2, <1>10, <1>11 DEF RateIInv, RequestsInWindow, RequestInWindow
<1>13. passed' \in [Config -> [Window -> Nat]]
  <2>1. [passed[c] EXCEPT ![w] = @ + 1] \in [Window -> Nat]
    BY <1>3
  <2>2. passed' \in {passed, [passed EXCEPT ![c] = [passed[c] EXCEPT ![w] = @ + 1]]}
    BY <1>1
  <2>3. QED
    BY <1>3, <2>1, <2>2
<1>14. RateTypeOK' /\ UpdatesBehind' /\ OwnUpdateSticks'
  BY <1>2, <1>4, <1>11, <1>13 DEF RateIInv, RateTypeOK, UpdatesBehind, OwnUpdateSticks
<1>15. QED
  BY <1>6, <1>8, <1>9, <1>12, <1>14 DEF RateIInv

\* expire: whoever sets it, and however late, the counter gets a whole window from
\* then on, so it outlasts the window it counts.
LEMMA SetExpireKeeps ==
  ASSUME RateIInv, NEW r \in Request, SetExpire(r)
  PROVE  RateIInv'
<1>1. UNCHANGED <<now, settings, settingsCache, update, served, passed, done>> /\ Ends(r)
  BY DEF SetExpire
<1>2. PICK c \in Config : c = request[r].config
  BY DEF RateIInv, RateTypeOK, RequestState
<1>3. PICK seconds \in WindowSeconds : seconds = c.windowSeconds
  BY ConfigParts
<1>v. PICK v \in Nat \ {0} : v = Ticks(seconds)
  BY RateConstants
<1>4. PICK w \in Window : w = request[r].window
  BY DEF RateIInv, RateTypeOK, RequestState
<1>5. PICK t \in Start..now : w = WindowAt(t, v)
  BY <1>2, <1>3, <1>4, <1>v DEF SetExpire, RateIInv, RequestsInWindow, RequestInWindow
<1>6. /\ now \in Start..End /\ now \in Nat /\ t \in Time /\ t \in Nat /\ t <= now
      /\ counter \in [Window -> Counter]
  BY <1>5, RateConstants DEF RateIInv, RateTypeOK, Time
<1>7. CASE counter' = counter
  BY <1>1, <1>7, RequestEnds
<1>8. CASE /\ Current(w).value # 0
           /\ counter' = [counter EXCEPT ![w].expiresAt = now + v]
  <2>1. now + v \in 0..Never
    <3>1. Never \in Nat /\ End + CacheTtl + 1 + v <= Never
      BY <1>v, RateConstants
    <3>2. QED
      BY <1>6, <3>1
  <2>2. /\ counter' \in [Window -> Counter]
        /\ counter'[w].expiresAt = now + v /\ counter'[w].value = counter[w].value
        /\ \A x \in Window \ {w} : counter'[x] = counter[x]
    BY <1>6, <1>8, <2>1 DEF Counter
  <2>3. ASSUME NEW x \in Window
        PROVE  Current(x)'.value = Current(x).value
    <3>1. CASE x = w
      <4>1. Current(w) = counter[w]
        BY <1>8 DEF Current, NoCounter
      <4>2. ~(now + v <= now)
        BY <1>6
      <4>3. QED
        BY <1>1, <2>2, <3>1, <4>1, <4>2 DEF Current
    <3>2. CASE x # w
      BY <1>1, <2>2, <3>2 DEF Current
    <3>3. QED
      BY <3>1, <3>2
  <2>4. CountersLast'
    <3>1. ASSUME NEW u \in Time, NEW z \in WindowSeconds
          PROVE  WindowEnd(WindowAt(u, Ticks(z)), Ticks(z)) <= counter'[WindowAt(u, Ticks(z))].expiresAt
      <4>1. CASE WindowAt(u, Ticks(z)) = w
        <5>1. z = seconds
          BY <1>5, <1>v, <1>6, <4>1 DEF WindowAt, Time
        <5>2. WindowEnd(w, v) = w * v + v /\ w * v <= t /\ w \in Nat
          BY <1>5, <1>6, InWindow
        <5>3. PICK start \in Nat : start = w * v
          BY <5>2
        <5>4. WindowEnd(w, v) = start + v /\ start <= t
          BY <5>2, <5>3
        <5>5. WindowEnd(w, v) <= now + v
          BY <1>6, <5>4
        <5>6. QED
          BY <1>v, <2>2, <4>1, <5>1, <5>5
      <4>2. CASE WindowAt(u, Ticks(z)) # w
        BY <2>2, <4>2, RateConstants DEF RateIInv, CountersLast
      <4>3. QED
        BY <4>1, <4>2
    <3>2. QED
      BY <3>1 DEF CountersLast
  <2>5. PassedAreCounted'
    <3>1. ASSUME NEW d \in Config, NEW n \in Window, n = CurrentWindow(d)
          PROVE  /\ passed'[d][n] <= Current(n)'.value
                 /\ \A x \in Window : x > n => passed'[d][x] = 0
      BY <1>1, <2>3, <3>1 DEF RateIInv, PassedAreCounted
    <3>2. \A d \in Config : CurrentWindow(d) \in Window /\ CurrentWindow(d)' = CurrentWindow(d)
      BY <1>1, <1>6, CurrentWindows DEF Time, CurrentWindow
    <3>3. QED
      BY <3>1, <3>2 DEF PassedAreCounted
  <2>6. /\ request[r].server \in Server
        /\ request' = [request EXCEPT ![r] = Idle(request[r].server)]
    BY <1>1 DEF Ends, Become, RateIInv, RateTypeOK, RequestState
  <2>7. /\ request' \in [Request -> RequestState]
        /\ \A q \in Request :
             request'[q] = IF q = r THEN Idle(request[r].server) ELSE request[q]
    BY <2>6, IdleRequest DEF RateIInv, RateTypeOK
  <2>8. RequestsInWindow'
    BY <1>1, <2>6, <2>7, IdleRequest DEF RateIInv, RequestsInWindow, RequestInWindow
  <2>9. RateTypeOK' /\ PassedWithinLimit' /\ UpdatesBehind' /\ OwnUpdateSticks'
    BY <1>1, <2>2, <2>7 DEF RateIInv, RateTypeOK, PassedWithinLimit, UpdatesBehind, OwnUpdateSticks
  <2>10. QED
    BY <2>4, <2>5, <2>8, <2>9 DEF RateIInv
<1>9. QED
  BY <1>2, <1>3, <1>4, <1>v, <1>7, <1>8 DEF SetExpire

\* updateConfig writes the row, then forgets what its own server has cached.
LEMMA UpdateKeeps ==
  ASSUME RateIInv, NEW s \in Server,
         InvalidateCache(s) \/ \E c \in Config : Upsert(s, c)
  PROVE  RateIInv'
<1>1. UNCHANGED <<now, request, counter, served, passed>>
  BY DEF InvalidateCache, Upsert
<1>2. CountersLast' /\ PassedAreCounted' /\ PassedWithinLimit' /\ RequestsInWindow'
  BY <1>1 DEF RateIInv, CountersLast, PassedAreCounted, Current, CurrentWindow,
              PassedWithinLimit, RequestsInWindow, RequestInWindow
<1>3. settings \in Settings /\ settings.version \in 0..MaxUpdates /\ update[s] \in 0..MaxUpdates
  BY DEF RateIInv, RateTypeOK, Settings
<1>4. CASE InvalidateCache(s)
  <2>1. NoCache \in Cached /\ NoCache.valid = FALSE
    BY RateConstants DEF NoCache, Cached
  <2>2. RateTypeOK'
    BY <1>1, <1>3, <1>4, <2>1 DEF InvalidateCache, RateIInv, RateTypeOK
  <2>3. UpdatesBehind'
    BY <1>3, <1>4 DEF InvalidateCache, RateIInv, RateTypeOK, UpdatesBehind
  <2>4. OwnUpdateSticks'
    BY <1>4, <2>1 DEF InvalidateCache, RateIInv, RateTypeOK, OwnUpdateSticks
  <2>5. QED
    BY <1>2, <2>2, <2>3, <2>4 DEF RateIInv
<1>5. ASSUME NEW c \in Config, Upsert(s, c)
      PROVE  RateIInv'
  <2>1. /\ settings' \in Settings /\ settings'.version = settings.version + 1
        /\ settings.version + 1 \in 0..MaxUpdates
    BY <1>3, <1>5 DEF Upsert, Settings
  <2>2. RateTypeOK'
    BY <1>1, <1>5, <2>1 DEF Upsert, RateIInv, RateTypeOK
  <2>3. UpdatesBehind'
    <3>1. ASSUME NEW q \in Server
          PROVE  update'[q] <= settings'.version /\ done'[q] <= settings'.version
      <4>1. /\ update[q] \in Nat /\ done[q] \in Nat /\ settings.version \in Nat
            /\ update[q] <= settings.version /\ done[q] <= settings.version
        BY <1>3 DEF RateIInv, RateTypeOK, UpdatesBehind
      <4>2. update'[q] \in {update[q], settings.version + 1} /\ done'[q] = done[q]
        BY <1>5 DEF Upsert, RateIInv, RateTypeOK
      <4>3. QED
        BY <2>1, <4>1, <4>2
    <3>2. QED
      BY <3>1 DEF UpdatesBehind
  <2>4. OwnUpdateSticks'
    BY <1>5 DEF Upsert, RateIInv, OwnUpdateSticks
  <2>5. QED
    BY <1>2, <2>2, <2>3, <2>4 DEF RateIInv
<1>6. QED
  BY <1>4, <1>5

\* Time passes: a counter still current was not reset, and a new window is empty.
LEMMA TickKeeps ==
  ASSUME RateIInv, Tick
  PROVE  RateIInv'
<1>1. /\ now \in Time /\ now \in Nat /\ now' = now + 1 /\ now' \in Time /\ now' \in Nat
      /\ Start..now \subseteq Start..now'
  BY RateConstants DEF Tick, Time, RateIInv, RateTypeOK
<1>2. UNCHANGED <<settings, settingsCache, request, update, counter, served, passed, done>>
  BY DEF Tick
<1>3. RateTypeOK' /\ PassedWithinLimit' /\ UpdatesBehind' /\ OwnUpdateSticks' /\ CountersLast'
  BY <1>1, <1>2 DEF RateIInv, RateTypeOK, PassedWithinLimit, UpdatesBehind, OwnUpdateSticks,
                    CountersLast
<1>4. RequestsInWindow'
  <2>1. ASSUME NEW h, RequestInWindow(h), NEW w, NEW v,
               \E t \in Start..now : w = WindowAt(t, v)
        PROVE  \E t \in Start..now' : w = WindowAt(t, v)
    BY <1>1, <2>1
  <2>2. QED
    BY <1>1, <1>2 DEF RateIInv, RequestsInWindow, RequestInWindow
<1>5. PassedAreCounted'
  <2>1. ASSUME NEW c \in Config, NEW n \in Window, n = CurrentWindow(c)'
        PROVE  /\ passed'[c][n] <= Current(n)'.value
               /\ \A x \in Window : x > n => passed'[c][x] = 0
    <3> DEFINE v == Ticks(c.windowSeconds)
    <3>0. v \in Nat \ {0} /\ c.windowSeconds \in WindowSeconds /\ n = WindowAt(now', v)
      BY <2>1, ConfigParts DEF CurrentWindow, WindowAt
    <3>1. PICK m \in Window : m = CurrentWindow(c) /\ m = WindowAt(now, v)
      BY <1>1, CurrentWindows
    <3>2. m <= n /\ m \in Nat /\ n \in Nat
      BY <1>1, <3>0, <3>1, WindowsAscend, RateConstants
    <3>3. /\ passed[c][m] <= Current(m).value
          /\ \A x \in Window : x > m => passed[c][x] = 0
      BY <3>1 DEF RateIInv, PassedAreCounted
    <3>4. /\ counter[n].value \in Nat /\ counter[n].expiresAt \in Nat
          /\ counter[n].expiresAt <= now' \/ Current(n)' = counter[n]
      BY <1>2, RateConstants DEF Current, RateIInv, RateTypeOK, Counter
    <3>5. counter[n].expiresAt > now'
      <4>1. now' < WindowEnd(n, v)
        BY <1>1, <3>0, InWindow
      <4>2. WindowEnd(n, v) <= counter[n].expiresAt
        BY <1>1, <3>0 DEF RateIInv, CountersLast
      <4>3. WindowEnd(n, v) \in Nat
        BY <3>0, <3>2 DEF WindowEnd
      <4>4. QED
        BY <1>1, <3>4, <4>1, <4>2, <4>3
    <3>6. Current(n)' = counter[n] /\ Current(n) = counter[n]
      BY <1>1, <3>4, <3>5 DEF Current
    <3>7. CASE n = m
      BY <1>2, <3>3, <3>6, <3>7
    <3>8. CASE n # m
      BY <1>2, <3>2, <3>3, <3>4, <3>6, <3>8, RateConstants
    <3>9. QED
      BY <3>7, <3>8
  <2>2. \A c \in Config : CurrentWindow(c)' \in Window
    BY <1>1, ConfigParts, RateConstants DEF CurrentWindow, WindowAt
  <2>3. QED
    BY <2>1, <2>2 DEF PassedAreCounted
<1>6. QED
  BY <1>3, <1>4, <1>5 DEF RateIInv

-----------------------------------------------------------------------------
\* Every step of the limiter keeps the invariant.
LEMMA RateStepInv ==
  ASSUME RateIInv, [RateNext]_rateVars
  PROVE  RateIInv'
<1>1. ASSUME NEW r \in Request, Answer(r) \/ Unavailable(r)
      PROVE  RateIInv'
  BY <1>1, RequestEnds DEF Answer, Unavailable
<1>2. ASSUME NEW r \in Request, RequestStep(r)
      PROVE  RateIInv'
  BY <1>1, <1>2, CreateSettingsKeeps, StoreSettingsKeeps, ReadClockKeeps, IncrementKeeps,
     SetExpireKeeps, RefuseKeeps DEF RequestStep
<1>3. CASE RateNext
  BY <1>1, <1>2, <1>3, BeginRequestKeeps, UpdateKeeps, TickKeeps DEF RateNext
<1>4. CASE UNCHANGED rateVars
  BY <1>4 DEF rateVars, RateIInv, RateTypeOK, CountersLast, PassedAreCounted, Current,
              CurrentWindow, PassedWithinLimit, RequestsInWindow, RequestInWindow, UpdatesBehind,
              OwnUpdateSticks
<1>5. QED
  BY <1>3, <1>4

\* The inductive invariant holds in every reachable state.
THEOREM RateInvariance == RateSpec => []RateIInv
BY RateInitInv, RateStepInv, PTL DEF RateSpec

\* Settings, caches, counters and the locals of requests keep their types.
THEOREM RateTypeCorrect == RateSpec => []RateTypeOK
<1>1. RateIInv => RateTypeOK
  BY DEF RateIInv
<1>2. QED
  BY <1>1, RateInvariance, PTL

\* While a window lasts no more requests pass under a configuration than it allows:
\* not when servers and requests overlap, when Redis expires the counter, when the
\* time to live is set late or never, or when a request counts in a window gone by.
THEOREM RatePassedWithinLimit == RateSpec => []PassedWithinLimit
<1>1. RateIInv => PassedWithinLimit
  BY DEF RateIInv
<1>2. QED
  BY <1>1, RateInvariance, PTL

\* The Retry-After of a refusal, rounded as it is, leads past the window that is full
\* or to the last half second of it.
THEOREM RateRetryAfterSuffices == RateSpec => []RetryAfterSuffices
<1>1. ASSUME RateIInv, NEW r \in Request, request[r].pc = "blocked"
      PROVE  (request[r].retryAt + HalfSecond) \div Ticks(request[r].config.windowSeconds)
               > request[r].window
  <2>1. /\ request[r].config \in Config /\ request[r].window \in Nat
        /\ request[r].retryAt \in Nat
    BY <1>1, RateConstants DEF RateIInv, RateTypeOK, RequestState
  <2>2. PICK v \in Nat \ {0} : v = Ticks(request[r].config.windowSeconds)
    BY <2>1, ConfigParts
  <2>3. PICK back \in Nat : back = request[r].retryAt + HalfSecond
    BY <2>1 DEF HalfSecond
  <2>4. WindowEnd(request[r].window, v) <= back
    BY <1>1, <2>2, <2>3 DEF RateIInv, RequestsInWindow, RequestInWindow
  <2>5. request[r].window < WindowAt(back, v) /\ WindowAt(back, v) \in Nat
    BY <2>1, <2>4, AfterWindow, InWindow
  <2>6. QED
    BY <2>1, <2>2, <2>3, <2>5 DEF WindowAt
<1>2. RateIInv => RetryAfterSuffices
  BY <1>1 DEF RetryAfterSuffices
<1>3. QED
  BY <1>2, RateInvariance, PTL

\* A server that has completed an update serves nothing older from its cache, but
\* for what a request that had read the row before stored late.
THEOREM RateOwnUpdateSticks == RateSpec => []OwnUpdateSticks
<1>1. RateIInv => OwnUpdateSticks
  BY DEF RateIInv
<1>2. QED
  BY <1>1, RateInvariance, PTL

-------------------------------------------------------------------------------
(***************************************************************************)
(* RbacCache, for every set of users, roles and permissions, any number of *)
(* readers and mutating handlers, with and without crashes: what is out of *)
(* date in the cache is about to be removed or was stored late, and        *)
(* assignments leave nobody without a role.                                *)
(***************************************************************************)

HIDE RateAssumption

\* What a handler's locals hold at each of its awaits.
AdminFits(h) ==
  /\ h.pc \in {"roleDelete", "roleCommit"} => h.user \in User /\ h.target \in Role
  /\ h.pc \in {"overrideDelete", "overrideCommit"} =>
       h.user \in User /\ h.perms \subseteq Permission
  /\ h.pc \in {"permsDelete", "permsCommit", "users", "deleteRow"} => h.role \in Role
  /\ h.pc \in {"resetDelete", "resetCreate"} => h.role \in SystemRole
  /\ h.pc \in {"next", "deleteRow"} => h.op = "delete"
  /\ h.op = "delete" => h.role \in Role /\ h.target \in Role

AdminsFit == \A a \in Admin : AdminFits(admin[a])

ReaderFits(h) ==
  /\ h.pc # "idle" => h.user \in User
  /\ h.pc = "store" => h.entry \in Entry

ReadersFit == \A q \in Reader : ReaderFits(reader[q])

\* Users have roles that exist.
HeldRolesLive == \A u \in User : \A r \in userRoles[u] : LiveRole(r)

IsOwed(u) == \E a \in Admin : u \in Owed(admin[a])

\* A payload is what the tables say, or there is a reason why it is not.
Covered(e, u) ==
  \/ e.late
  \/ e.roles = userRoles[u] /\ e.perms = Effective(u)
  \/ IsOwed(u)

\* This holds of what is cached and also of what a reader is about to store, which
\* is why StaleIsOwedOrLate is not inductive without it.
EntriesCovered ==
  /\ \A u \in User : cache[u] # NoEntry => Covered(cache[u], u)
  /\ \A q \in Reader : reader[q].pc = "store" => Covered(reader[q].entry, reader[q].user)

RbacIInv ==
  /\ RbacTypeOK
  /\ AdminsFit
  /\ ReadersFit
  /\ HeldRolesLive
  /\ EntriesCovered

USE RbacAssumption

Pc == {"idle", "roleDelete", "roleCommit", "overrideDelete", "overrideCommit",
       "permsDelete", "permsCommit", "resetDelete", "resetCreate",
       "users", "invalidate", "next", "deleteRow"}

LEMMA IdleFits ==
  /\ IdleAdmin \in AdminState /\ AdminFits(IdleAdmin) /\ IdleAdmin.pc = "idle"
  /\ Owed(IdleAdmin) = {}
  /\ IdleReader \in ReaderState /\ ReaderFits(IdleReader) /\ IdleReader.pc = "idle"
BY DEF IdleAdmin, IdleReader, AdminState, ReaderState, AdminFits, ReaderFits, Owed,
       Operation, Effect

LEMMA RbacInitInv == RbacInit => RbacIInv
<1> SUFFICES ASSUME RbacInit
             PROVE  RbacIInv
  OBVIOUS
<1>1. RbacTypeOK
  BY IdleFits DEF RbacInit, RbacTypeOK, RoleRow
<1>2. AdminsFit /\ ReadersFit
  BY IdleFits DEF RbacInit, AdminsFit, ReadersFit
<1>3. HeldRolesLive
  BY DEF RbacInit, HeldRolesLive, LiveRole
<1>4. EntriesCovered
  BY IdleFits DEF RbacInit, EntriesCovered
<1>5. QED
  BY <1>1, <1>2, <1>3, <1>4 DEF RbacIInv

LEMMA RbacTyped ==
  ASSUME RbacIInv
  PROVE  /\ roles \in [Role -> RoleRow] /\ userRoles \in [User -> SUBSET Role]
         /\ overrides \in [User -> SUBSET (Permission \X Effect)]
         /\ cache \in [User -> Entry \union {NoEntry}]
         /\ reader \in [Reader -> ReaderState] /\ admin \in [Admin -> AdminState]
         /\ changes \in 0..MaxChanges /\ (changes < MaxChanges => changes + 1 \in 0..MaxChanges)
BY DEF RbacIInv, RbacTypeOK

LEMMA AdminTyped ==
  ASSUME RbacIInv, NEW a \in Admin
  PROVE  admin[a] \in AdminState /\ AdminFits(admin[a])
BY DEF RbacIInv, RbacTypeOK, AdminsFit

LEMMA ReaderTyped ==
  ASSUME RbacIInv, NEW q \in Reader
  PROVE  reader[q] \in ReaderState /\ ReaderFits(reader[q])
BY DEF RbacIInv, RbacTypeOK, ReadersFit

-----------------------------------------------------------------------------
(***************************************************************************)
(* How a step keeps what is cached covered.                                *)
(***************************************************************************)

\* What the tables say of a user depends on his rows, and on those of his roles.
LEMMA EffectiveKept ==
  ASSUME NEW u \in User, userRoles'[u] = userRoles[u], overrides'[u] = overrides[u],
         \A r \in userRoles[u] : roles'[r].perms = roles[r].perms
  PROVE  Effective(u)' = Effective(u)
<1>1. {roles'[r].perms : r \in userRoles'[u]} = {roles[r].perms : r \in userRoles[u]}
  OBVIOUS
<1>2. QED
  BY <1>1 DEF Effective

\* A step does nothing to a user, or owes him an invalidation.
StillCovered(u) ==
  \/ IsOwed(u)'
  \/ /\ userRoles'[u] = userRoles[u] /\ Effective(u)' = Effective(u)
     /\ IsOwed(u) => IsOwed(u)'

LEMMA CoveredKept ==
  ASSUME NEW u \in User, StillCovered(u), NEW e, Covered(e, u)
  PROVE  Covered(e, u)'
BY DEF StillCovered, Covered

LEMMA EntriesKept ==
  ASSUME RbacIInv, UNCHANGED <<cache, reader>>, \A u \in User : StillCovered(u)
  PROVE  EntriesCovered'
<1>1. ASSUME NEW u \in User, cache'[u] # NoEntry
      PROVE  Covered(cache[u], u)'
  <2>1. PICK e : e = cache[u]
    OBVIOUS
  <2>2. Covered(e, u)
    BY <1>1, <2>1 DEF RbacIInv, EntriesCovered
  <2>3. Covered(e, u)'
    BY <2>2, CoveredKept
  <2>4. QED
    BY <2>1, <2>3 DEF Covered
<1>2. ASSUME NEW q \in Reader, reader'[q].pc = "store"
      PROVE  Covered(reader[q].entry, reader[q].user)'
  <2>1. PICK e, u : e = reader[q].entry /\ u = reader[q].user
    OBVIOUS
  <2>2. u \in User /\ Covered(e, u)
    BY <1>2, <2>1, ReaderTyped DEF RbacIInv, EntriesCovered, ReaderFits
  <2>3. Covered(e, u)'
    BY <2>2, CoveredKept
  <2>4. QED
    BY <2>1, <2>3 DEF Covered
<1>3. QED
  BY <1>1, <1>2 DEF EntriesCovered

\* Users whose invalidation comes now, or never, are marked; the others are kept.
LEMMA ReadersMarked ==
  ASSUME RbacIInv, NEW late \in SUBSET User, MarkReadersLate(late)
  PROVE  /\ reader' \in [Reader -> ReaderState] /\ ReadersFit'
         /\ \A q \in Reader :
              /\ reader'[q].pc = reader[q].pc /\ reader'[q].user = reader[q].user
              /\ reader[q].pc = "store" =>
                   IF reader[q].user \in late THEN reader'[q].entry.late
                   ELSE reader'[q].entry = reader[q].entry
<1>1. ASSUME NEW q \in Reader
      PROVE  /\ reader'[q] \in ReaderState /\ ReaderFits(reader'[q])
             /\ reader'[q].pc = reader[q].pc /\ reader'[q].user = reader[q].user
             /\ reader[q].pc = "store" =>
                  IF reader[q].user \in late THEN reader'[q].entry.late
                  ELSE reader'[q].entry = reader[q].entry
  <2>1. reader[q] \in ReaderState /\ ReaderFits(reader[q])
    BY ReaderTyped
  <2>2. CASE reader[q].pc = "store" /\ reader[q].user \in late
    <3>1. PICK e \in Entry : e = reader[q].entry
      BY <2>1, <2>2 DEF ReaderFits
    <3>2. PICK l : l = [e EXCEPT !.late = TRUE]
      OBVIOUS
    <3>3. l \in Entry /\ l.late
      BY <3>2 DEF Entry
    <3>4. reader'[q] = [reader[q] EXCEPT !.entry = l]
      BY <2>2, <3>1, <3>2 DEF MarkReadersLate
    <3>5. QED
      BY <2>1, <2>2, <3>3, <3>4 DEF ReaderState, ReaderFits
  <2>3. CASE ~(reader[q].pc = "store" /\ reader[q].user \in late)
    <3>1. reader'[q] = reader[q]
      BY <2>3 DEF MarkReadersLate
    <3>2. QED
      BY <2>1, <2>3, <3>1
  <2>4. QED
    BY <2>2, <2>3
<1>2. reader' \in [Reader -> ReaderState]
  BY <1>1 DEF MarkReadersLate
<1>3. QED
  BY <1>1, <1>2 DEF ReadersFit, ReaderFits

LEMMA EntriesMarked ==
  ASSUME RbacIInv, NEW late \in SUBSET User, MarkReadersLate(late),
         \A u \in User : cache'[u] # NoEntry =>
           IF u \in late THEN cache'[u].late ELSE cache'[u] = cache[u],
         \A u \in User \ late : StillCovered(u)
  PROVE  EntriesCovered'
<1>1. ASSUME NEW u \in User, cache'[u] # NoEntry
      PROVE  Covered(cache[u], u)'
  <2>1. CASE u \in late
    BY <1>1, <2>1 DEF Covered
  <2>2. CASE u \notin late
    <3>1. PICK e : e = cache[u]
      OBVIOUS
    <3>2. Covered(e, u)
      BY <1>1, <2>2, <3>1 DEF RbacIInv, EntriesCovered
    <3>3. Covered(e, u)'
      BY <2>2, <3>2, CoveredKept
    <3>4. QED
      BY <1>1, <2>2, <3>1, <3>3 DEF Covered
  <2>3. QED
    BY <2>1, <2>2
<1>2. ASSUME NEW q \in Reader, reader'[q].pc = "store"
      PROVE  Covered(reader[q].entry, reader[q].user)'
  <2>1. PICK e, u : e = reader[q].entry /\ u = reader[q].user
    OBVIOUS
  <2>2. /\ reader[q].pc = "store" /\ reader'[q].user = u
        /\ IF u \in late THEN reader'[q].entry.late ELSE reader'[q].entry = e
    BY <1>2, <2>1, ReadersMarked
  <2>3. u \in User /\ Covered(e, u)
    BY <2>1, <2>2, ReaderTyped DEF RbacIInv, EntriesCovered, ReaderFits
  <2>4. CASE u \in late
    BY <2>2, <2>4 DEF Covered
  <2>5. CASE u \notin late
    <3>1. Covered(e, u)'
      BY <2>3, <2>5, CoveredKept
    <3>2. QED
      BY <2>2, <2>5, <3>1 DEF Covered
  <2>6. QED
    BY <2>4, <2>5
<1>3. QED
  BY <1>1, <1>2 DEF EntriesCovered

-----------------------------------------------------------------------------
(***************************************************************************)
(* Readers, and entries that expire.                                       *)
(***************************************************************************)

LEMMA ReaderKeeps ==
  ASSUME RbacIInv, UNCHANGED <<tables, admin, changes>>,
         \/ \E q \in Reader, u \in User : BeginRead(q, u)
         \/ \E q \in Reader : LoadSnapshot(q) \/ Store(q) \/ AbortRead(q)
         \/ \E u \in User : Expire(u)
  PROVE  RbacIInv'
<1>1. /\ UNCHANGED <<roles, userRoles, overrides>>
      /\ \A e, u : Covered(e, u) => Covered(e, u)'
  <2>1. UNCHANGED <<roles, userRoles, overrides, admin>>
    BY DEF tables
  <2>2. \A u : IsOwed(u)' = IsOwed(u) /\ Effective(u)' = Effective(u)
    BY <2>1 DEF IsOwed, Owed, Holders, Effective
  <2>3. QED
    BY <2>1, <2>2 DEF Covered
<1>2. HeldRolesLive' /\ AdminsFit'
  BY <1>1 DEF RbacIInv, HeldRolesLive, LiveRole, AdminsFit
<1> USE RbacTyped
<1>3. SUFFICES /\ cache' \in [User -> Entry \union {NoEntry}]
               /\ reader' \in [Reader -> ReaderState] /\ ReadersFit'
               /\ \A u \in User : cache'[u] # NoEntry => Covered(cache'[u], u)
               /\ \A q \in Reader :
                    reader'[q].pc = "store" => Covered(reader'[q].entry, reader'[q].user)
  BY <1>1, <1>2 DEF RbacIInv, RbacTypeOK, EntriesCovered
<1>4. /\ \A u \in User : cache[u] # NoEntry => Covered(cache[u], u)
      /\ \A q \in Reader : reader[q].pc = "store" => Covered(reader[q].entry, reader[q].user)
      /\ \A q \in Reader : ReaderFits(reader[q])
  BY DEF RbacIInv, EntriesCovered, ReadersFit
<1>5. ASSUME NEW q \in Reader, NEW u \in User, BeginRead(q, u)
      PROVE  /\ UNCHANGED cache
             /\ \E h \in ReaderState :
                  ReaderFits(h) /\ h.pc = "load" /\ reader' = [reader EXCEPT ![q] = h]
  <2>1. PICK h : h = [IdleReader EXCEPT !.pc = "load", !.user = u]
    OBVIOUS
  <2>2. h \in ReaderState /\ ReaderFits(h) /\ h.pc = "load"
    BY <2>1 DEF IdleReader, ReaderState, ReaderFits
  <2>3. QED
    BY <1>5, <2>1, <2>2 DEF BeginRead
<1>6. ASSUME NEW q \in Reader, LoadSnapshot(q)
      PROVE  /\ UNCHANGED cache
             /\ \E h \in ReaderState :
                  /\ ReaderFits(h) /\ Covered(h.entry, h.user)
                  /\ reader' = [reader EXCEPT ![q] = h]
  <2>1. PICK u \in User : u = reader[q].user
    BY <1>6, ReaderTyped DEF LoadSnapshot, ReaderFits
  <2>2. PICK e : e = [roles |-> userRoles[u], perms |-> Effective(u), late |-> FALSE]
    OBVIOUS
  <2>3. Effective(u) \subseteq Permission
    <3>1. \A r \in userRoles[u] : roles[r].perms \subseteq Permission
      BY DEF RoleRow
    <3> DEFINE given == UNION {roles[r].perms : r \in userRoles[u]}
    <3> DEFINE granted == {p \in Permission : <<p, "grant">> \in overrides[u]}
    <3> DEFINE denied == {p \in Permission : <<p, "deny">> \in overrides[u]}
    <3>2. given \subseteq Permission
      BY <3>1
    <3>3. granted \subseteq Permission
      OBVIOUS
    <3>4. Effective(u) = (given \union granted) \ denied
      BY DEF Effective
    <3> HIDE DEF given, granted, denied
    <3>5. QED
      BY <3>2, <3>3, <3>4
  <2>4. e \in Entry /\ Covered(e, u)
    BY <2>2, <2>3 DEF Entry, Covered
  <2>5. PICK h : h = [reader[q] EXCEPT !.pc = "store", !.entry = e]
    OBVIOUS
  <2>6. h \in ReaderState /\ h.pc = "store" /\ h.entry = e /\ h.user = u
    BY <2>1, <2>4, <2>5, ReaderTyped DEF ReaderState
  <2>7. UNCHANGED cache /\ reader' = [reader EXCEPT ![q] = h]
    BY <1>6, <2>1, <2>2, <2>5 DEF LoadSnapshot
  <2>8. QED
    BY <2>4, <2>6, <2>7 DEF ReaderFits
<1>7. ASSUME NEW q \in Reader, Store(q)
      PROVE  /\ reader' = [reader EXCEPT ![q] = IdleReader]
             /\ \E u \in User, e \in Entry :
                  Covered(e, u) /\ cache' = [cache EXCEPT ![u] = e]
  BY <1>4, <1>7 DEF Store, ReaderFits
<1>8. CASE \E q \in Reader, u \in User : BeginRead(q, u)
  BY <1>4, <1>5, <1>8 DEF ReadersFit
<1>9. CASE \E q \in Reader : LoadSnapshot(q)
  BY <1>4, <1>6, <1>9 DEF ReadersFit
<1>10. CASE \E q \in Reader : Store(q)
  BY <1>4, <1>7, <1>10, IdleFits DEF ReadersFit
<1>11. CASE \E q \in Reader : AbortRead(q)
  BY <1>4, <1>11, IdleFits DEF AbortRead, ReadersFit
<1>12. CASE \E u \in User : Expire(u)
  BY <1>4, <1>12 DEF Expire, ReadersFit
<1>13. QED
  BY <1>8, <1>9, <1>10, <1>11, <1>12

-----------------------------------------------------------------------------
(***************************************************************************)
(* Handlers that change no table.                                          *)
(***************************************************************************)

\* A handler goes on, and owes what it owed.
LEMMA HandlerMoves ==
  ASSUME RbacIInv, NEW a \in Admin, NEW h \in AdminState, AdminFits(h),
         Owed(admin[a]) \subseteq Owed(h), admin' = [admin EXCEPT ![a] = h],
         UNCHANGED <<tables, cache, reader>>, changes' \in 0..MaxChanges
  PROVE  RbacIInv'
<1>1. UNCHANGED <<roles, userRoles, overrides>>
  BY DEF tables
<1>2. admin' \in [Admin -> AdminState] /\ AdminsFit'
  BY RbacTyped, AdminTyped DEF AdminsFit
<1>3. \A u \in User : StillCovered(u)
  <2>1. \A b \in Admin : admin'[b] = IF b = a THEN h ELSE admin[b]
    BY RbacTyped
  <2>2. \A x : Owed(x)' = Owed(x)
    BY <1>1 DEF Owed, Holders
  <2>3. \A u \in User : IsOwed(u) => \E b \in Admin : u \in Owed(admin'[b])
    BY <2>1 DEF IsOwed
  <2>4. \A u \in User : IsOwed(u) => IsOwed(u)'
    BY <1>1, <2>3 DEF IsOwed, Owed, Holders
  <2>5. QED
    BY <1>1, <2>4 DEF StillCovered, Effective
<1>4. EntriesCovered'
  BY <1>3, EntriesKept
<1>5. HeldRolesLive' /\ ReadersFit'
  BY <1>1 DEF RbacIInv, HeldRolesLive, LiveRole, ReadersFit
<1>6. RbacTypeOK'
  BY <1>1, <1>2, RbacTyped DEF RbacTypeOK
<1>7. QED
  BY <1>2, <1>4, <1>5, <1>6 DEF RbacIInv

LEMMA BeginKeeps ==
  ASSUME RbacIInv, NEW a \in Admin, NEW h \in AdminState, AdminFits(h), Begin(a, h)
  PROVE  RbacIInv'
<1>1. Owed(admin[a]) = {}
  BY DEF Begin, Begins, AdminAt, Owed
<1>2. /\ admin' = [admin EXCEPT ![a] = h] /\ UNCHANGED <<tables, cache, reader>>
      /\ changes' \in 0..MaxChanges
  BY RbacTyped DEF Begin, Begins
<1>3. QED
  BY <1>1, <1>2, HandlerMoves

\* After a change of tables the handler owes "todo".
LEMMA InvalidatingFits ==
  ASSUME NEW h \in AdminState, AdminFits(h), NEW todo \in SUBSET User
  PROVE  \E s \in AdminState :
           s = Invalidating(h, todo) /\ AdminFits(s) /\ Owed(s) = todo
<1>1. CASE todo # {}
  <2>1. PICK s : s = [h EXCEPT !.pc = "invalidate", !.todo = todo]
    OBVIOUS
  <2>2. s \in AdminState /\ s.pc = "invalidate" /\ s.todo = todo /\ s.op = h.op
        /\ s.role = h.role /\ s.target = h.target
    BY <2>1 DEF AdminState
  <2>3. AdminFits(s) /\ Owed(s) = todo
    BY <2>2 DEF AdminFits, Owed
  <2>4. QED
    BY <1>1, <2>1, <2>2, <2>3 DEF Invalidating
<1>2. CASE todo = {} /\ h.op = "delete"
  <2>1. PICK s : s = [h EXCEPT !.pc = "next", !.todo = {}]
    OBVIOUS
  <2>2. s \in AdminState /\ s.pc = "next" /\ s.op = h.op /\ s.role = h.role
        /\ s.target = h.target
    BY <2>1 DEF AdminState
  <2>3. AdminFits(s) /\ Owed(s) = todo
    BY <1>2, <2>2 DEF AdminFits, Owed
  <2>4. QED
    BY <1>2, <2>1, <2>2, <2>3 DEF Invalidating
<1>3. CASE todo = {} /\ h.op # "delete"
  BY <1>3, IdleFits DEF Invalidating
<1>4. QED
  BY <1>1, <1>2, <1>3

\* A handler goes from one of its awaits to another, with its user and its roles.
LEMMA Steps ==
  ASSUME NEW h \in AdminState, NEW pc \in Pc
  PROVE  \E s \in AdminState :
           /\ s = [h EXCEPT !.pc = pc] /\ s.pc = pc /\ s.op = h.op
           /\ s.user = h.user /\ s.role = h.role /\ s.target = h.target
<1>1. PICK s : s = [h EXCEPT !.pc = pc]
  OBVIOUS
<1>2. s \in AdminState
  BY <1>1 DEF AdminState, Pc
<1>3. s.pc = pc /\ s.op = h.op /\ s.user = h.user /\ s.role = h.role /\ s.target = h.target
  BY <1>1 DEF AdminState
<1>4. QED
  BY <1>1, <1>2, <1>3

Seen == SUBSET (Role \union Permission \union Effect)

LEMMA QuietBeginKeeps ==
  ASSUME RbacIInv, NEW a \in Admin,
         \/ \E u \in User, t \in Role : BeginAssign(a, u, t)
         \/ \E u \in User, p \in Permission, e \in Effect : BeginOverride(a, u, p, e)
         \/ \E r \in Role, perms \in SUBSET Permission : BeginReplace(a, r, perms)
         \/ \E r \in Role : BeginReset(a, r) \/ BeginRename(a, r)
         \/ \E r, t \in Role : BeginDelete(a, r, t)
  PROVE  RbacIInv'
<1>1. SUFFICES \E h \in AdminState : AdminFits(h) /\ Begin(a, h)
  BY BeginKeeps
<1>2. CASE \E u \in User, t \in Role : BeginAssign(a, u, t)
  <2>1. PICK u \in User, t \in Role : BeginAssign(a, u, t)
    BY <1>2
  <2>2. PICK h : h = [[IdleAdmin EXCEPT !.op = "assign"] EXCEPT
                        !.pc = "roleDelete", !.user = u, !.target = t]
    OBVIOUS
  <2>3. h \in AdminState /\ AdminFits(h)
    BY <2>2 DEF IdleAdmin, AdminState, AdminFits, Operation, Effect
  <2>4. Begin(a, h)
    BY <2>1, <2>2 DEF BeginAssign, Assigning
  <2>5. QED
    BY <2>3, <2>4
<1>3. CASE \E u \in User, p \in Permission, e \in Effect : BeginOverride(a, u, p, e)
  <2>1. PICK u \in User, p \in Permission, e \in Effect : BeginOverride(a, u, p, e)
    BY <1>3
  <2>2. PICK h : h = [IdleAdmin EXCEPT !.op = "override", !.pc = "overrideDelete",
                                       !.user = u, !.perms = {p}, !.effect = e]
    OBVIOUS
  <2>3. h \in AdminState /\ AdminFits(h)
    BY <2>2 DEF IdleAdmin, AdminState, AdminFits, Operation
  <2>4. QED
    BY <2>1, <2>2, <2>3 DEF BeginOverride
<1>4. CASE \E r \in Role, perms \in SUBSET Permission : BeginReplace(a, r, perms)
  <2>1. PICK r \in Role, perms \in SUBSET Permission : BeginReplace(a, r, perms)
    BY <1>4
  <2>2. PICK h : h = [IdleAdmin EXCEPT !.op = "replace", !.pc = "permsDelete",
                                       !.role = r, !.perms = perms]
    OBVIOUS
  <2>3. h \in AdminState /\ AdminFits(h)
    BY <2>2 DEF IdleAdmin, AdminState, AdminFits, Operation, Effect
  <2>4. QED
    BY <2>1, <2>2, <2>3 DEF BeginReplace
<1>5. CASE \E r \in Role : BeginReset(a, r)
  <2>1. PICK r \in Role : BeginReset(a, r)
    BY <1>5
  <2>2. PICK h : h = [IdleAdmin EXCEPT !.op = "reset", !.pc = "resetDelete", !.role = r]
    OBVIOUS
  <2>3. h \in AdminState /\ AdminFits(h)
    BY <2>1, <2>2 DEF BeginReset, Resettable, IdleAdmin, AdminState, AdminFits, Operation, Effect
  <2>4. QED
    BY <2>1, <2>2, <2>3 DEF BeginReset
<1>6. CASE \E r \in Role : BeginRename(a, r)
  <2>1. PICK r \in Role : BeginRename(a, r)
    BY <1>6
  <2>2. PICK h : h = [IdleAdmin EXCEPT !.op = "rename", !.pc = "users", !.role = r]
    OBVIOUS
  <2>3. h \in AdminState /\ AdminFits(h)
    BY <2>2 DEF IdleAdmin, AdminState, AdminFits, Operation, Effect
  <2>4. QED
    BY <2>1, <2>2, <2>3 DEF BeginRename
<1>7. CASE \E r, t \in Role : BeginDelete(a, r, t)
  <2>1. PICK r \in Role, t \in Role : BeginDelete(a, r, t)
    BY <1>7
  <2>2. PICK users \in SUBSET User, force \in BOOLEAN :
          users = Holders(r) /\ force = (Holders(r) # {})
    BY DEF Holders
  <2>3. PICK h : h = [IdleAdmin EXCEPT !.op = "delete", !.pc = "next", !.role = r,
                                       !.target = t, !.users = users, !.force = force]
    OBVIOUS
  <2>4. h \in AdminState
    BY <2>3 DEF IdleAdmin, AdminState, Operation, Effect
  <2>5. AdminFits(h)
    BY <2>3 DEF IdleAdmin, AdminFits
  <2>6. Begin(a, h)
    BY <2>1, <2>2, <2>3, Zenon DEF BeginDelete
  <2>7. QED
    BY <2>4, <2>5, <2>6
<1>8. QED
  BY <1>2, <1>3, <1>4, <1>5, <1>6, <1>7

LEMMA MoveKeeps ==
  ASSUME RbacIInv, NEW a \in Admin,
         \/ RoleDelete(a) \/ OverrideDelete(a) \/ PermsDelete(a) \/ TakeUsers(a)
         \/ \E u \in User : MoveUser(a, u)
         \/ CheckUnused(a)
  PROVE  RbacIInv'
<1>1. /\ UNCHANGED <<tables, cache, reader>> /\ changes' \in 0..MaxChanges
      /\ admin[a] \in AdminState /\ AdminFits(admin[a])
  BY RbacTyped, AdminTyped
     DEF RoleDelete, OverrideDelete, PermsDelete, TakeUsers, MoveUser, CheckUnused
<1>2. SUFFICES \E h \in AdminState :
                 /\ AdminFits(h) /\ Owed(admin[a]) \subseteq Owed(h)
                 /\ admin' = [admin EXCEPT ![a] = h]
  BY <1>1, HandlerMoves
<1>3. CASE RoleDelete(a)
  <2>1. PICK seen \in Seen :
          seen = userRoles[admin[a].user]
    BY <1>1, <1>3, RbacTyped DEF Seen, RoleDelete, AdminAt, AdminFits
  <2>2. PICK h : h = [admin[a] EXCEPT !.pc = "roleCommit", !.seen = seen]
    OBVIOUS
  <2>3. h \in AdminState
    BY <1>1, <2>2 DEF AdminState, Seen
  <2>4. /\ h.pc = "roleCommit" /\ h.op = admin[a].op
        /\ h.perms = admin[a].perms /\ h.user = admin[a].user
        /\ h.role = admin[a].role /\ h.target = admin[a].target
    BY <1>1, <2>2 DEF AdminState
  <2>5. AdminFits(h) /\ Owed(admin[a]) = {}
    BY <1>1, <1>3, <2>4 DEF RoleDelete, AdminAt, AdminFits, Owed
  <2>6. admin' = [admin EXCEPT ![a] = h]
    BY <1>3, <2>1, <2>2 DEF RoleDelete
  <2>7. QED
    BY <2>3, <2>5, <2>6
<1>4. CASE OverrideDelete(a)
  <2>1. PICK seen \in Seen :
          admin' = [admin EXCEPT ![a].pc = "overrideCommit", ![a].seen = seen]
    BY <1>4 DEF Seen, OverrideDelete, EffectsOf
  <2>2. PICK h : h = [admin[a] EXCEPT !.pc = "overrideCommit", !.seen = seen]
    OBVIOUS
  <2>3. h \in AdminState
    BY <1>1, <2>2 DEF AdminState, Seen
  <2>4. /\ h.pc = "overrideCommit" /\ h.op = admin[a].op
        /\ h.perms = admin[a].perms /\ h.user = admin[a].user
        /\ h.role = admin[a].role /\ h.target = admin[a].target
    BY <1>1, <2>2 DEF AdminState
  <2>5. AdminFits(h) /\ Owed(admin[a]) = {}
    BY <1>1, <1>4, <2>4 DEF OverrideDelete, AdminAt, AdminFits, Owed, AdminState
  <2>6. admin' = [admin EXCEPT ![a] = h]
    BY <2>1, <2>2
  <2>7. QED
    BY <2>3, <2>5, <2>6
<1>5. CASE PermsDelete(a)
  <2>1. PICK seen \in Seen :
          seen = roles[admin[a].role].perms
    BY <1>1, <1>5, RbacTyped DEF Seen, PermsDelete, AdminAt, AdminFits, RoleRow
  <2>2. PICK h : h = [admin[a] EXCEPT !.pc = "permsCommit", !.seen = seen]
    OBVIOUS
  <2>3. h \in AdminState
    BY <1>1, <2>2 DEF AdminState, Seen
  <2>4. /\ h.pc = "permsCommit" /\ h.op = admin[a].op
        /\ h.perms = admin[a].perms /\ h.user = admin[a].user
        /\ h.role = admin[a].role /\ h.target = admin[a].target
    BY <1>1, <2>2 DEF AdminState
  <2>5. AdminFits(h) /\ Owed(admin[a]) = {}
    BY <1>1, <1>5, <2>4 DEF PermsDelete, AdminAt, AdminFits, Owed
  <2>6. admin' = [admin EXCEPT ![a] = h]
    BY <1>5, <2>1, <2>2 DEF PermsDelete
  <2>7. QED
    BY <2>3, <2>5, <2>6
<1>6. CASE TakeUsers(a)
  <2>1. PICK todo \in SUBSET User : todo = Holders(admin[a].role)
    BY DEF Holders
  <2>2. Owed(admin[a]) = todo
    BY <1>6, <2>1 DEF TakeUsers, AdminAt, Owed
  <2>3. PICK h \in AdminState :
          h = Invalidating(admin[a], todo) /\ AdminFits(h) /\ Owed(h) = todo
    BY <1>1, InvalidatingFits
  <2>4. admin' = [admin EXCEPT ![a] = h]
    BY <1>6, <2>1, <2>3 DEF TakeUsers
  <2>5. QED
    BY <2>2, <2>3, <2>4
<1>7. ASSUME NEW u \in User, MoveUser(a, u)
      PROVE  \E h \in AdminState :
               /\ AdminFits(h) /\ Owed(admin[a]) \subseteq Owed(h)
               /\ admin' = [admin EXCEPT ![a] = h]
  <2>1. Owed(admin[a]) = {} /\ admin[a].op = "delete"
    BY <1>1, <1>7 DEF MoveUser, AdminAt, Owed, AdminFits
  <2>2. CASE LiveRole(admin[a].target)
    <3>1. PICK users \in SUBSET User : users = admin[a].users \ {u}
      BY <1>1 DEF AdminState
    <3>2. PICK h : h = [[admin[a] EXCEPT !.users = users] EXCEPT
                          !.pc = "roleDelete", !.user = u, !.target = admin[a].target]
      OBVIOUS
    <3>3. h \in AdminState
      BY <1>1, <3>2 DEF AdminState
    <3>4. /\ h.pc = "roleDelete" /\ h.op = admin[a].op /\ h.user = u
          /\ h.role = admin[a].role /\ h.target = admin[a].target
      BY <1>1, <3>2 DEF AdminState
    <3>5. AdminFits(h)
      BY <1>1, <2>1, <3>4 DEF AdminFits
    <3>6. admin' = [admin EXCEPT ![a] = h]
      BY <1>7, <2>2, <3>1, <3>2 DEF MoveUser, Assigning
    <3>7. QED
      BY <2>1, <3>3, <3>5, <3>6
  <2>3. CASE ~LiveRole(admin[a].target)
    BY <1>7, <2>1, <2>3, IdleFits DEF MoveUser
  <2>4. QED
    BY <2>2, <2>3
<1>8. CASE CheckUnused(a)
  <2>1. Owed(admin[a]) = {} /\ admin[a].op = "delete"
    BY <1>1, <1>8 DEF CheckUnused, AdminAt, Owed, AdminFits
  <2>2. "deleteRow" \in Pc
    BY DEF Pc
  <2>3. PICK h \in AdminState :
          /\ h = [admin[a] EXCEPT !.pc = "deleteRow"] /\ h.pc = "deleteRow"
          /\ h.op = admin[a].op /\ h.user = admin[a].user
          /\ h.role = admin[a].role /\ h.target = admin[a].target
    BY <1>1, <2>2, Steps
  <2>4. AdminFits(h)
    BY <1>1, <2>1, <2>3 DEF AdminFits
  <2>5. \/ admin' = [admin EXCEPT ![a] = h]
        \/ admin' = [admin EXCEPT ![a] = IdleAdmin]
    BY <1>8, <2>3 DEF CheckUnused
  <2>6. QED
    BY <2>1, <2>4, <2>5, IdleFits
<1>9. QED
  BY <1>3, <1>4, <1>5, <1>6, <1>7, <1>8

-----------------------------------------------------------------------------
(***************************************************************************)
(* Handlers that change a table owe an invalidation to all it concerns.    *)
(***************************************************************************)

\* The commit of a transaction takes rows from others, which go on as before.
LEMMA CommitFits ==
  ASSUME RbacIInv, NEW a \in Admin, NEW h \in AdminState, AdminFits(h),
         NEW gone, NEW others \in SUBSET Admin, Committed(a, h, gone, others)
  PROVE  /\ admin' \in [Admin -> AdminState] /\ AdminsFit' /\ admin'[a] = h
         /\ \A b \in Admin \ {a} :
              /\ admin'[b].pc = admin[b].pc /\ admin'[b].role = admin[b].role
              /\ admin'[b].todo = admin[b].todo
<1>1. ASSUME NEW b \in Admin
      PROVE  /\ admin'[b] \in AdminState /\ AdminFits(admin'[b])
             /\ b = a => admin'[b] = h
             /\ b # a => /\ admin'[b].pc = admin[b].pc /\ admin'[b].role = admin[b].role
                         /\ admin'[b].todo = admin[b].todo
  <2>1. admin[b] \in AdminState /\ AdminFits(admin[b])
    BY AdminTyped
  <2>2. CASE b = a
    BY <2>2 DEF Committed
  <2>3. CASE b # a /\ b \notin others
    BY <2>1, <2>3 DEF Committed
  <2>4. CASE b # a /\ b \in others
    <3>1. PICK less : less = admin[b].seen \ gone
      OBVIOUS
    <3>2. PICK s : s = [admin[b] EXCEPT !.seen = less]
      OBVIOUS
    <3>3. less \in Seen
      BY <2>1, <3>1 DEF AdminState, Seen
    <3>4. s \in AdminState
      BY <2>1, <3>2, <3>3 DEF AdminState, Seen
    <3>5. /\ s.pc = admin[b].pc /\ s.op = admin[b].op /\ s.user = admin[b].user
          /\ s.role = admin[b].role /\ s.target = admin[b].target
          /\ s.perms = admin[b].perms /\ s.todo = admin[b].todo
      BY <2>1, <3>2 DEF AdminState
    <3>6. AdminFits(s)
      BY <2>1, <3>5 DEF AdminFits
    <3>7. admin'[b] = s
      BY <2>4, <3>1, <3>2 DEF Committed
    <3>8. QED
      BY <2>4, <3>4, <3>5, <3>6, <3>7
  <2>5. QED
    BY <2>2, <2>3, <2>4
<1>2. admin' \in [Admin -> AdminState]
  BY <1>1 DEF Committed
<1>3. AdminsFit'
  BY <1>1 DEF AdminsFit, AdminFits
<1>4. QED
  BY <1>1, <1>2, <1>3

\* A user's rows are changed by a handler that will invalidate him.
LEMMA UserChanged ==
  ASSUME RbacIInv, NEW a \in Admin, NEW u \in User,
         NEW h \in AdminState, AdminFits(h), h.pc = "invalidate", h.todo = {u},
         NEW gone, NEW others \in SUBSET Admin, Committed(a, h, gone, others),
         Owed(admin[a]) = {},
         NEW held \in SUBSET Role, \A r \in held : LiveRole(r),
         userRoles' = [userRoles EXCEPT ![u] = held],
         NEW row \in SUBSET (Permission \X Effect), overrides' = [overrides EXCEPT ![u] = row],
         UNCHANGED <<roles, cache, reader>>, changes' \in 0..MaxChanges
  PROVE  RbacIInv'
<1>1. /\ admin' \in [Admin -> AdminState] /\ AdminsFit' /\ admin'[a] = h
      /\ \A b \in Admin \ {a} :
           /\ admin'[b].pc = admin[b].pc /\ admin'[b].role = admin[b].role
           /\ admin'[b].todo = admin[b].todo
  BY CommitFits
<1>2. RbacTypeOK'
  BY <1>1, RbacTyped DEF RbacTypeOK
<1>3. HeldRolesLive'
  BY RbacTyped DEF RbacIInv, HeldRolesLive, LiveRole
<1>4. ReadersFit'
  BY DEF RbacIInv, ReadersFit
<1>5. ASSUME NEW v \in User
      PROVE  StillCovered(v)
  <2>1. CASE v = u
    <3>1. IsOwed(u)'
      BY <1>1 DEF IsOwed, Owed
    <3>2. QED
      BY <2>1, <3>1 DEF StillCovered
  <2>2. CASE v # u
    <3>1. userRoles'[v] = userRoles[v] /\ overrides'[v] = overrides[v]
      BY <2>2, RbacTyped
    <3>2. Effective(v)' = Effective(v)
      BY <3>1, EffectiveKept
    <3>3. ASSUME IsOwed(v) PROVE IsOwed(v)'
      <4>1. PICK b \in Admin : v \in Owed(admin[b])
        BY <3>3 DEF IsOwed
      <4>2. b # a
        BY <4>1
      <4>3. v \in Owed(admin[b])'
        BY <1>1, <3>1, <4>1, <4>2 DEF Owed, Holders
      <4>4. QED
        BY <4>3 DEF IsOwed
    <3>4. QED
      BY <3>1, <3>2, <3>3 DEF StillCovered
  <2>3. QED
    BY <2>1, <2>2
<1>6. EntriesCovered'
  BY <1>5, EntriesKept
<1>7. QED
  BY <1>1, <1>2, <1>3, <1>4, <1>6 DEF RbacIInv

\* A role is changed by a handler that will invalidate all who have it.
LEMMA RoleChanged ==
  ASSUME RbacIInv, NEW a \in Admin, NEW r \in Role,
         NEW h \in AdminState, AdminFits(h), h.pc \in {"resetCreate", "users"}, h.role = r,
         NEW gone, NEW others \in SUBSET Admin, Committed(a, h, gone, others),
         Owed(admin[a]) \subseteq Holders(r),
         NEW row \in RoleRow, roles' = [roles EXCEPT ![r] = row],
         LiveRole(r) => row.state = "live",
         UNCHANGED <<userRoles, overrides, cache, reader>>, changes' \in 0..MaxChanges
  PROVE  RbacIInv'
<1>1. /\ admin' \in [Admin -> AdminState] /\ AdminsFit' /\ admin'[a] = h
      /\ \A b \in Admin \ {a} :
           /\ admin'[b].pc = admin[b].pc /\ admin'[b].role = admin[b].role
           /\ admin'[b].todo = admin[b].todo
  BY CommitFits
<1>2. RbacTypeOK'
  BY <1>1, RbacTyped DEF RbacTypeOK
<1>3. HeldRolesLive'
  BY RbacTyped DEF RbacIInv, HeldRolesLive, LiveRole
<1>4. ReadersFit'
  BY DEF RbacIInv, ReadersFit
<1>5. ASSUME NEW v \in User
      PROVE  StillCovered(v)
  <2>1. CASE v \in Holders(r)
    <3>1. IsOwed(v)'
      BY <1>1, <2>1 DEF IsOwed, Owed, Holders
    <3>2. QED
      BY <3>1 DEF StillCovered
  <2>2. CASE v \notin Holders(r)
    <3>1. userRoles'[v] = userRoles[v] /\ overrides'[v] = overrides[v]
      OBVIOUS
    <3>2. \A s \in userRoles[v] : roles'[s].perms = roles[s].perms
      BY <2>2, RbacTyped DEF Holders
    <3>3. Effective(v)' = Effective(v)
      BY <3>1, <3>2, EffectiveKept
    <3>4. ASSUME IsOwed(v) PROVE IsOwed(v)'
      <4>1. PICK b \in Admin : v \in Owed(admin[b])
        BY <3>4 DEF IsOwed
      <4>2. b # a
        BY <2>2, <4>1
      <4>3. v \in Owed(admin[b])'
        BY <1>1, <3>1, <4>1, <4>2 DEF Owed, Holders
      <4>4. QED
        BY <4>3 DEF IsOwed
    <3>5. QED
      BY <3>1, <3>3, <3>4 DEF StillCovered
  <2>3. QED
    BY <2>1, <2>2
<1>6. EntriesCovered'
  BY <1>5, EntriesKept
<1>7. QED
  BY <1>1, <1>2, <1>3, <1>4, <1>6 DEF RbacIInv

LEMMA InvalidatingOne ==
  ASSUME NEW h \in AdminState, AdminFits(h), NEW u \in User
  PROVE  \E s \in AdminState :
           s = Invalidating(h, {u}) /\ AdminFits(s) /\ s.pc = "invalidate" /\ s.todo = {u}
<1>1. PICK s : s = [h EXCEPT !.pc = "invalidate", !.todo = {u}]
  OBVIOUS
<1>2. s \in AdminState
  BY <1>1 DEF AdminState
<1>3. /\ s.pc = "invalidate" /\ s.todo = {u} /\ s.op = h.op /\ s.role = h.role
      /\ s.target = h.target
  BY <1>1 DEF AdminState
<1>4. AdminFits(s)
  BY <1>3 DEF AdminFits
<1>5. s = Invalidating(h, {u})
  BY <1>1 DEF Invalidating
<1>6. QED
  BY <1>2, <1>3, <1>4, <1>5

\* A transaction is rolled back, and its handler fails.
LEMMA FailKeeps ==
  ASSUME RbacIInv, NEW a \in Admin, Fails(a), UNCHANGED <<cache, reader, changes>>,
         Owed(admin[a]) = {}
  PROVE  RbacIInv'
BY IdleFits, RbacTyped, HandlerMoves DEF Fails

LEMMA RoleCommitKeeps ==
  ASSUME RbacIInv, NEW a \in Admin, RoleCommit(a)
  PROVE  RbacIInv'
<1>1. /\ admin[a] \in AdminState /\ AdminFits(admin[a]) /\ admin[a].pc = "roleCommit"
      /\ UNCHANGED <<cache, reader, changes>>
  BY AdminTyped DEF RoleCommit, AdminAt
<1>2. Owed(admin[a]) = {}
  BY <1>1 DEF Owed
<1>3. PICK u \in User, t \in Role : u = admin[a].user /\ t = admin[a].target
  BY <1>1 DEF AdminFits
<1>4. PICK kept : kept = userRoles[u] \ admin[a].seen
  OBVIOUS
<1>5. PICK others \in SUBSET Admin :
        others = {b \in Admin : AdminAt(b, "roleCommit") /\ admin[b].user = u}
  OBVIOUS
<1>6. CASE /\ LiveRole(t)
           /\ userRoles' = [userRoles EXCEPT ![u] = kept \union {t}]
           /\ Committed(a, Invalidating(admin[a], {u}), admin[a].seen, others)
           /\ UNCHANGED <<roles, overrides>>
  <2>1. PICK h \in AdminState :
          /\ h = Invalidating(admin[a], {u}) /\ AdminFits(h)
          /\ h.pc = "invalidate" /\ h.todo = {u}
    BY <1>1, InvalidatingOne
  <2>2. PICK gone : gone = admin[a].seen
    OBVIOUS
  <2>3. Committed(a, h, gone, others)
    BY <1>6, <2>1, <2>2
  <2>4. PICK held \in SUBSET Role : held = kept \union {t}
    BY <1>4, RbacTyped
  <2>5. \A r \in held : LiveRole(r)
    BY <1>4, <1>6, <2>4 DEF RbacIInv, HeldRolesLive
  <2>6. userRoles' = [userRoles EXCEPT ![u] = held]
    BY <1>6, <2>4
  <2>7. PICK row \in SUBSET (Permission \X Effect) :
          row = overrides[u] /\ overrides' = [overrides EXCEPT ![u] = row]
    BY <1>6, RbacTyped
  <2>8. UNCHANGED <<roles, cache, reader>> /\ changes' \in 0..MaxChanges
    BY <1>1, <1>6, RbacTyped
  <2>9. QED
    BY <1>2, <2>1, <2>3, <2>5, <2>6, <2>7, <2>8, UserChanged
<1>7. CASE Fails(a)
  BY <1>1, <1>2, <1>7, FailKeeps
<1>8. QED
  BY <1>3, <1>4, <1>5, <1>6, <1>7 DEF RoleCommit

LEMMA OverrideCommitKeeps ==
  ASSUME RbacIInv, NEW a \in Admin, OverrideCommit(a)
  PROVE  RbacIInv'
<1>1. /\ admin[a] \in AdminState /\ AdminFits(admin[a]) /\ admin[a].pc = "overrideCommit"
      /\ UNCHANGED <<cache, reader, changes>>
  BY AdminTyped DEF OverrideCommit, AdminAt
<1>2. Owed(admin[a]) = {}
  BY <1>1 DEF Owed
<1>3. PICK u \in User, e \in Effect : u = admin[a].user /\ e = admin[a].effect
  BY <1>1 DEF AdminFits, AdminState
<1>4. ASSUME NEW p \in Permission, NEW less, less = {p} \X admin[a].seen,
             overrides' = [overrides EXCEPT ![u] = (overrides[u] \ less) \union {<<p, e>>}],
             Committed(a, Invalidating(admin[a], {u}), admin[a].seen, Overriding(u, p)),
             UNCHANGED <<roles, userRoles>>
      PROVE  RbacIInv'
  <2>1. PICK h \in AdminState :
          /\ h = Invalidating(admin[a], {u}) /\ AdminFits(h)
          /\ h.pc = "invalidate" /\ h.todo = {u}
    BY <1>1, InvalidatingOne
  <2>2. PICK gone : gone = admin[a].seen
    OBVIOUS
  <2>3. PICK others \in SUBSET Admin : others = Overriding(u, p)
    BY DEF Overriding
  <2>4. Committed(a, h, gone, others)
    BY <1>4, <2>1, <2>2, <2>3
  <2>5. PICK row \in SUBSET (Permission \X Effect) :
          row = (overrides[u] \ less) \union {<<p, e>>}
    <3>1. <<p, e>> \in Permission \X Effect
      OBVIOUS
    <3>2. overrides[u] \in SUBSET (Permission \X Effect)
      BY RbacTyped
    <3>3. QED
      BY <3>1, <3>2
  <2>6. overrides' = [overrides EXCEPT ![u] = row]
    BY <1>4, <2>5
  <2>7. PICK held \in SUBSET Role :
          held = userRoles[u] /\ userRoles' = [userRoles EXCEPT ![u] = held]
    BY <1>4, RbacTyped
  <2>8. \A r \in held : LiveRole(r)
    BY <2>7 DEF RbacIInv, HeldRolesLive
  <2>9. UNCHANGED <<roles, cache, reader>> /\ changes' \in 0..MaxChanges
    BY <1>1, <1>4, RbacTyped
  <2>10. QED
    BY <1>2, <2>1, <2>4, <2>6, <2>7, <2>8, <2>9, UserChanged
<1>5. CASE Fails(a)
  BY <1>1, <1>2, <1>5, FailKeeps
<1>6. CASE \E p \in admin[a].perms :
             /\ overrides' = [overrides EXCEPT ![u] =
                  (overrides[u] \ ({p} \X admin[a].seen)) \union {<<p, e>>}]
             /\ Committed(a, Invalidating(admin[a], {u}), admin[a].seen, Overriding(u, p))
             /\ UNCHANGED <<roles, userRoles>>
  BY <1>1, <1>4, <1>6 DEF AdminState
<1>7. QED
  BY <1>3, <1>5, <1>6 DEF OverrideCommit

LEMMA ClearOverrideKeeps ==
  ASSUME RbacIInv, NEW a \in Admin, NEW u \in User, NEW p \in Permission,
         ClearOverride(a, u, p)
  PROVE  RbacIInv'
<1>1. Owed(admin[a]) = {} /\ changes' \in 0..MaxChanges
      /\ UNCHANGED <<roles, userRoles, cache, reader>>
  BY RbacTyped DEF ClearOverride, Begins, AdminAt, Owed
<1>2. PICK begun \in AdminState : begun = [IdleAdmin EXCEPT !.op = "override"] /\ AdminFits(begun)
  <2>1. PICK begun : begun = [IdleAdmin EXCEPT !.op = "override"]
    OBVIOUS
  <2>2. begun \in AdminState
    BY <2>1 DEF IdleAdmin, AdminState, Operation, Effect
  <2>3. AdminFits(begun)
    BY <2>1 DEF IdleAdmin, AdminFits
  <2>4. QED
    BY <2>1, <2>2, <2>3
<1>3. PICK h \in AdminState :
        /\ h = Invalidating(begun, {u}) /\ AdminFits(h)
        /\ h.pc = "invalidate" /\ h.todo = {u}
  BY <1>2, InvalidatingOne
<1>4. PICK gone : gone = EffectsOf(u, p)
  OBVIOUS
<1>5. PICK others \in SUBSET Admin : others = Overriding(u, p)
  BY DEF Overriding
<1>6. Committed(a, h, gone, others)
  BY <1>2, <1>3, <1>4, <1>5 DEF ClearOverride
<1>7. PICK row \in SUBSET (Permission \X Effect) : row = overrides[u] \ ({p} \X Effect)
  BY RbacTyped
<1>8. overrides' = [overrides EXCEPT ![u] = row]
  BY <1>7 DEF ClearOverride
<1>9. PICK held \in SUBSET Role :
        held = userRoles[u] /\ userRoles' = [userRoles EXCEPT ![u] = held]
  BY <1>1, RbacTyped
<1>10. \A r \in held : LiveRole(r)
  BY <1>9 DEF RbacIInv, HeldRolesLive
<1>11. QED
  BY <1>1, <1>3, <1>6, <1>8, <1>9, <1>10, UserChanged

LEMMA PermsCommitKeeps ==
  ASSUME RbacIInv, NEW a \in Admin, PermsCommit(a)
  PROVE  RbacIInv'
<1>1. /\ admin[a] \in AdminState /\ AdminFits(admin[a]) /\ admin[a].pc = "permsCommit"
      /\ UNCHANGED <<cache, reader, changes>> /\ Owed(admin[a]) = {}
  BY AdminTyped DEF PermsCommit, AdminAt, Owed
<1>2. PICK r \in Role : r = admin[a].role
  BY <1>1 DEF AdminFits
<1>3. CASE /\ roles' = [roles EXCEPT ![r].perms =
                (roles[r].perms \ admin[a].seen) \union admin[a].perms]
           /\ Committed(a, [admin[a] EXCEPT !.pc = "users"], admin[a].seen, Replacing(r))
           /\ UNCHANGED <<userRoles, overrides>>
  <2>1. "users" \in Pc
    BY DEF Pc
  <2>2. PICK h \in AdminState :
          /\ h = [admin[a] EXCEPT !.pc = "users"] /\ h.pc = "users" /\ h.op = admin[a].op
          /\ h.user = admin[a].user /\ h.role = r /\ h.target = admin[a].target
    BY <1>1, <1>2, <2>1, Steps
  <2>3. AdminFits(h)
    BY <1>1, <2>2 DEF AdminFits
  <2>4. PICK gone, others : gone = admin[a].seen /\ others = Replacing(r)
    OBVIOUS
  <2>5. Committed(a, h, gone, others) /\ others \in SUBSET Admin
    BY <1>3, <2>2, <2>4 DEF Replacing
  <2>6. PICK perms \in SUBSET Permission :
          perms = (roles[r].perms \ admin[a].seen) \union admin[a].perms
    BY <1>1, RbacTyped DEF RoleRow, AdminState
  <2>7. PICK row : row = [roles[r] EXCEPT !.perms = perms]
    OBVIOUS
  <2>8. row \in RoleRow /\ row.state = roles[r].state
    BY <2>7, RbacTyped DEF RoleRow
  <2>9. roles' = [roles EXCEPT ![r] = row]
    BY <1>3, <2>6, <2>7
  <2>10. UNCHANGED <<userRoles, overrides, cache, reader>> /\ changes' \in 0..MaxChanges
    BY <1>1, <1>3, RbacTyped
  <2>11. QED
    BY <1>1, <2>2, <2>3, <2>5, <2>8, <2>9, <2>10, RoleChanged DEF LiveRole
<1>4. CASE Fails(a)
  BY <1>1, <1>4, FailKeeps
<1>5. QED
  BY <1>2, <1>3, <1>4 DEF PermsCommit

\* A reset is two changes of the role, and a handler that owes in between.
LEMMA ResetKeeps ==
  ASSUME RbacIInv, NEW a \in Admin, ResetDelete(a) \/ ResetCreate(a)
  PROVE  RbacIInv'
<1>1. /\ admin[a] \in AdminState /\ AdminFits(admin[a])
      /\ admin[a].pc \in {"resetDelete", "resetCreate"}
      /\ UNCHANGED <<userRoles, overrides, cache, reader>> /\ changes' \in 0..MaxChanges
  BY AdminTyped, RbacTyped DEF ResetDelete, ResetCreate, AdminAt
<1>2. PICK r \in SystemRole : r = admin[a].role
  BY <1>1 DEF AdminFits
<1>3. Owed(admin[a]) \subseteq Holders(r) /\ r \in Role
  BY <1>1, <1>2 DEF Owed
<1>4. CASE ResetDelete(a)
  <2>1. "resetCreate" \in Pc
    BY DEF Pc
  <2>2. PICK h \in AdminState :
          /\ h = [admin[a] EXCEPT !.pc = "resetCreate"] /\ h.pc = "resetCreate"
          /\ h.op = admin[a].op /\ h.user = admin[a].user /\ h.role = r
          /\ h.target = admin[a].target
    BY <1>1, <1>2, <2>1, Steps
  <2>3. AdminFits(h)
    BY <1>1, <2>2 DEF AdminFits
  <2>4. PICK gone, others : gone = roles[r].perms /\ others = Replacing(r)
    OBVIOUS
  <2>5. Committed(a, h, gone, others) /\ others \in SUBSET Admin
    BY <1>2, <1>4, <2>2, <2>4 DEF ResetDelete, Replacing
  <2>6. PICK row : row = [roles[r] EXCEPT !.perms = {}]
    OBVIOUS
  <2>7. row \in RoleRow /\ row.state = roles[r].state
    BY <1>3, <2>6, RbacTyped DEF RoleRow
  <2>8. roles' = [roles EXCEPT ![r] = row]
    BY <1>2, <1>4, <2>6 DEF ResetDelete
  <2>9. QED
    BY <1>1, <1>3, <2>2, <2>3, <2>5, <2>7, <2>8, RoleChanged DEF LiveRole
<1>5. CASE ResetCreate(a)
  <2>1. "users" \in Pc
    BY DEF Pc
  <2>2. PICK h \in AdminState :
          /\ h = [admin[a] EXCEPT !.pc = "users"] /\ h.pc = "users"
          /\ h.op = admin[a].op /\ h.user = admin[a].user /\ h.role = r
          /\ h.target = admin[a].target
    BY <1>1, <1>2, <2>1, Steps
  <2>3. AdminFits(h)
    BY <1>1, <1>3, <2>2 DEF AdminFits
  <2>4. Committed(a, h, {}, {})
    BY <1>5, <2>2, RbacTyped DEF ResetCreate, Committed
  <2>5. PICK perms \in SUBSET Permission : perms = roles[r].perms \union Defaults[r]
    BY <1>3, RbacTyped DEF RoleRow
  <2>6. PICK row : row = [roles[r] EXCEPT !.perms = perms]
    OBVIOUS
  <2>7. row \in RoleRow /\ row.state = roles[r].state
    BY <1>3, <2>6, RbacTyped DEF RoleRow
  <2>8. roles' = [roles EXCEPT ![r] = row]
    BY <1>2, <1>5, <2>5, <2>6 DEF ResetCreate
  <2>9. QED
    <3>1. PICK gone, others : gone = {} /\ others = {}
      OBVIOUS
    <3>2. Committed(a, h, gone, others) /\ others \in SUBSET Admin
      BY <2>4, <3>1
    <3>3. LiveRole(r) => row.state = "live"
      BY <2>7 DEF LiveRole
    <3>4. QED
      BY <1>1, <1>3, <2>2, <2>3, <2>7, <2>8, <3>2, <3>3, RoleChanged
<1>6. QED
  BY <1>4, <1>5

LEMMA CreateRoleKeeps ==
  ASSUME RbacIInv, NEW a \in Admin, NEW r \in Role, NEW perms \in SUBSET Permission,
         CreateRole(a, r, perms)
  PROVE  RbacIInv'
<1>1. /\ Owed(admin[a]) = {} /\ changes' \in 0..MaxChanges
      /\ UNCHANGED <<userRoles, overrides, cache, reader>>
  BY RbacTyped DEF CreateRole, Begins, AdminAt, Owed
<1>2. PICK h : h = [IdleAdmin EXCEPT !.op = "create", !.pc = "users", !.role = r]
  OBVIOUS
<1>3. h \in AdminState
  BY <1>2 DEF IdleAdmin, AdminState, Operation, Effect
<1>4. AdminFits(h) /\ h.pc = "users" /\ h.role = r
  BY <1>2 DEF IdleAdmin, AdminFits
<1>5. Committed(a, h, {}, {})
  BY <1>2, RbacTyped DEF CreateRole, Committed
<1>6. PICK row : row = [state |-> "live", perms |-> perms]
  OBVIOUS
<1>7. row \in RoleRow /\ row.state = "live" /\ roles' = [roles EXCEPT ![r] = row]
  BY <1>6 DEF RoleRow, CreateRole
<1>8. QED
  BY <1>1, <1>3, <1>4, <1>5, <1>7, RoleChanged

-----------------------------------------------------------------------------
(***************************************************************************)
(* Invalidations that come, and those that never will.                     *)
(***************************************************************************)

\* A handler is done with some users, which are marked; the others it still owes.
LEMMA MarkKeeps ==
  ASSUME RbacIInv, NEW a \in Admin, NEW h \in AdminState, AdminFits(h),
         admin' = [admin EXCEPT ![a] = h], NEW late \in SUBSET User,
         MarkReadersLate(late),
         cache' \in [User -> Entry \union {NoEntry}],
         \A u \in User : cache'[u] # NoEntry =>
           IF u \in late THEN cache'[u].late ELSE cache'[u] = cache[u],
         Owed(admin[a]) \subseteq Owed(h) \union late,
         UNCHANGED <<tables, changes>>
  PROVE  RbacIInv'
<1>1. UNCHANGED <<roles, userRoles, overrides>>
  BY DEF tables
<1>2. admin' \in [Admin -> AdminState] /\ AdminsFit'
  BY RbacTyped, AdminTyped DEF AdminsFit
<1>3. \A u \in User \ late : StillCovered(u)
  <2>1. \A b \in Admin : admin'[b] = IF b = a THEN h ELSE admin[b]
    BY RbacTyped
  <2>2. \A u \in User \ late : IsOwed(u) => \E b \in Admin : u \in Owed(admin'[b])
    BY <2>1 DEF IsOwed
  <2>3. \A u \in User \ late : IsOwed(u) => IsOwed(u)'
    BY <1>1, <2>2 DEF IsOwed, Owed, Holders
  <2>4. QED
    BY <1>1, <2>3 DEF StillCovered, Effective
<1>4. EntriesCovered'
  BY <1>3, EntriesMarked
<1>5. reader' \in [Reader -> ReaderState] /\ ReadersFit'
  BY ReadersMarked
<1>6. HeldRolesLive'
  BY <1>1 DEF RbacIInv, HeldRolesLive, LiveRole
<1>7. RbacTypeOK'
  BY <1>1, <1>2, <1>5, RbacTyped DEF RbacTypeOK
<1>8. QED
  BY <1>2, <1>4, <1>5, <1>6, <1>7 DEF RbacIInv

LEMMA InvalidateKeeps ==
  ASSUME RbacIInv, NEW a \in Admin, NEW u \in User, InvalidateUser(a, u)
  PROVE  RbacIInv'
<1>1. admin[a] \in AdminState /\ AdminFits(admin[a]) /\ admin[a].pc = "invalidate"
  BY AdminTyped DEF InvalidateUser, AdminAt
<1>2. PICK todo \in SUBSET User : todo = admin[a].todo \ {u}
  BY <1>1 DEF AdminState
<1>3. PICK h \in AdminState :
        h = Invalidating(admin[a], todo) /\ AdminFits(h) /\ Owed(h) = todo
  BY <1>1, InvalidatingFits
<1>4. admin' = [admin EXCEPT ![a] = h]
  BY <1>2, <1>3 DEF InvalidateUser
<1> DEFINE late == {u}
<1>5. late \in SUBSET User /\ Owed(admin[a]) \subseteq Owed(h) \union late
  BY <1>1, <1>2, <1>3 DEF Owed
<1>6. /\ cache' = [cache EXCEPT ![u] = NoEntry] /\ MarkReadersLate(late)
      /\ UNCHANGED <<tables, changes>>
  BY DEF InvalidateUser
<1>7. /\ cache' \in [User -> Entry \union {NoEntry}]
      /\ \A v \in User : cache'[v] # NoEntry =>
           IF v \in late THEN cache'[v].late ELSE cache'[v] = cache[v]
  BY <1>6, RbacTyped
<1> HIDE DEF late
<1>8. h \in AdminState /\ AdminFits(h) /\ MarkReadersLate(late) /\ UNCHANGED <<tables, changes>>
  BY <1>3, <1>6
<1>9. QED
  BY <1>4, <1>5, <1>7, <1>8, MarkKeeps

\* What is lost stays in the cache, marked.
LEMMA CacheMarked ==
  ASSUME RbacIInv, NEW late \in SUBSET User, NeverInvalidated(late)
  PROVE  /\ MarkReadersLate(late)
         /\ cache' \in [User -> Entry \union {NoEntry}]
         /\ \A u \in User : cache'[u] # NoEntry =>
              IF u \in late THEN cache'[u].late ELSE cache'[u] = cache[u]
<1>1. cache' = [u \in User |-> IF u \in late /\ cache[u] # NoEntry
                               THEN [cache[u] EXCEPT !.late = TRUE] ELSE cache[u]]
  BY DEF NeverInvalidated
<1>2. \A e \in Entry : [e EXCEPT !.late = TRUE] \in Entry /\ [e EXCEPT !.late = TRUE].late
  BY DEF Entry
<1>3. \A u \in User : cache[u] # NoEntry => cache[u] \in Entry
  BY RbacTyped
<1>4. QED
  BY <1>1, <1>2, <1>3, RbacTyped DEF NeverInvalidated

LEMMA AbortKeeps ==
  ASSUME RbacIInv, NEW a \in Admin, AbortAdmin(a)
  PROVE  RbacIInv'
<1>1. PICK late \in SUBSET User : late = Owed(admin[a])
  BY AdminTyped DEF Owed, Holders, AdminState
<1>2. /\ admin' = [admin EXCEPT ![a] = IdleAdmin] /\ NeverInvalidated(late)
      /\ UNCHANGED <<tables, changes>>
  BY <1>1 DEF AbortAdmin
<1>3. /\ MarkReadersLate(late)
      /\ cache' \in [User -> Entry \union {NoEntry}]
      /\ \A u \in User : cache'[u] # NoEntry =>
           IF u \in late THEN cache'[u].late ELSE cache'[u] = cache[u]
  BY <1>2, CacheMarked
<1>4. PICK h \in AdminState : h = IdleAdmin
  BY IdleFits
<1>5. AdminFits(h) /\ Owed(admin[a]) \subseteq Owed(h) \union late
  BY <1>1, <1>4, IdleFits
<1>6. /\ admin' = [admin EXCEPT ![a] = h] /\ UNCHANGED <<tables, changes>>
      /\ AdminFits(h) /\ MarkReadersLate(late)
  BY <1>2, <1>3, <1>4, <1>5
<1>7. QED
  BY <1>3, <1>5, <1>6, MarkKeeps, ZenonT(30)

\* The users a deleted role still had are marked, and the others have lost nothing.
LEMMA DeleteRowKeeps ==
  ASSUME RbacIInv, NEW a \in Admin, DeleteRow(a)
  PROVE  RbacIInv'
<1>1. /\ admin[a].pc = "deleteRow" /\ Owed(admin[a]) = {} /\ admin[a].role \in Role
      /\ UNCHANGED <<overrides, changes>>
  BY AdminTyped DEF DeleteRow, AdminAt, AdminFits, Owed
<1>2. PICK r \in Role : r = admin[a].role
  BY <1>1
<1>3. PICK late \in SUBSET User : late = Holders(r)
  BY DEF Holders
<1>4. /\ admin' = [admin EXCEPT ![a] = IdleAdmin]
      /\ roles' = [roles EXCEPT ![r] = [state |-> "deleted", perms |-> {}]]
      /\ userRoles' = [u \in User |-> userRoles[u] \ {r}]
      /\ NeverInvalidated(late)
  BY <1>2, <1>3 DEF DeleteRow
<1>5. /\ MarkReadersLate(late)
      /\ cache' \in [User -> Entry \union {NoEntry}]
      /\ \A u \in User : cache'[u] # NoEntry =>
           IF u \in late THEN cache'[u].late ELSE cache'[u] = cache[u]
  BY <1>4, CacheMarked
<1>6. ASSUME NEW v \in User \ late
      PROVE  StillCovered(v)
  <2>1. userRoles'[v] = userRoles[v] /\ r \notin userRoles[v]
    BY <1>3, <1>4 DEF Holders
  <2>2. \A s \in userRoles[v] : roles'[s].perms = roles[s].perms
    BY <1>4, <2>1, RbacTyped
  <2>3. Effective(v)' = Effective(v)
    BY <1>1, <2>1, <2>2, EffectiveKept
  <2>4. ASSUME IsOwed(v) PROVE IsOwed(v)'
    <3>1. PICK b \in Admin : v \in Owed(admin[b])
      BY <2>4 DEF IsOwed
    <3>2. admin'[b] = admin[b]
      BY <1>1, <1>4, <3>1, RbacTyped
    <3>3. v \in Owed(admin[b])'
      BY <2>1, <3>1, <3>2 DEF Owed, Holders
    <3>4. QED
      BY <3>3 DEF IsOwed
  <2>5. QED
    BY <2>1, <2>3, <2>4 DEF StillCovered
<1>7. EntriesCovered'
  BY <1>5, <1>6, EntriesMarked
<1>8. reader' \in [Reader -> ReaderState] /\ ReadersFit'
  BY <1>5, ReadersMarked
<1>9. HeldRolesLive'
  BY <1>4, RbacTyped DEF RbacIInv, HeldRolesLive, LiveRole
<1>10. admin' \in [Admin -> AdminState] /\ AdminsFit'
  BY <1>4, IdleFits, RbacTyped, AdminTyped DEF AdminsFit
<1>11. RbacTypeOK'
  <2>1. [state |-> "deleted", perms |-> {}] \in RoleRow
    BY DEF RoleRow
  <2>2. QED
    BY <1>1, <1>4, <1>5, <1>8, <1>10, <2>1, RbacTyped DEF RbacTypeOK
<1>12. QED
  BY <1>7, <1>8, <1>9, <1>10, <1>11 DEF RbacIInv

-----------------------------------------------------------------------------
LEMMA RbacStepInv == RbacIInv /\ [RbacNext]_rbacVars => RbacIInv'
<1> SUFFICES ASSUME RbacIInv, [RbacNext]_rbacVars
             PROVE  RbacIInv'
  OBVIOUS
<1>1. ASSUME NEW a \in Admin, AdminBegins(a)
      PROVE  RbacIInv'
  BY <1>1, QuietBeginKeeps, ClearOverrideKeeps, CreateRoleKeeps DEF AdminBegins
<1>2. ASSUME NEW a \in Admin, AdminStep(a)
      PROVE  RbacIInv'
  <2>1. CASE RoleDelete(a) \/ OverrideDelete(a) \/ PermsDelete(a) \/ TakeUsers(a)
             \/ (\E u \in User : MoveUser(a, u)) \/ CheckUnused(a)
    BY <2>1, MoveKeeps
  <2>2. CASE RoleCommit(a) \/ OverrideCommit(a)
    BY <2>2, RoleCommitKeeps, OverrideCommitKeeps
  <2>3. CASE PermsCommit(a) \/ ResetDelete(a) \/ ResetCreate(a)
    BY <2>3, PermsCommitKeeps, ResetKeeps
  <2>4. CASE (\E u \in User : InvalidateUser(a, u)) \/ DeleteRow(a)
    BY <2>4, InvalidateKeeps, DeleteRowKeeps
  <2>5. QED
    BY <1>2, <2>1, <2>2, <2>3, <2>4 DEF AdminStep
<1>3. ASSUME \/ \E q \in Reader, u \in User : BeginRead(q, u)
             \/ \E q \in Reader : LoadSnapshot(q) \/ Store(q) \/ AbortRead(q)
             \/ \E u \in User : Expire(u)
      PROVE  RbacIInv'
  <2>1. UNCHANGED <<tables, admin, changes>>
    BY <1>3 DEF BeginRead, LoadSnapshot, Store, AbortRead, Expire
  <2>2. QED
    BY <1>3, <2>1, ReaderKeeps
<1>4. CASE RbacNext
  BY <1>1, <1>2, <1>3, <1>4, AbortKeeps DEF RbacNext, ReaderStep
<1>5. CASE UNCHANGED rbacVars
  <2>1. UNCHANGED <<roles, userRoles, overrides, cache, reader, admin, changes>>
    BY <1>5 DEF rbacVars
  <2>2. \A u \in User : StillCovered(u)
    BY <2>1 DEF StillCovered, IsOwed, Owed, Holders, Effective
  <2>3. EntriesCovered'
    BY <2>1, <2>2, EntriesKept
  <2>4. QED
    BY <2>1, <2>3 DEF RbacIInv, RbacTypeOK, AdminsFit, ReadersFit, HeldRolesLive, LiveRole
<1>6. QED
  BY <1>4, <1>5

\* Roles, payloads, readers and handlers stay as RbacIInv says, crashes included.
THEOREM RbacInvariance == RbacSpec => []RbacIInv
  BY RbacInitInv, RbacStepInv, PTL DEF RbacSpec

\* Rows, cached payloads and the locals of readers and handlers keep their types.
THEOREM RbacTypeCorrect == RbacSpec => []RbacTypeOK
<1>1. RbacIInv => RbacTypeOK
  BY DEF RbacIInv
<1>2. QED
  BY <1>1, RbacInvariance, PTL

\* Every change invalidates everyone it concerns, whatever roles users change to
\* while it runs: an entry that is out of date is about to be removed, or was stored
\* late by a slow reader, or its invalidation was lost.
THEOREM RbacStaleIsOwedOrLate == RbacSpec => []StaleIsOwedOrLate
<1>1. RbacIInv => StaleIsOwedOrLate
  BY DEF RbacIInv, EntriesCovered, Covered, IsOwed, StaleIsOwedOrLate, Stale
<1>2. QED
  BY <1>1, RbacInvariance, PTL

\* A step that leaves a user with no role is the deletion of one he had.
LEMMA LastRoleDeleted ==
  ASSUME RbacIInv, [RbacNext]_rbacVars, NEW u \in User, userRoles[u] # {}, userRoles'[u] = {}
  PROVE  \E r \in userRoles[u] : LiveRole(r) /\ ~LiveRole(r)'
<1>1. PICK a \in Admin : RoleCommit(a) \/ DeleteRow(a)
  <2>1. ~UNCHANGED userRoles /\ ~UNCHANGED tables
    BY DEF tables
  <2>2. \A q \in Reader, v \in User :
          ~BeginRead(q, v) /\ ~ReaderStep(q) /\ ~AbortRead(q)
    BY <2>1 DEF BeginRead, ReaderStep, LoadSnapshot, Store, AbortRead
  <2>3. \A a \in Admin : ~AbortAdmin(a)
    BY <2>1 DEF AbortAdmin
  <2>4. \A a \in Admin : ~AdminBegins(a)
    BY <2>1 DEF AdminBegins, BeginAssign, BeginOverride, ClearOverride, BeginReplace,
                CreateRole, BeginReset, BeginRename, BeginDelete, Begin
  <2>5. \A a \in Admin : AdminStep(a) => RoleCommit(a) \/ DeleteRow(a)
    BY <2>1 DEF AdminStep, RoleDelete, OverrideDelete, OverrideCommit, PermsDelete,
                PermsCommit, ResetDelete, ResetCreate, TakeUsers, InvalidateUser,
                MoveUser, CheckUnused, Fails
  <2>6. ~UNCHANGED rbacVars
    BY <2>1 DEF rbacVars
  <2>7. \A v \in User : ~Expire(v)
    BY <2>1 DEF Expire
  <2>8. QED
    BY <2>2, <2>3, <2>4, <2>5, <2>6, <2>7 DEF RbacNext
<1>2. ASSUME RoleCommit(a)
      PROVE  FALSE
  BY <1>2, RbacTyped DEF RoleCommit, Fails, tables
<1>3. CASE DeleteRow(a)
  <2>1. PICK r \in Role : r = admin[a].role
    BY <1>3, AdminTyped DEF DeleteRow, AdminAt, AdminFits
  <2>2. /\ roles' = [roles EXCEPT ![r] = [state |-> "deleted", perms |-> {}]]
        /\ userRoles'[u] = userRoles[u] \ {r}
    BY <1>3, <2>1 DEF DeleteRow
  <2>3. r \in userRoles[u] /\ LiveRole(r)
    BY <2>2 DEF RbacIInv, HeldRolesLive
  <2>4. ~LiveRole(r)'
    BY <2>2, RbacTyped DEF LiveRole
  <2>5. QED
    BY <2>3, <2>4
<1>4. QED
  BY <1>1, <1>2, <1>3

\* Concurrent assignments never leave a user without the role either of them gave:
\* only the deletion of a role takes a user's last one.
THEOREM RbacAssignmentsNeverStrip == RbacSpec => AssignmentsNeverStrip
<1>1. RbacIInv /\ [RbacNext]_rbacVars
        => [\A u \in User :
              userRoles[u] # {} /\ userRoles'[u] = {}
                => \E r \in userRoles[u] : LiveRole(r) /\ ~LiveRole(r)']_rbacVars
  BY LastRoleDeleted
<1>2. QED
  BY <1>1, RbacInvariance, PTL DEF RbacSpec, AssignmentsNeverStrip
===============================================================================
