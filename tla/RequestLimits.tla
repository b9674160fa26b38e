------------------------------ MODULE RequestLimits ------------------------------
(***************************************************************************)
(* The in-memory counters that let a request pass: one per client address  *)
(* in rateLimiter and one per key in requireApiKey. Both count in a window *)
(* that the first request opens; the window is over when the clock is past *)
(* its end, not when it reaches it. Counters are lost with the process.    *)
(***************************************************************************)
EXTENDS Naturals, Sequences, FiniteSets, TLC

CONSTANTS
  Address,      \* client addresses
  KeyId,        \* ids of the ApiKey rows that may be created
  WindowMs,     \* RATE_LIMIT_WINDOW_MS
  MaxRequests,  \* RATE_LIMIT_MAX
  KeyWindowMs,  \* the minute of requireApiKey
  KeyLimit,     \* rateLimit of the keys
  MaxNow        \* bound: the last instant of a behaviour

ASSUME LimitsAssumption ==
  /\ {WindowMs, KeyWindowMs, MaxNow} \subseteq Nat
  /\ {MaxRequests, KeyLimit} \subseteq Nat \ {0}

VARIABLES
  now,        \* the clock
  bucket,     \* ipBuckets
  keyWindow,  \* keyRequestCounters
  passes,     \* history: when each address passed, since the process started
  keyPasses   \* history: when each key passed, since the process started

limitVars == <<now, bucket, keyWindow, passes, keyPasses>>

Window(max, span) == [count : 1..max, reset : span..(MaxNow + span)]

NoWindow == [count |-> 0, reset |-> 0]

LimitsTypeOK ==
  /\ now \in 0..MaxNow
  /\ bucket \in [Address -> Window(MaxRequests, WindowMs) \cup {NoWindow}]
  /\ keyWindow \in [KeyId -> Window(KeyLimit, KeyWindowMs) \cup {NoWindow}]
  /\ passes \in [Address -> Seq(0..MaxNow)]
  /\ keyPasses \in [KeyId -> Seq(0..MaxNow)]

CountersEmpty ==
  /\ bucket    = [a \in Address |-> NoWindow]
  /\ keyWindow = [k \in KeyId |-> NoWindow]
  /\ passes    = [a \in Address |-> << >>]
  /\ keyPasses = [k \in KeyId |-> << >>]

LimitsInit == now = 0 /\ CountersEmpty

Over(w) == w = NoWindow \/ now > w.reset

\* Mutant: a full window still lets one request pass.
FullLate(w, max) == ~Over(w) /\ w.count > max

Full(w, max) == ~Over(w) /\ w.count >= max

Counted(w, span) ==
  IF Over(w) THEN [count |-> 1, reset |-> now + span] ELSE [w EXCEPT !.count = @ + 1]

\* rateLimiter calls next() without an error.
Pass(a) ==
  /\ ~Full(bucket[a], MaxRequests)
  /\ bucket' = [bucket EXCEPT ![a] = Counted(@, WindowMs)]
  /\ passes' = [passes EXCEPT ![a] = Append(@, now)]
  /\ UNCHANGED <<now, keyWindow, keyPasses>>

\* The rate check of requireApiKey.
KeyPass(k) ==
  /\ ~Full(keyWindow[k], KeyLimit)
  /\ keyWindow' = [keyWindow EXCEPT ![k] = Counted(@, KeyWindowMs)]
  /\ keyPasses' = [keyPasses EXCEPT ![k] = Append(@, now)]
  /\ UNCHANGED <<now, bucket, passes>>

\* Mutant: the periodic cleanup drops every bucket.
CleanAllBuckets ==
  /\ bucket' = [a \in Address |-> NoWindow]
  /\ UNCHANGED <<now, keyWindow, passes, keyPasses>>

\* The interval of rateLimiter.ts deletes the buckets that are over.
CleanBuckets ==
  /\ bucket' = [a \in Address |-> IF now > bucket[a].reset THEN NoWindow ELSE bucket[a]]
  /\ UNCHANGED <<now, keyWindow, passes, keyPasses>>

TimePasses ==
  /\ now < MaxNow
  /\ now' = now + 1
  /\ UNCHANGED <<bucket, keyWindow, passes, keyPasses>>
=============================================================================
