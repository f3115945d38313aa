----------------------------- MODULE RateLimiter -----------------------------
(* The in-memory limits of one backend process: _rate_check() of the          *)
(* security middleware, for every path, and _check_rate() of the TEE proxy,   *)
(* for its own keys.  Both keep the times of the admitted requests by key and *)
(* clean their store when it has grown.  Times are appended as they pass, so  *)
(* that a list of them is how many requests fell on each second.              *)
EXTENDS Integers, FiniteSets, Functions

CONSTANTS
  Clients,      \* keys of the stores: an address and a path or an operation
  max_count, window_sec,
  STORE_SIZE,   \* 10000 keys, 200 in the TEE proxy
  MaxSecond     \* bound

ASSUME RateAssumption ==
  max_count \in Nat /\ window_sec \in Int /\ MaxSecond \in Nat

VARIABLES
  limiter,      \* which of the two is looked at: "security" or "tee_proxy"
  second,       \* time.time()
  _rate_store,  \* its store: [keys, times], times[c][s] of them at second s
  admitted      \* history: all times admitted since the start, by key

rate_vars == <<limiter, second, _rate_store, admitted>>

Seconds == 0 .. MaxSecond
NoTimes == [s \in Seconds |-> 0]
Never == [c \in Clients |-> NoTimes]
Empty == [keys |-> {}, times |-> Never]

RateInit ==
  /\ limiter \in {"security", "tee_proxy"}
  /\ second = 0 /\ _rate_store = Empty /\ admitted = Never

SecondPasses ==
  /\ second < MaxSecond /\ second' = second + 1
  /\ UNCHANGED <<limiter, _rate_store, admitted>>

Recent(times) == [s \in Seconds |-> IF second - s < window_sec THEN times[s] ELSE 0]
WithNow(times) == [times EXCEPT ![second] = @ + 1]
Number(times, seconds) == SumFunctionOnSet(times, seconds)

\* The entry of a client, made if there is none, with these times.
Entry(store, c, times) ==
  [keys |-> store.keys \cup {c}, times |-> [store.times EXCEPT ![c] = times]]

Drop(store, stale) ==
  [keys |-> store.keys \ stale,
   times |-> [c \in Clients |-> IF c \in stale THEN NoTimes ELSE store.times[c]]]

TooOld(times) == {s \in Seconds : times[s] > 0 /\ s < second - window_sec}

\* Mutant of Stale: an entry is stale once its first time is.
StaleByFirst(store) ==
  {c \in store.keys : store.times[c] = NoTimes \/ TooOld(store.times[c]) # {}}

\* Entries without a time and, in the middleware, those whose last is too old,
\* as all the others then are.
Stale(store) ==
  {c \in store.keys :
     \/ store.times[c] = NoTimes
     \/ /\ limiter = "security"
        /\ \A s \in Seconds : store.times[c][s] > 0 => s \in TooOld(store.times[c])}

Cleaned(store) ==
  IF Cardinality(store.keys) > STORE_SIZE THEN Drop(store, Stale(store)) ELSE store

\* A request that is refused changes nothing but its own entry.
_rate_check(c) ==
  LET times == Recent(_rate_store.times[c])
  IN IF Number(times, Seconds) >= max_count
     THEN _rate_store' = Entry(_rate_store, c, times) /\ UNCHANGED admitted
     ELSE /\ _rate_store' = Cleaned(Entry(_rate_store, c, WithNow(times)))
          /\ admitted' = [admitted EXCEPT ![c] = WithNow(@)]

RateRequest(c) ==
  _rate_check(c) /\ UNCHANGED <<limiter, second>>

\* The store is lost, and with it what was admitted.
RateRestart ==
  /\ _rate_store' = Empty /\ admitted' = Never
  /\ UNCHANGED <<limiter, second>>

RateNext ==
  \/ SecondPasses \/ RateRestart
  \/ \E c \in Clients : RateRequest(c)

RateSpec == RateInit /\ [][RateNext]_rate_vars

-----------------------------------------------------------------------------
(* Properties *)

\* From one start of the process to the next, no window of that length, at
\* whatever moment it begins, sees more requests of a client admitted than the
\* limit, however often the store was cleaned meanwhile (_rate_check of the
\* middleware, _check_rate of the TEE proxy).
WindowHolds ==
  \A c \in Clients, from \in Seconds :
    Number(admitted[c], {s \in Seconds : s >= from /\ s < from + window_sec}) <= max_count
=============================================================================
