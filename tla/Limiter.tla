-------------------------------- MODULE Limiter --------------------------------
(***************************************************************************)
(* The in-memory rate limiter (memAllow and cleanup of                     *)
(* internal/ratelimit/ratelimit.go) for one key.  Keys do not interact:    *)
(* each has its own entry in the window map.  A limit of zero or less      *)
(* switches the limiter off before it gets here and is not modelled.       *)
(*                                                                         *)
(* A caller reads the clock before it waits for the mutex, so callers may  *)
(* take the mutex in another order than that of their timestamps.          *)
(***************************************************************************)
EXTENDS Integers, FiniteSets

CONSTANTS
  Callers,   \* goroutines that ask about the key
  Limit,     \* connPerMin or msgPerSec
  Window,    \* one minute, or one second, in clock ticks
  MaxStall,  \* the longest a caller waits between reading the clock and the mutex
  MaxTime    \* bound on the clock

ASSUME LimiterAssumption ==
  /\ Limit \in Nat \ {0}
  /\ Window \in Nat \ {0}
  /\ MaxStall \in 0 .. Window
  /\ MaxTime \in Nat

VARIABLES
  now,      \* the clock
  stamp,    \* the time a caller has read, or -1 when it is not in memAllow
  entries,  \* the key's timestamps, those of one time numbered
  grants,   \* history: the timestamps of all calls that were allowed
  ordered,  \* history: so far the mutex was taken in the order of the timestamps
  last      \* history: the latest timestamp decided upon

vars == <<now, stamp, entries, grants, ordered, last>>

Time == 0 .. MaxTime

TypeOK ==
  /\ now \in Time
  /\ stamp \in [Callers -> Time \cup {-1}]
  /\ grants \subseteq Time \X Nat
  /\ entries \subseteq grants
  /\ Cardinality(entries) <= Limit
  /\ ordered \in BOOLEAN
  /\ last \in Time

Init ==
  /\ now = 0
  /\ stamp = [c \in Callers |-> -1]
  /\ entries = {}
  /\ grants = {}
  /\ ordered = TRUE
  /\ last = 0

\* The timestamps in b that lie after lo and not after hi.
Within(b, lo, hi) == {e \in b : lo < e[1] /\ e[1] <= hi}

\* A slip of After: an entry that is exactly one window old still counts.
AfterInclusive(b, cutoff) == {e \in b : e[1] >= cutoff}

\* The entries that survive the loop "if t.After(cutoff)".
After(b, cutoff) == {e \in b : e[1] > cutoff}

Valid(c) == After(entries, stamp[c] - Window)

\* A slip of HasRoom: the comparison lets one call too many through.
HasRoomOffByOne(c) == Cardinality(Valid(c)) <= Limit

HasRoom(c) == Cardinality(Valid(c)) < Limit

\* The timestamp of a call that is allowed, numbered after those of the same time.
Entry(c) == <<stamp[c], 1 + Cardinality({g \in grants : g[1] = stamp[c]})>>

\* Time passes; no caller waits longer than MaxStall for the mutex.
Tick ==
  /\ now < MaxTime
  /\ \A c \in Callers : stamp[c] # -1 => now < stamp[c] + MaxStall
  /\ now' = now + 1
  /\ UNCHANGED <<stamp, entries, grants, ordered, last>>

\* now := time.Now(), before l.mu.Lock().
ReadClock(c) ==
  /\ stamp[c] = -1
  /\ stamp' = [stamp EXCEPT ![c] = now]
  /\ UNCHANGED <<now, entries, grants, ordered, last>>

Decided(c) ==
  /\ stamp[c] # -1
  /\ stamp' = [stamp EXCEPT ![c] = -1]
  /\ ordered' = (ordered /\ last <= stamp[c])
  /\ last' = IF stamp[c] > last THEN stamp[c] ELSE last
  /\ UNCHANGED now

Allow(c) ==
  /\ Decided(c)
  /\ HasRoom(c)
  /\ entries' = Valid(c) \cup {Entry(c)}
  /\ grants' = grants \cup {Entry(c)}

Deny(c) ==
  /\ Decided(c)
  /\ ~ HasRoom(c)
  /\ entries' = Valid(c)
  /\ UNCHANGED grants

\* A slip of CleanMap: what is older than one window is dropped.
CleanMapTooSoon ==
  /\ entries' = After(entries, now - Window)
  /\ UNCHANGED <<now, stamp, grants, ordered, last>>

\* The periodic cleanup drops what is older than twice the window.
CleanMap ==
  /\ entries' = After(entries, now - 2 * Window)
  /\ UNCHANGED <<now, stamp, grants, ordered, last>>

Next == Tick \/ CleanMap \/ \E c \in Callers : ReadClock(c) \/ Allow(c) \/ Deny(c)

Spec == Init /\ [][Next]_vars

--------------------------------------------------------------------------------
(* Properties.                                                               *)

\* No window of the given length holds more than Limit allowed calls, as long as the
\* calls take the mutex in the order of their timestamps (as the calls of AllowMessage
\* for one sender do): neither pruning nor cleanup forgets a call that still counts.
WindowLimit ==
  ordered => \A t \in Time : Cardinality(Within(grants, t - Window, t)) <= Limit

\* A call is only denied if Limit calls were allowed in its window or after it: calls
\* that were denied themselves do not count, and old ones stop counting.
NoFalseDenial ==
  [][\A c \in Callers :
       Deny(c) => Cardinality(Within(grants, stamp[c] - Window, MaxTime)) >= Limit]_vars
================================================================================
