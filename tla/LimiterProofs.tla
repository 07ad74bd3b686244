----------------------------- MODULE LimiterProofs -----------------------------
(***************************************************************************)
(* Proofs of the properties of Limiter and RedisLimiter.                   *)
(***************************************************************************)
EXTENDS RedisLimiter, FiniteSetTheorems, TLAPS

--------------------------------------------------------------------------------
(* Cardinalities.                                                            *)

LEMMA SubsetBound ==
  ASSUME NEW S, NEW T, IsFiniteSet(T), S \subseteq T
  PROVE  /\ IsFiniteSet(S)
         /\ Cardinality(S) \in Nat
         /\ Cardinality(T) \in Nat
         /\ Cardinality(S) <= Cardinality(T)
BY FS_Subset, FS_CardinalityType

LEMMA AddBound ==
  ASSUME NEW S, NEW x, IsFiniteSet(S)
  PROVE  /\ IsFiniteSet(S \cup {x})
         /\ Cardinality(S) \in Nat
         /\ Cardinality(S \cup {x}) \in Nat
         /\ Cardinality(S \cup {x}) <= Cardinality(S) + 1
         /\ x \notin S => Cardinality(S \cup {x}) = Cardinality(S) + 1
<1>1. /\ IsFiniteSet(S \cup {x})
      /\ Cardinality(S \cup {x}) = IF x \in S THEN Cardinality(S) ELSE Cardinality(S) + 1
  BY FS_AddElement
<1>2. Cardinality(S) \in Nat /\ Cardinality(S \cup {x}) \in Nat
  BY <1>1, FS_CardinalityType
<1>. QED  BY <1>1, <1>2

--------------------------------------------------------------------------------
(* memAllow: types.                                                          *)

\* No waiting caller's time is older than MaxStall.
Waiting ==
  \A c \in Callers : stamp[c] # -1 => stamp[c] <= now /\ now <= stamp[c] + MaxStall

\* The timestamps of one time are numbered from 1.
Numbered == \A g \in grants : g[2] <= Cardinality({h \in grants : h[1] = g[1]})

TypeInv == TypeOK /\ IsFiniteSet(grants) /\ Waiting /\ Numbered

\* What memAllow counts is a finite part of the calls that were allowed.
LEMMA ValidBound ==
  ASSUME TypeInv, NEW c \in Callers
  PROVE  /\ Valid(c) \subseteq entries
         /\ Valid(c) \subseteq grants
         /\ IsFiniteSet(Valid(c))
         /\ Cardinality(Valid(c)) \in Nat
         /\ Cardinality(Valid(c)) <= Limit
<1>1. Valid(c) \subseteq entries /\ entries \subseteq grants
  BY DEF Valid, After, TypeInv, TypeOK
<1>2. IsFiniteSet(entries) /\ Cardinality(entries) \in Nat
  BY <1>1, SubsetBound DEF TypeInv
<1>3. /\ IsFiniteSet(Valid(c)) /\ Cardinality(Valid(c)) \in Nat
      /\ Cardinality(Valid(c)) <= Cardinality(entries)
  BY <1>1, <1>2, SubsetBound
<1>. QED  BY <1>1, <1>2, <1>3, LimiterAssumption DEF TypeInv, TypeOK

\* Every call that is allowed is recorded by a timestamp of its own.
LEMMA EntryIsNew ==
  ASSUME TypeInv, NEW c \in Callers, stamp[c] # -1
  PROVE  /\ Entry(c) \in Time \X Nat
         /\ Entry(c)[1] = stamp[c]
         /\ Entry(c) \notin grants
         /\ Entry(c)[2] = 1 + Cardinality({h \in grants : h[1] = stamp[c]})
<1>. DEFINE S == {h \in grants : h[1] = stamp[c]}
<1>1. Cardinality(S) \in Nat
  BY SubsetBound DEF TypeInv
<1>2. Entry(c) = <<stamp[c], 1 + Cardinality(S)>>
  BY DEF Entry
<1>3. stamp[c] \in Time
  BY DEF TypeInv, TypeOK
<1>4. ASSUME Entry(c) \in grants
      PROVE  FALSE
  <2>1. Entry(c)[2] <= Cardinality({h \in grants : h[1] = Entry(c)[1]})
    BY <1>4 DEF TypeInv, Numbered
  <2>2. {h \in grants : h[1] = Entry(c)[1]} = S
    BY <1>2
  <2>. HIDE DEF S
  <2>3. Entry(c)[2] = 1 + Cardinality(S)
    BY <1>2
  <2>4. Entry(c)[2] <= Cardinality(S)
    BY <2>1, <2>2
  <2>. QED  BY <1>1, <2>3, <2>4
<1>. HIDE DEF S
<1>5. Entry(c)[1] = stamp[c] /\ Entry(c)[2] = 1 + Cardinality(S) /\ Entry(c) \in Time \X Nat
  BY <1>1, <1>2, <1>3
<1>. QED  BY <1>4, <1>5 DEF S

LEMMA TypeInit == Init => TypeInv
<1> SUFFICES ASSUME Init
             PROVE  TypeInv
  OBVIOUS
<1>1. IsFiniteSet(grants) /\ Cardinality(entries) = 0
  BY FS_EmptySet DEF Init
<1>. QED  BY <1>1, LimiterAssumption DEF Init, TypeInv, TypeOK, Time, Waiting, Numbered

LEMMA TypeStep == TypeInv /\ [Next]_vars => TypeInv'
<1> SUFFICES ASSUME TypeInv, [Next]_vars
             PROVE  TypeInv'
  OBVIOUS
<1>. USE LimiterAssumption
<1>1. CASE Tick
  BY <1>1 DEF Tick, TypeInv, TypeOK, Time, Waiting, Numbered
<1>2. CASE CleanMap
  <2>1. entries' \subseteq entries
    BY <1>2 DEF CleanMap, After
  <2>2. IsFiniteSet(entries) /\ Cardinality(entries) \in Nat
    BY SubsetBound DEF TypeInv, TypeOK
  <2>3. Cardinality(entries') \in Nat /\ Cardinality(entries') <= Cardinality(entries)
    BY <2>1, <2>2, SubsetBound
  <2>. QED  BY <1>2, <2>1, <2>2, <2>3 DEF CleanMap, TypeInv, TypeOK, Waiting, Numbered
<1>3. ASSUME NEW c \in Callers, ReadClock(c)
      PROVE  TypeInv'
  BY <1>3 DEF ReadClock, TypeInv, TypeOK, Time, Waiting, Numbered
<1>4. ASSUME NEW c \in Callers, Decided(c)
      PROVE  /\ now' \in Time /\ stamp' \in [Callers -> Time \cup {-1}]
             /\ ordered' \in BOOLEAN /\ last' \in Time
             /\ Waiting'
  BY <1>4 DEF Decided, TypeInv, TypeOK, Time, Waiting
<1>5. ASSUME NEW c \in Callers, Allow(c)
      PROVE  TypeInv'
  <2>. DEFINE e == Entry(c)
  <2>1. stamp[c] # -1 /\ grants' = grants \cup {e} /\ entries' = Valid(c) \cup {e}
    BY <1>5 DEF Allow, Decided
  <2>2. /\ e \in Time \X Nat /\ e[1] = stamp[c] /\ e \notin grants
        /\ e[2] = 1 + Cardinality({h \in grants : h[1] = stamp[c]})
    BY <2>1, EntryIsNew
  <2>. HIDE DEF e
  <2>3. IsFiniteSet(grants')
    BY <2>1, AddBound DEF TypeInv
  <2>4. entries' \subseteq grants' /\ grants' \subseteq Time \X Nat
    BY <2>1, <2>2, ValidBound DEF TypeInv, TypeOK
  <2>5. Cardinality(entries') <= Limit
    <3>1. IsFiniteSet(Valid(c)) /\ Cardinality(Valid(c)) \in Nat
      BY ValidBound
    <3>2. /\ Cardinality(Valid(c) \cup {e}) \in Nat
          /\ Cardinality(Valid(c) \cup {e}) <= Cardinality(Valid(c)) + 1
      BY <3>1, AddBound
    <3>3. Cardinality(Valid(c)) < Limit
      BY <1>5 DEF Allow, HasRoom
    <3>. QED  BY <2>1, <3>1, <3>2, <3>3
  <2>6. Numbered'
    <3> SUFFICES ASSUME NEW g \in grants'
                 PROVE  g[2] <= Cardinality({h \in grants' : h[1] = g[1]})
      BY DEF Numbered
    <3>. DEFINE S == {h \in grants : h[1] = g[1]}
                T == {h \in grants' : h[1] = g[1]}
    <3>1. IsFiniteSet(S) /\ Cardinality(S) \in Nat /\ IsFiniteSet(T) /\ Cardinality(T) \in Nat
      BY <2>3, SubsetBound DEF TypeInv
    <3>2. CASE g = e
      <4>1. T = S \cup {e} /\ e \notin S
        BY <2>1, <2>2, <3>2
      <4>2. S = {h \in grants : h[1] = stamp[c]}
        BY <2>2, <3>2
      <4>. HIDE DEF S, T
      <4>3. Cardinality(T) = Cardinality(S) + 1
        BY <3>1, <4>1, AddBound
      <4>. QED  BY <2>2, <3>1, <3>2, <4>2, <4>3 DEF T
    <3>3. CASE g \in grants
      <4>1. g[2] <= Cardinality(S) /\ g[2] \in Nat
        BY <3>3 DEF TypeInv, TypeOK, Numbered
      <4>2. S \subseteq T
        BY <2>1
      <4>. HIDE DEF S, T
      <4>3. Cardinality(S) <= Cardinality(T)
        BY <3>1, <4>2, SubsetBound
      <4>4. g[2] <= Cardinality(T)
        BY <3>1, <4>1, <4>3
      <4>. QED  BY <4>4 DEF T
    <3>. QED  BY <2>1, <3>2, <3>3
  <2>7. Decided(c)
    BY <1>5 DEF Allow
  <2>. QED  BY <1>4, <2>3, <2>4, <2>5, <2>6, <2>7 DEF TypeInv, TypeOK
<1>6. ASSUME NEW c \in Callers, Deny(c)
      PROVE  TypeInv'
  <2>1. Decided(c) /\ entries' = Valid(c) /\ grants' = grants
    BY <1>6 DEF Deny
  <2>. QED  BY <1>4, <2>1, ValidBound DEF TypeInv, TypeOK, Numbered
<1>7. CASE UNCHANGED vars
  BY <1>7 DEF vars, TypeInv, TypeOK, Waiting, Numbered
<1>. QED  BY <1>1, <1>2, <1>3, <1>5, <1>6, <1>7 DEF Next

LEMMA TypeInvariant == Spec => []TypeInv
BY TypeInit, TypeStep, PTL DEF Spec

--------------------------------------------------------------------------------
(* memAllow: the limit of a window.                                          *)

\* While callers take the mutex in order, a call that was allowed is remembered until it
\* is out of the window of every later call.
Remembered ==
  ordered =>
    \A g \in grants :
      /\ g[1] <= last
      /\ g \in entries \/ g[1] <= last - Window \/ g[1] <= now - 2 * Window

WindowInv == WindowLimit /\ Remembered

LEMMA WindowInit == Init => WindowInv
<1> SUFFICES ASSUME Init
             PROVE  WindowInv
  OBVIOUS
<1>1. \A lo, hi : Within(grants, lo, hi) = {}
  BY DEF Init, Within
<1>2. WindowLimit
  BY <1>1, FS_EmptySet, LimiterAssumption DEF WindowLimit
<1>. QED  BY <1>2 DEF Init, WindowInv, Remembered

LEMMA RememberedStep == TypeInv /\ TypeInv' /\ Remembered /\ [Next]_vars => Remembered'
<1> SUFFICES ASSUME TypeInv, TypeInv', Remembered, [Next]_vars, ordered', NEW g \in grants'
             PROVE  /\ g[1] <= last'
                    /\ g \in entries' \/ g[1] <= last' - Window \/ g[1] <= now' - 2 * Window
  BY DEF Remembered
<1>. USE LimiterAssumption
<1>0. /\ now \in Int /\ last \in Int /\ now' \in Int /\ last' \in Int
      /\ \A h \in grants : h[1] \in Int
      /\ \A c \in Callers : stamp[c] \in Int
  BY DEF TypeInv, TypeOK, Time
<1>1. CASE Tick
  BY <1>0, <1>1 DEF Tick, Remembered
<1>2. CASE CleanMap
  BY <1>0, <1>2 DEF CleanMap, After, Remembered
<1>3. ASSUME NEW c \in Callers, Allow(c) \/ Deny(c)
      PROVE  /\ g[1] <= last'
             /\ g \in entries' \/ g[1] <= last' - Window \/ g[1] <= now' - 2 * Window
  <2>1. ordered /\ last <= stamp[c] /\ last' = stamp[c] /\ now' = now /\ stamp[c] # -1
    <3>1. Decided(c)
      BY <1>3 DEF Allow, Deny
    <3>2. ordered /\ last <= stamp[c]
      BY <3>1 DEF Decided
    <3>. QED  BY <1>0, <3>1, <3>2 DEF Decided
  <2>2. CASE g \in grants
    <3>1. g \in Valid(c) => g \in entries'
      BY <1>3 DEF Allow, Deny
    <3>2. g \in entries => g \in Valid(c) \/ g[1] <= stamp[c] - Window
      BY <1>0, <2>2 DEF Valid, After
    <3>. QED  BY <1>0, <2>1, <2>2, <3>1, <3>2 DEF Remembered
  <2>3. CASE g = Entry(c) /\ Allow(c)
    <3>1. g[1] = stamp[c] /\ g \in entries'
      BY <2>1, <2>3, EntryIsNew DEF Allow
    <3>. QED  BY <1>0, <2>1, <3>1
  <2>. QED  BY <1>3, <2>2, <2>3 DEF Allow, Deny
<1>4. CASE UNCHANGED vars \/ \E c \in Callers : ReadClock(c)
  BY <1>4 DEF vars, ReadClock, Remembered
<1>. QED  BY <1>1, <1>2, <1>3, <1>4 DEF Next

LEMMA WindowStep == TypeInv /\ TypeInv' /\ WindowInv /\ [Next]_vars => WindowInv'
<1> SUFFICES ASSUME TypeInv, TypeInv', WindowInv, [Next]_vars
             PROVE  WindowLimit'
  BY RememberedStep DEF WindowInv
<1>1. CASE \E c \in Callers : Allow(c)
  <2> SUFFICES ASSUME NEW c \in Callers, Allow(c), ordered', NEW t \in Time
               PROVE  Cardinality(Within(grants', t - Window, t)) <= Limit
    BY <1>1 DEF WindowLimit
  <2>. DEFINE e == Entry(c)
              W == Within(grants, t - Window, t)
              W1 == Within(grants', t - Window, t)
  <2>0. /\ stamp[c] # -1 /\ ordered /\ last <= stamp[c]
        /\ grants' = grants \cup {e}
    BY DEF Allow, Decided
  <2>1. e[1] = stamp[c]
    BY <2>0, EntryIsNew
  <2>2. /\ t \in Int /\ last \in Int /\ now \in Int /\ stamp[c] \in Int
        /\ \A g \in grants : g[1] \in Int
    BY DEF TypeInv, TypeOK, Time
  <2>. HIDE DEF e
  <2>3. CASE stamp[c] <= t /\ t - Window < stamp[c]
    <3>1. ASSUME NEW g \in grants, t - Window < g[1], g[1] <= t
          PROVE  g \in Valid(c)
      <4>1. g[1] <= last
        BY <2>0 DEF WindowInv, Remembered
      <4>2. stamp[c] - Window < g[1]
        BY <2>2, <2>3, <3>1, LimiterAssumption
      <4>3. now <= stamp[c] + Window
        BY <2>0, <2>2, LimiterAssumption DEF TypeInv, Waiting
      <4>4. ~ (g[1] <= last - Window) /\ ~ (g[1] <= now - 2 * Window)
        BY <2>0, <2>2, <4>2, <4>3, LimiterAssumption
      <4>5. g \in entries
        BY <2>0, <4>4 DEF WindowInv, Remembered
      <4>. QED  BY <4>2, <4>5 DEF Valid, After
    <3>2. W1 \subseteq Valid(c) \cup {e}
      BY <2>0, <3>1 DEF Within
    <3>3. IsFiniteSet(Valid(c)) /\ Cardinality(Valid(c)) \in Nat
      BY ValidBound
    <3>4. Cardinality(Valid(c)) < Limit
      BY DEF Allow, HasRoom
    <3>. HIDE DEF W1
    <3>5. /\ Cardinality(W1) <= Cardinality(Valid(c) \cup {e})
          /\ Cardinality(W1) \in Nat
      BY <3>2, <3>3, AddBound, SubsetBound
    <3>6. /\ Cardinality(Valid(c) \cup {e}) \in Nat
          /\ Cardinality(Valid(c) \cup {e}) <= Cardinality(Valid(c)) + 1
      BY <3>3, AddBound
    <3>7. Cardinality(W1) <= Limit
      BY <3>3, <3>4, <3>5, <3>6, LimiterAssumption
    <3>. QED  BY <3>7 DEF W1
  <2>4. CASE ~ (stamp[c] <= t /\ t - Window < stamp[c])
    <3>1. W1 = W
      BY <2>0, <2>1, <2>4 DEF Within
    <3>. QED  BY <2>0, <3>1 DEF WindowInv, WindowLimit
  <2>. QED  BY <2>3, <2>4
<1>2. CASE UNCHANGED grants /\ (ordered' => ordered)
  BY <1>2 DEF WindowInv, WindowLimit
<1>3. ASSUME NEW c \in Callers, Deny(c)
      PROVE  UNCHANGED grants /\ (ordered' => ordered)
  BY <1>3 DEF Deny, Decided
<1>. QED
  BY <1>1, <1>2, <1>3 DEF Next, vars, Tick, CleanMap, ReadClock

\* The in-memory limiter never exceeds its limit, for any limit, window and number of
\* callers, as long as they take the mutex in the order of their timestamps and none
\* waits for it longer than a window.
THEOREM LimitKept == Spec => []WindowLimit
<1>1. Spec => []TypeInv
  BY TypeInvariant
<1>. QED  BY <1>1, WindowInit, WindowStep, PTL DEF Spec, WindowInv

\* A call is only denied if Limit calls were allowed in its window or after it.
THEOREM DenialJustified == Spec => NoFalseDenial
<1>1. TypeInv /\ [Next]_vars =>
        [\A c \in Callers :
           Deny(c) => Cardinality(Within(grants, stamp[c] - Window, MaxTime)) >= Limit]_vars
  <2> SUFFICES ASSUME TypeInv, NEW c \in Callers, Deny(c)
               PROVE  Cardinality(Within(grants, stamp[c] - Window, MaxTime)) >= Limit
    BY DEF vars
  <2>. DEFINE W == Within(grants, stamp[c] - Window, MaxTime)
  <2>1. Valid(c) \subseteq W
    BY LimiterAssumption DEF Valid, After, Within, TypeInv, TypeOK, Time
  <2>2. IsFiniteSet(W)
    BY SubsetBound DEF Within, TypeInv
  <2>. HIDE DEF W
  <2>3. /\ Cardinality(Valid(c)) <= Cardinality(W)
        /\ Cardinality(W) \in Nat /\ Cardinality(Valid(c)) \in Nat
    BY <2>1, <2>2, SubsetBound
  <2>4. Cardinality(W) >= Limit
    BY <2>3, LimiterAssumption DEF Deny, HasRoom
  <2>. QED  BY <2>4 DEF W
<1>2. Spec => []TypeInv
  BY TypeInvariant
<1>. QED  BY <1>1, <1>2, PTL DEF Spec, NoFalseDenial

--------------------------------------------------------------------------------
(* With Redis: memAllow is not disturbed.                                    *)

\* Whatever Redis does, the in-memory limiter behaves as Limiter says.
THEOREM MemoryIndependent == RSpec => Spec
<1>1. RInit => Init
  BY DEF RInit
<1>2. [RNext]_allVars => [Next]_vars
  <2> SUFFICES ASSUME [RNext]_allVars
               PROVE  [Next]_vars
    OBVIOUS
  <2>1. CASE RTick
    BY <2>1 DEF RTick, Next
  <2>2. CASE CleanMap
    BY <2>2 DEF Next
  <2>3. ASSUME NEW c \in Callers, RedisAllow(c) \/ NoRedis(c)
        PROVE  UNCHANGED vars
    BY <2>3 DEF RedisAllow, Begin, Prune, ZAdd, Granted, OverLimit, ZRem, PipelineFails,
                ReplyLost, ZRemFails, NoRedis
  <2>4. ASSUME NEW c \in Callers, MemAllow(c)
        PROVE  Next
    BY <2>4 DEF MemAllow, Next
  <2>. QED  BY <2>1, <2>2, <2>3, <2>4 DEF RNext, allVars
<1>. QED  BY <1>1, <1>2, PTL DEF RSpec, Spec

LEMMA RTypeInvariant == RSpec => []TypeInv
BY MemoryIndependent, TypeInvariant, PTL

--------------------------------------------------------------------------------
(* redisAllow: types.                                                        *)

Pipeline == {"prune", "add", "count"}

\* A caller has a timestamp while it is in redisAllow, which is not older than MaxStall.
Clocks ==
  \A c \in Callers :
    /\ zstamp[c] # -1 <=> stage[c] \in Pipeline \cup {"remove"}
    /\ zstamp[c] # -1 => zstamp[c] <= now /\ now <= zstamp[c] + MaxStall

\* The key lives for as long as its members may count; only a member whose EXPIRE is still
\* to come may be without one.
Lifetime ==
  /\ zset = {} => expires = 0
  /\ \A t \in zset :
       /\ t <= now
       /\ \/ expires >= t + 2 * Window
          \/ \E c \in Callers : stage[c] = "count" /\ zstamp[c] = t

\* MembersBacked, where a call that is being decided has added its member.
Backed ==
  \A t \in zset :
    \/ t \in zgrants \cup leftover
    \/ \E c \in Callers : stage[c] \in {"count", "remove"} /\ zstamp[c] = t

RTypeInv == RTypeOK /\ Clocks /\ Lifetime /\ Backed

LEMMA RTypeInit == RInit /\ TypeInv => RTypeInv
BY LimiterAssumption, RedisLimiterAssumption
   DEF RInit, RTypeInv, RTypeOK, TypeInv, Clocks, Lifetime, Backed, Pipeline

LEMMA RTypeStep == TypeInv /\ TypeInv' /\ RTypeInv /\ [RNext]_allVars => RTypeInv'
<1> SUFFICES ASSUME TypeInv, TypeInv', RTypeInv, [RNext]_allVars
             PROVE  RTypeInv'
  OBVIOUS
<1>. USE LimiterAssumption, RedisLimiterAssumption
<1>0. /\ now \in Int /\ 0 <= now /\ now <= MaxTime /\ expires \in Int
      /\ \A c \in Callers : zstamp[c] \in Int
      /\ \A t \in zset : t \in Int /\ t # -1
  BY DEF RTypeInv, RTypeOK, TypeInv, TypeOK, Time
<1>. USE DEF RTypeInv, Pipeline
<1>1. CASE RTick
  <2>1. RTypeOK'
    BY <1>1 DEF RTick, Members, RTypeOK, TypeInv
  <2>2. Clocks'
    BY <1>0, <1>1 DEF RTick, Tick, Clocks
  <2>3. Lifetime'
    BY <1>0, <1>1 DEF RTick, Tick, Members, Lifetime
  <2>4. Backed'
    BY <1>1 DEF RTick, Members, Backed
  <2>. QED  BY <2>1, <2>2, <2>3, <2>4
<1>2. CASE CleanMap /\ UNCHANGED redisVars
  BY <1>2 DEF CleanMap, redisVars, RTypeOK, TypeInv, Clocks, Lifetime, Backed
<1>3. ASSUME NEW c \in Callers, Begin(c)
      PROVE  RTypeInv'
  <2>1. RTypeOK'
    BY <1>3 DEF Begin, Goto, vars, RTypeOK, TypeInv, TypeOK
  <2>2. Clocks'
    BY <1>0, <1>3 DEF Begin, Goto, vars, RTypeOK, Clocks
  <2>3. Lifetime' /\ Backed'
    BY <1>0, <1>3 DEF Begin, Goto, vars, RTypeOK, Lifetime, Backed
  <2>. QED  BY <2>1, <2>2, <2>3
<1>4. ASSUME NEW c \in Callers, Prune(c)
      PROVE  RTypeInv'
  <2>1. RTypeOK'
    BY <1>4 DEF Prune, Goto, Members, vars, RTypeOK, TypeInv, TypeOK
  <2>2. Clocks'
    BY <1>4 DEF Prune, Goto, vars, RTypeOK, Clocks
  <2>3. Lifetime' /\ Backed'
    BY <1>4 DEF Prune, Goto, Members, vars, RTypeOK, Lifetime, Backed
  <2>. QED  BY <2>1, <2>2, <2>3
<1>5. ASSUME NEW c \in Callers, ZAdd(c)
      PROVE  RTypeInv'
  <2>1. zstamp[c] \in Time /\ zstamp[c] <= now
    BY <1>5 DEF ZAdd, Goto, RTypeOK, Clocks
  <2>2. RTypeOK'
    BY <1>5, <2>1 DEF ZAdd, Goto, vars, RTypeOK, TypeInv, TypeOK
  <2>3. Clocks'
    BY <1>5 DEF ZAdd, Goto, vars, RTypeOK, Clocks
  <2>4. Lifetime' /\ Backed'
    BY <1>5, <2>1 DEF ZAdd, Goto, vars, RTypeOK, Lifetime, Backed
  <2>. QED  BY <2>2, <2>3, <2>4
<1>6. ASSUME NEW c \in Callers, Granted(c) \/ ReplyLost(c)
      PROVE  RTypeInv'
  <2>1. zstamp[c] \in Time /\ zstamp[c] <= now
    BY <1>6 DEF Granted, ReplyLost, Answer, Goto, RTypeOK, Clocks
  <2>2. RTypeOK'
    BY <1>0, <1>6, <2>1
       DEF Granted, ReplyLost, Answer, Goto, ExpireLater, vars, RTypeOK, TypeInv
  <2>3. Clocks'
    BY <1>6 DEF Granted, ReplyLost, Answer, Goto, vars, RTypeOK, Clocks
  <2>4. Lifetime'
    BY <1>0, <1>6 DEF Granted, ReplyLost, Answer, Goto, ExpireLater, vars, RTypeOK, Lifetime
  <2>5. Backed'
    BY <1>0, <1>6 DEF Granted, ReplyLost, Answer, Goto, vars, RTypeOK, Backed
  <2>. QED  BY <2>2, <2>3, <2>4, <2>5
<1>7. ASSUME NEW c \in Callers, OverLimit(c)
      PROVE  RTypeInv'
  <2>1. RTypeOK'
    BY <1>0, <1>7 DEF OverLimit, Goto, ExpireLater, vars, RTypeOK, TypeInv
  <2>2. Clocks'
    BY <1>7 DEF OverLimit, Goto, vars, RTypeOK, Clocks
  <2>3. Lifetime'
    BY <1>0, <1>7 DEF OverLimit, Goto, ExpireLater, vars, RTypeOK, Lifetime
  <2>4. Backed'
    BY <1>7 DEF OverLimit, Goto, vars, RTypeOK, Backed
  <2>. QED  BY <2>1, <2>2, <2>3, <2>4
<1>8. ASSUME NEW c \in Callers, ZRem(c)
      PROVE  RTypeInv'
  <2>1. RTypeOK'
    BY <1>8 DEF ZRem, Answer, Goto, Members, vars, RTypeOK, TypeInv
  <2>2. Clocks'
    BY <1>8 DEF ZRem, Answer, Goto, vars, RTypeOK, Clocks
  <2>3. Lifetime'
    BY <1>8 DEF ZRem, Answer, Goto, Members, vars, RTypeOK, Lifetime
  <2>4. Backed'
    BY <1>0, <1>8 DEF ZRem, Answer, Goto, Members, vars, RTypeOK, Backed
  <2>. QED  BY <2>1, <2>2, <2>3, <2>4
<1>9. ASSUME NEW c \in Callers, PipelineFails(c) \/ ZRemFails(c)
      PROVE  RTypeInv'
  <2>1. RTypeOK'
    BY <1>9 DEF PipelineFails, ZRemFails, Answer, Goto, vars, RTypeOK, TypeInv, Clocks
  <2>2. Clocks'
    BY <1>9 DEF PipelineFails, ZRemFails, Answer, Goto, vars, RTypeOK, Clocks
  <2>3. Lifetime'
    BY <1>9 DEF PipelineFails, ZRemFails, Answer, Goto, vars, RTypeOK, Lifetime
  <2>4. Backed'
    BY <1>0, <1>9 DEF PipelineFails, ZRemFails, Answer, Goto, vars, RTypeOK, Backed
  <2>. QED  BY <2>1, <2>2, <2>3, <2>4
<1>10. ASSUME NEW c \in Callers, NoRedis(c)
       PROVE  RTypeInv'
  BY <1>10 DEF NoRedis, Goto, vars, RTypeOK, TypeInv, Clocks, Lifetime, Backed
<1>11. ASSUME NEW c \in Callers, MemAllow(c)
       PROVE  RTypeInv'
  <2>1. now' = now
    BY <1>11 DEF MemAllow, ReadClock, Allow, Deny, Decided
  <2>. QED  BY <1>11, <2>1 DEF MemAllow, RTypeOK, TypeInv, Clocks, Lifetime, Backed
<1>12. CASE UNCHANGED allVars
  BY <1>12 DEF allVars, vars, redisVars, RTypeOK, TypeInv, Clocks, Lifetime, Backed
<1>. QED
  BY <1>1, <1>2, <1>3, <1>4, <1>5, <1>6, <1>7, <1>8, <1>9, <1>10, <1>11, <1>12
     DEF RNext, RedisAllow

\* Every variable of both limiters keeps its type; the window in memory never holds more
\* than Limit timestamps.
THEOREM TypeCorrect == RSpec => []RTypeOK
<1>1. RSpec => []TypeInv
  BY RTypeInvariant
<1>. QED  BY <1>1, RTypeInit, RTypeStep, PTL DEF RSpec, RTypeInv

\* What counts against a call was allowed, is being decided or was left behind by a
\* failure of Redis.
THEOREM CountsBacked == RSpec => []MembersBacked
<1>1. RSpec => []TypeInv
  BY RTypeInvariant
<1>2. RTypeInv => MembersBacked
  BY DEF RTypeInv, Backed, MembersBacked
<1>. QED  BY <1>1, <1>2, RTypeInit, RTypeStep, PTL DEF RSpec

--------------------------------------------------------------------------------
(* redisAllow: the limit of a window.                                        *)

\* No two calls under way share a timestamp, and none has that of an allowed call.
Distinct ==
  \A c \in Callers :
    zstamp[c] # -1 => /\ zstamp[c] \notin zgrants
                      /\ \A d \in Callers \ {c} : zstamp[d] # zstamp[c]

\* The key does not expire while a call is between pruning and counting, so that the
\* call counts its own member.
Outlives ==
  \A c \in Callers :
    /\ stage[c] \in {"add", "count"} /\ expires # 0 => expires > zstamp[c] + Window
    /\ stage[c] = "count" => zstamp[c] \in zset

\* An allowed call is a member until it is out of the window of every call that is still
\* to count.
Kept ==
  \A g \in zgrants :
    \/ g \in zset
    \/ /\ g <= now - Window
       /\ \A c \in Callers : stage[c] \in Pipeline => g <= zstamp[c] - Window

RegularInv == regular => Distinct /\ Outlives /\ Kept

LEMMA RegularInit == RInit => RegularInv
BY DEF RInit, RegularInv, Distinct, Outlives, Kept, Pipeline

LEMMA RegularStep ==
  RTypeInv /\ RTypeInv' /\ RegularInv /\ [RNext]_allVars => RegularInv'
<1> SUFFICES ASSUME RTypeInv, RTypeInv', RegularInv, [RNext]_allVars, regular'
             PROVE  Distinct' /\ Outlives' /\ Kept'
  BY DEF RegularInv
<1>. USE LimiterAssumption DEF Pipeline
<1>0. /\ now \in Int /\ expires \in Int
      /\ zstamp \in [Callers -> Time \cup {-1}]
      /\ \A c \in Callers : zstamp[c] \in Int
      /\ \A t \in zset : t \in Int /\ t # -1
      /\ \A g \in zgrants : g \in Int /\ g # -1
      /\ stage \in [Callers -> Pipeline \cup {"idle", "remove", "fallback"}]
  BY DEF RTypeInv, RTypeOK, TypeOK, Time
<1>a. \A c \in Callers :
        /\ zstamp[c] # -1 <=> stage[c] \in Pipeline \cup {"remove"}
        /\ zstamp[c] # -1 => zstamp[c] <= now /\ now <= zstamp[c] + MaxStall
  BY DEF RTypeInv, Clocks
<1>. HIDE DEF Pipeline
<1>1. CASE RTick
  <2>0. Distinct /\ Outlives /\ Kept
    BY <1>1 DEF RTick, RegularInv
  <2>1. Distinct'
    BY <1>1, <2>0 DEF RTick, Distinct
  <2>2. now' = now + 1 /\ \A c \in Callers : zstamp[c] # -1 => now' <= zstamp[c] + Window
    BY <1>0, <1>1 DEF RTick, Tick
  <2>3. Outlives'
    <3> SUFFICES ASSUME NEW c \in Callers, stage[c] \in {"add", "count"}
                 PROVE  /\ expires' # 0 => expires' > zstamp[c] + Window
                        /\ stage[c] = "count" => zstamp[c] \in zset'
      BY <1>1 DEF RTick, Outlives
    <3>1. zstamp[c] # -1
      BY <1>a DEF Pipeline
    <3>2. CASE now' = expires
      <4>1. expires # 0
        BY <1>0, <2>2, <3>2 DEF RTypeInv, RTypeOK, TypeOK, Time
      <4>2. FALSE
        BY <1>0, <2>0, <2>2, <3>1, <3>2, <4>1 DEF Outlives
      <4>. QED  BY <4>2
    <3>3. CASE now' # expires
      BY <1>1, <2>0, <3>3 DEF RTick, Members, Outlives
    <3>. QED  BY <3>2, <3>3
  <2>4. Kept'
    <3> SUFFICES ASSUME NEW g \in zgrants, g \notin zset'
                 PROVE  /\ g <= now' - Window
                        /\ \A c \in Callers : stage[c] \in Pipeline => g <= zstamp[c] - Window
      BY <1>1 DEF RTick, Kept
    <3>1. CASE g \notin zset
      BY <1>0, <2>0, <2>2, <3>1 DEF Kept
    <3>2. CASE g \in zset
      <4>1. now' = expires
        BY <1>1, <3>2 DEF RTick, Members
      <4>2. ~ \E c \in Callers : stage[c] = "count" /\ zstamp[c] = g
        BY <1>0, <2>0 DEF Distinct
      <4>3. now' >= g + 2 * Window
        BY <3>2, <4>1, <4>2 DEF RTypeInv, Lifetime
      <4>4. \A c \in Callers : stage[c] \in Pipeline => now' <= zstamp[c] + Window
        BY <1>a, <2>2
      <4>. QED  BY <1>0, <2>2, <4>3, <4>4
    <3>. QED  BY <3>1, <3>2
  <2>. QED  BY <2>1, <2>3, <2>4
<1>2. CASE CleanMap /\ UNCHANGED redisVars
  BY <1>2 DEF CleanMap, redisVars, RegularInv, Distinct, Outlives, Kept
<1>3. ASSUME NEW c \in Callers, Begin(c)
      PROVE  Distinct' /\ Outlives' /\ Kept'
  <2>1. regular /\ \A t \in zset \cup {zstamp[d] : d \in Callers \ {c}} : t < now
    BY <1>3 DEF Begin
  <2>0. Distinct /\ Outlives /\ Kept
    BY <2>1 DEF RegularInv
  <2>2. \A g \in zgrants : g # now
    BY <1>0, <2>0, <2>1 DEF Kept
  <2>3. zstamp' = [zstamp EXCEPT ![c] = now] /\ stage' = [stage EXCEPT ![c] = "prune"]
    BY <1>3 DEF Begin, Goto
  <2>4. UNCHANGED <<now, zset, expires, zgrants>>
    BY <1>3 DEF Begin, vars
  <2>5. Distinct'
    <3>1. \A d \in Callers \ {c} : zstamp'[d] = zstamp[d] /\ zstamp[d] # now
      BY <1>0, <2>1, <2>3
    <3>2. zstamp'[c] = now
      BY <1>0, <2>3
    <3>. QED  BY <2>0, <2>2, <2>4, <3>1, <3>2 DEF Distinct
  <2>6. Outlives'
    BY <1>0, <2>0, <2>3, <2>4 DEF Outlives
  <2>7. Kept'
    BY <1>0, <2>0, <2>3, <2>4 DEF Kept
  <2>. QED  BY <2>5, <2>6, <2>7
<1>4. ASSUME NEW c \in Callers, Prune(c)
      PROVE  Distinct' /\ Outlives' /\ Kept'
  <2>1. regular /\ \A d \in Callers : stage[d] \in Pipeline => zstamp[d] >= zstamp[c]
    BY <1>4 DEF Prune, Pipeline
  <2>0. Distinct /\ Outlives /\ Kept
    BY <2>1 DEF RegularInv
  <2>2. /\ stage[c] = "prune" /\ stage' = [stage EXCEPT ![c] = "add"]
        /\ zset' = {t \in zset : t > zstamp[c] - Window}
        /\ expires' = IF zset' = {} THEN 0 ELSE expires
    BY <1>4 DEF Prune, Goto, Members
  <2>3. UNCHANGED <<now, zstamp, zgrants>>
    BY <1>4 DEF Prune, vars
  <2>4. zstamp[c] # -1 /\ zstamp[c] <= now
    BY <1>a, <2>2 DEF Pipeline
  <2>5. Distinct'
    BY <2>0, <2>3 DEF Distinct
  <2>6. ASSUME expires' # 0
        PROVE  expires' > zstamp[c] + Window
    <3>1. PICK t \in zset : t > zstamp[c] - Window
      BY <2>2, <2>6
    <3>2. expires' = expires
      BY <2>2, <2>6
    <3>3. CASE expires >= t + 2 * Window
      BY <1>0, <3>1, <3>2, <3>3
    <3>4. CASE \E d \in Callers : stage[d] = "count" /\ zstamp[d] = t
      <4>1. PICK d \in Callers : stage[d] = "count"
        BY <3>4
      <4>2. expires > zstamp[d] + Window
        BY <2>0, <2>6, <3>2, <4>1 DEF Outlives
      <4>3. zstamp[d] >= zstamp[c]
        BY <2>1, <4>1 DEF Pipeline
      <4>. QED  BY <1>0, <3>2, <4>2, <4>3
    <3>. QED  BY <3>3, <3>4 DEF RTypeInv, Lifetime
  <2>7. Outlives'
    <3> SUFFICES ASSUME NEW d \in Callers, stage'[d] \in {"add", "count"}
                 PROVE  /\ expires' # 0 => expires' > zstamp[d] + Window
                        /\ stage'[d] = "count" => zstamp[d] \in zset'
      BY <2>3 DEF Outlives
    <3>1. CASE d = c
      BY <1>0, <2>2, <2>6, <3>1
    <3>2. CASE d # c
      <4>1. stage[d] = stage'[d] /\ stage[d] \in Pipeline
        BY <1>0, <2>2, <3>2 DEF Pipeline
      <4>2. zstamp[d] >= zstamp[c]
        BY <2>1, <4>1
      <4>3. stage[d] = "count" => zstamp[d] \in zset'
        BY <1>0, <2>0, <2>2, <4>2 DEF Outlives
      <4>4. expires' # 0 => expires' > zstamp[d] + Window
        BY <2>0, <2>2, <4>1 DEF Outlives
      <4>. QED  BY <4>1, <4>3, <4>4
    <3>. QED  BY <3>1, <3>2
  <2>8. Kept'
    <3> SUFFICES ASSUME NEW g \in zgrants, g \notin zset'
                 PROVE  /\ g <= now - Window
                        /\ \A d \in Callers : stage'[d] \in Pipeline => g <= zstamp[d] - Window
      BY <2>3 DEF Kept
    <3>1. \A d \in Callers : stage'[d] \in Pipeline => stage[d] \in Pipeline
      BY <1>0, <2>2 DEF Pipeline
    <3>2. CASE g \notin zset
      BY <2>0, <3>1, <3>2 DEF Kept
    <3>3. CASE g \in zset
      BY <1>0, <2>1, <2>2, <2>4, <3>1, <3>3
    <3>. QED  BY <3>2, <3>3
  <2>. QED  BY <2>5, <2>7, <2>8
<1>5. ASSUME NEW c \in Callers, ZAdd(c)
      PROVE  Distinct' /\ Outlives' /\ Kept'
  <2>0. Distinct /\ Outlives /\ Kept
    BY <1>5 DEF ZAdd, RegularInv
  <2>1. /\ stage[c] = "add" /\ stage' = [stage EXCEPT ![c] = "count"]
        /\ zset' = zset \cup {zstamp[c]}
        /\ UNCHANGED <<now, zstamp, expires, zgrants>>
    BY <1>5 DEF ZAdd, Goto, vars
  <2>2. Distinct'
    BY <2>0, <2>1 DEF Distinct
  <2>3. Outlives'
    BY <1>0, <2>0, <2>1 DEF Outlives
  <2>4. Kept'
    BY <1>0, <2>0, <2>1 DEF Kept, Pipeline
  <2>. QED  BY <2>2, <2>3, <2>4
<1>6. ASSUME NEW c \in Callers, Granted(c) \/ OverLimit(c) \/ ReplyLost(c)
      PROVE  Distinct' /\ Outlives' /\ Kept'
  <2>0. Distinct /\ Outlives /\ Kept
    BY <1>6 DEF Granted, OverLimit, ReplyLost, RegularInv
  <2>. PICK to \in {"idle", "remove", "fallback"} :
         stage[c] = "count" /\ stage' = [stage EXCEPT ![c] = to]
    BY <1>6 DEF Granted, OverLimit, ReplyLost, Answer, Goto
  <2>1. zstamp' = zstamp \/ zstamp' = [zstamp EXCEPT ![c] = -1]
    BY <1>6 DEF Granted, OverLimit, ReplyLost, Answer
  <2>2. UNCHANGED <<now, zset>> /\ expires' = IF zset = {} THEN 0 ELSE now + 2 * Window
    BY <1>6 DEF Granted, OverLimit, ReplyLost, ExpireLater, vars
  <2>3. \/ zgrants' = zgrants
        \/ zgrants' = zgrants \cup {zstamp[c]} /\ zstamp' = [zstamp EXCEPT ![c] = -1]
    BY <1>6 DEF Granted, OverLimit, ReplyLost, Answer
  <2>4. Distinct'
    BY <1>0, <2>0, <2>1, <2>3 DEF Distinct
  <2>5. Outlives'
    <3> SUFFICES ASSUME NEW d \in Callers, stage'[d] \in {"add", "count"}
                 PROVE  /\ expires' # 0 => expires' > zstamp'[d] + Window
                        /\ stage'[d] = "count" => zstamp'[d] \in zset'
      BY DEF Outlives
    <3>1. d # c /\ stage'[d] = stage[d] /\ zstamp'[d] = zstamp[d]
      BY <1>0, <2>1
    <3>2. zstamp[d] <= now
      BY <1>a, <3>1 DEF Pipeline
    <3>. QED  BY <1>0, <2>0, <2>2, <3>1, <3>2 DEF Outlives
  <2>6. Kept'
    <3> SUFFICES ASSUME NEW g \in zgrants', g \notin zset
                 PROVE  /\ g <= now - Window
                        /\ \A d \in Callers : stage'[d] \in Pipeline => g <= zstamp'[d] - Window
      BY <2>2 DEF Kept
    <3>1. g \in zgrants
      BY <2>0, <2>3 DEF Outlives
    <3>2. \A d \in Callers :
            stage'[d] \in Pipeline => stage[d] \in Pipeline /\ zstamp'[d] = zstamp[d]
      BY <1>0, <2>1 DEF Pipeline
    <3>. QED  BY <2>0, <3>1, <3>2 DEF Kept
  <2>. QED  BY <2>4, <2>5, <2>6
<1>7. ASSUME NEW c \in Callers, ZRem(c) \/ PipelineFails(c) \/ ZRemFails(c)
      PROVE  Distinct' /\ Outlives' /\ Kept'
  <2>0. Distinct /\ Outlives /\ Kept
    BY <1>7 DEF ZRem, PipelineFails, ZRemFails, RegularInv
  <2>. PICK to \in {"idle", "fallback"} : stage' = [stage EXCEPT ![c] = to]
    BY <1>7 DEF ZRem, PipelineFails, ZRemFails, Answer, Goto
  <2>1. /\ zstamp' = [zstamp EXCEPT ![c] = -1]
        /\ UNCHANGED <<now, zgrants>>
        /\ stage[c] \in Pipeline \cup {"remove"}
    BY <1>7 DEF ZRem, PipelineFails, ZRemFails, Answer, Goto, vars, Pipeline
  <2>2. /\ zset' \subseteq zset /\ zset \subseteq zset' \cup {zstamp[c]}
        /\ expires' \in {0, expires}
    BY <1>7 DEF ZRem, PipelineFails, ZRemFails, Members
  <2>3. Distinct'
    BY <1>0, <2>0, <2>1 DEF Distinct
  <2>4. zstamp[c] # -1
    BY <1>a, <2>1
  <2>5. \A d \in Callers :
          stage'[d] \in Pipeline =>
            /\ d # c /\ stage'[d] = stage[d] /\ zstamp'[d] = zstamp[d]
            /\ zstamp[d] # zstamp[c]
    BY <1>0, <2>0, <2>1, <2>4 DEF Distinct, Pipeline
  <2>6. Outlives'
    BY <1>0, <2>0, <2>2, <2>5 DEF Outlives, Pipeline
  <2>7. Kept'
    <3> SUFFICES ASSUME NEW g \in zgrants, g \notin zset'
                 PROVE  /\ g <= now - Window
                        /\ \A d \in Callers : stage'[d] \in Pipeline => g <= zstamp'[d] - Window
      BY <2>1 DEF Kept
    <3>1. g \notin zset
      BY <2>0, <2>2, <2>4 DEF Distinct
    <3>. QED  BY <2>0, <2>5, <3>1 DEF Kept
  <2>. QED  BY <2>3, <2>6, <2>7
<1>8. ASSUME NEW c \in Callers, NoRedis(c) \/ MemAllow(c)
      PROVE  Distinct' /\ Outlives' /\ Kept'
  <2>0. Distinct /\ Outlives /\ Kept
    BY <1>8 DEF NoRedis, MemAllow, RegularInv
  <2>. PICK to \in {"idle", "fallback"} : stage' = [stage EXCEPT ![c] = to]
    BY <1>8 DEF NoRedis, MemAllow, Goto
  <2>1. UNCHANGED <<now, zstamp, zset, expires, zgrants>>
    BY <1>8 DEF NoRedis, MemAllow, ReadClock, Allow, Deny, Decided, vars
  <2>. QED  BY <1>0, <2>0, <2>1 DEF Distinct, Outlives, Kept, Pipeline
<1>9. CASE UNCHANGED allVars
  BY <1>9 DEF allVars, vars, redisVars, RegularInv, Distinct, Outlives, Kept
<1>. QED
  BY <1>1, <1>2, <1>3, <1>4, <1>5, <1>6, <1>7, <1>8, <1>9 DEF RNext, RedisAllow

LEMMA RedisWindowStep ==
  RTypeInv /\ RTypeInv' /\ RegularInv /\ RedisWindowLimit /\ [RNext]_allVars
    => RedisWindowLimit'
<1> SUFFICES ASSUME RTypeInv, RTypeInv', RegularInv, RedisWindowLimit, [RNext]_allVars,
                    regular', NEW t \in Time
             PROVE  Cardinality(zgrants' \cap (t - Window + 1 .. t)) <= Limit
  BY DEF RedisWindowLimit
<1>. USE LimiterAssumption
<1>1. ASSUME NEW c \in Callers, Granted(c)
      PROVE  Cardinality(zgrants' \cap (t - Window + 1 .. t)) <= Limit
  <2>. DEFINE s == zstamp[c]
              W == zgrants' \cap (t - Window + 1 .. t)
  <2>0. Outlives /\ Kept
    BY <1>1 DEF Granted, RegularInv
  <2>1. /\ zgrants' = zgrants \cup {s} /\ stage[c] = "count" /\ Cardinality(zset) <= Limit
    BY <1>1 DEF Granted, Answer, Goto
  <2>2. t \in Int /\ s \in Int /\ \A g \in zgrants : g \in Int
    BY DEF RTypeInv, RTypeOK, Time
  <2>3. s \in zset
    BY <2>0, <2>1 DEF Outlives
  <2>. HIDE DEF s
  <2>4. CASE s \in t - Window + 1 .. t
    <3>1. ASSUME NEW g \in zgrants, g \in t - Window + 1 .. t
          PROVE  g \in zset
      <4>1. ~ (g <= s - Window)
        BY <2>2, <2>4, <3>1
      <4>. QED  BY <2>0, <2>1, <4>1 DEF Kept, Pipeline, s
    <3>2. W \subseteq zset
      BY <2>1, <2>3, <3>1
    <3>3. IsFiniteSet(zset)
      <4>1. IsFiniteSet(Time)
        BY FS_Interval DEF Time
      <4>. QED  BY <4>1, SubsetBound DEF RTypeInv, RTypeOK
    <3>. HIDE DEF W
    <3>4. /\ Cardinality(W) <= Cardinality(zset)
          /\ Cardinality(W) \in Nat /\ Cardinality(zset) \in Nat
      BY <3>2, <3>3, SubsetBound
    <3>5. Cardinality(W) <= Limit
      BY <2>1, <3>4
    <3>. QED  BY <3>5 DEF W
  <2>5. CASE s \notin t - Window + 1 .. t
    <3>1. W = zgrants \cap (t - Window + 1 .. t)
      BY <2>1, <2>5
    <3>2. regular
      BY <1>1 DEF Granted
    <3>. QED  BY <3>1, <3>2 DEF RedisWindowLimit
  <2>. QED  BY <2>4, <2>5
<1>2. CASE zgrants' = zgrants /\ regular
  BY <1>2 DEF RedisWindowLimit
<1>3. ASSUME NEW c \in Callers, RedisAllow(c), ~ Granted(c)
      PROVE  zgrants' = zgrants /\ regular
  BY <1>3 DEF RedisAllow, Begin, Prune, ZAdd, OverLimit, ZRem, PipelineFails, ReplyLost,
              ZRemFails
<1>4. ASSUME NEW c \in Callers, NoRedis(c) \/ MemAllow(c)
      PROVE  zgrants' = zgrants /\ regular
  BY <1>4 DEF NoRedis, MemAllow
<1>5. CASE RTick \/ (CleanMap /\ UNCHANGED redisVars) \/ UNCHANGED allVars
  BY <1>2, <1>5 DEF RTick, redisVars, allVars
<1>. QED  BY <1>1, <1>2, <1>3, <1>4, <1>5 DEF RNext

\* Redis or not, no window holds more than Limit calls that redisAllow allowed, for any
\* interleaving of the commands of any number of callers with distinct timestamps of
\* which none prunes ahead of an older one.
THEOREM RedisLimitKept == RSpec => []RedisWindowLimit
<1>1. RSpec => []TypeInv
  BY RTypeInvariant
<1>2. RInit => RedisWindowLimit
  <2> SUFFICES ASSUME RInit
               PROVE  RedisWindowLimit
    OBVIOUS
  <2>1. \A S : zgrants \cap S = {}
    BY DEF RInit
  <2>. QED  BY <2>1, FS_EmptySet, LimiterAssumption DEF RedisWindowLimit
<1>. QED  BY <1>1, <1>2, RTypeInit, RTypeStep, RegularInit, RegularStep, RedisWindowStep,
             PTL DEF RSpec
================================================================================
