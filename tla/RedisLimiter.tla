------------------------------ MODULE RedisLimiter ------------------------------
(***************************************************************************)
(* AllowConnection and AllowMessage with Redis (redisAllow of              *)
(* internal/ratelimit/ratelimit.go) for one key, falling back to memAllow  *)
(* whenever Redis fails.  The commands of redisAllow's pipeline and its    *)
(* ZREM run one by one between those of other callers.  The key is a       *)
(* sorted set whose members are the timestamps themselves, as float64:     *)
(* calls whose nanoseconds round to the same value share a member.  The    *)
(* resolution of the clock here is that of the rounding.                   *)
(***************************************************************************)
EXTENDS Limiter

CONSTANT MaxFailures   \* bound on the calls for which Redis fails

ASSUME RedisLimiterAssumption == MaxFailures \in Nat

VARIABLES
  redis,     \* l.rdb # nil
  stage,     \* where a caller is in redisAllow
  zstamp,    \* the time it read there
  zset,      \* the members of the sorted set
  expires,   \* when the key expires, 0 if it is not set to
  zgrants,   \* history: the timestamps with which redisAllow allowed a call
  leftover,  \* history: members of calls for which Redis failed
  regular,   \* history: so far calls pruned in the order of their timestamps, none alike
  failures

redisVars == <<redis, stage, zstamp, zset, expires, zgrants, leftover, regular, failures>>
allVars == <<vars, redisVars>>

RTypeOK ==
  /\ TypeOK
  /\ redis \in BOOLEAN
  /\ stage \in [Callers -> {"idle", "prune", "add", "count", "remove", "fallback"}]
  /\ zstamp \in [Callers -> Time \cup {-1}]
  /\ zset \subseteq Time
  /\ expires \in 0 .. MaxTime + 2 * Window
  /\ zgrants \subseteq Time
  /\ leftover \subseteq Time
  /\ regular \in BOOLEAN
  /\ failures \in 0 .. MaxFailures

RInit ==
  /\ Init
  /\ redis \in BOOLEAN
  /\ stage = [c \in Callers |-> "idle"]
  /\ zstamp = [c \in Callers |-> -1]
  /\ zset = {}
  /\ expires = 0
  /\ zgrants = {}
  /\ leftover = {}
  /\ regular = TRUE
  /\ failures = 0

Goto(c, from, to) == stage[c] = from /\ stage' = [stage EXCEPT ![c] = to]

\* The call returns: its timestamp is of no more use.
Answer(c, from) == Goto(c, from, "idle") /\ zstamp' = [zstamp EXCEPT ![c] = -1]

--------------------------------------------------------------------------------
\* Redis deletes a sorted set with its last member, and its time to live with it.
Members(S) == zset' = S /\ expires' = IF S = {} THEN 0 ELSE expires

ExpireLater == expires' = IF zset = {} THEN 0 ELSE now + 2 * Window

(* redisAllow.                                                               *)

Begin(c) ==
  /\ redis
  /\ Goto(c, "idle", "prune")
  /\ zstamp' = [zstamp EXCEPT ![c] = now]
  /\ regular' = (regular /\ \A t \in zset \cup {zstamp[d] : d \in Callers \ {c}} : t < now)
  /\ UNCHANGED <<vars, redis, zset, expires, zgrants, leftover, failures>>

\* ZREMRANGEBYSCORE -inf cutoff.
Prune(c) ==
  /\ Goto(c, "prune", "add")
  /\ Members({t \in zset : t > zstamp[c] - Window})
  /\ regular' = (regular /\ \A d \in Callers : stage[d] \in {"prune", "add", "count"}
                                                 => zstamp[d] >= zstamp[c])
  /\ UNCHANGED <<vars, redis, zstamp, zgrants, leftover, failures>>

ZAdd(c) ==
  /\ Goto(c, "add", "count")
  /\ zset' = zset \cup {zstamp[c]}
  /\ UNCHANGED <<vars, redis, zstamp, expires, zgrants, leftover, regular, failures>>

\* A slip of Granted: the comparison lets one call too many through.
GrantedOffByOne(c) ==
  /\ Cardinality(zset) <= Limit + 1
  /\ Answer(c, "count")
  /\ ExpireLater
  /\ zgrants' = zgrants \cup {zstamp[c]}
  /\ UNCHANGED <<vars, redis, zset, leftover, regular, failures>>

\* ZCARD and EXPIRE: the call's own member counts.
Granted(c) ==
  /\ Cardinality(zset) <= Limit
  /\ Answer(c, "count")
  /\ ExpireLater
  /\ zgrants' = zgrants \cup {zstamp[c]}
  /\ UNCHANGED <<vars, redis, zset, leftover, regular, failures>>

OverLimit(c) ==
  /\ Cardinality(zset) > Limit
  /\ Goto(c, "count", "remove")
  /\ ExpireLater
  /\ UNCHANGED <<vars, redis, zstamp, zset, zgrants, leftover, regular, failures>>

\* A slip of ZRem: the call is denied and its member stays.
ZRemForgotten(c) ==
  /\ Answer(c, "remove")
  /\ UNCHANGED <<vars, redis, zset, expires, zgrants, leftover, regular, failures>>

ZRem(c) ==
  /\ Answer(c, "remove")
  /\ Members(zset \ {zstamp[c]})
  /\ UNCHANGED <<vars, redis, zgrants, leftover, regular, failures>>

\* Redis is not reached, and nothing was run ...
PipelineFails(c) ==
  /\ failures < MaxFailures
  /\ Goto(c, "prune", "fallback")
  /\ failures' = failures + 1
  /\ zstamp' = [zstamp EXCEPT ![c] = -1]
  /\ UNCHANGED <<vars, redis, zset, expires, zgrants, leftover, regular>>

\* ... or it ran the pipeline and the reply is lost.
ReplyLost(c) ==
  /\ failures < MaxFailures
  /\ Goto(c, "count", "fallback")
  /\ failures' = failures + 1
  /\ ExpireLater
  /\ leftover' = leftover \cup {zstamp[c]}
  /\ zstamp' = [zstamp EXCEPT ![c] = -1]
  /\ UNCHANGED <<vars, redis, zset, zgrants, regular>>

\* The error of ZREM is ignored.
ZRemFails(c) ==
  /\ failures < MaxFailures
  /\ Answer(c, "remove")
  /\ failures' = failures + 1
  /\ leftover' = leftover \cup {zstamp[c]}
  /\ UNCHANGED <<vars, redis, zset, expires, zgrants, regular>>

RedisAllow(c) ==
  \/ Begin(c) \/ Prune(c) \/ ZAdd(c) \/ Granted(c) \/ OverLimit(c) \/ ZRem(c)
  \/ PipelineFails(c) \/ ReplyLost(c) \/ ZRemFails(c)

--------------------------------------------------------------------------------
(* memAllow without Redis or after its failure, and the clock.               *)

NoRedis(c) ==
  /\ ~ redis
  /\ Goto(c, "idle", "fallback")
  /\ UNCHANGED <<vars, redis, zstamp, zset, expires, zgrants, leftover, regular, failures>>

MemAllow(c) ==
  /\ stage[c] = "fallback"
  /\ ReadClock(c) \/ Allow(c) \/ Deny(c)
  /\ stage' = [stage EXCEPT ![c] = IF stamp'[c] = -1 THEN "idle" ELSE "fallback"]
  /\ UNCHANGED <<redis, zstamp, zset, expires, zgrants, leftover, regular, failures>>

RTick ==
  /\ Tick
  /\ \A c \in Callers : zstamp[c] # -1 => now < zstamp[c] + MaxStall
  /\ Members(IF now' = expires THEN {} ELSE zset)
  /\ UNCHANGED <<redis, stage, zstamp, zgrants, leftover, regular, failures>>

RNext ==
  \/ RTick
  \/ CleanMap /\ UNCHANGED redisVars
  \/ \E c \in Callers : RedisAllow(c) \/ NoRedis(c) \/ MemAllow(c)

RSpec == RInit /\ [][RNext]_allVars

--------------------------------------------------------------------------------
(* Properties.                                                               *)

\* No window holds more than Limit calls that redisAllow allowed, although the commands
\* of concurrent calls interleave, as long as no two calls have the same timestamp and
\* none prunes ahead of an older one.
RedisWindowLimit ==
  regular => \A t \in Time : Cardinality(zgrants \cap (t - Window + 1 .. t)) <= Limit

\* Whatever counts against a call was allowed, is being decided or was left behind by a
\* failure of Redis: calls that were denied do not add up to a lasting denial.
MembersBacked ==
  \A t \in zset :
    t \in zgrants \cup leftover \/ \E c \in Callers : zstamp[c] = t
================================================================================
