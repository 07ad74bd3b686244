# Verification of the relay server

The relay lets a *server* (a desktop or agent process behind NAT) register a
username over a WebSocket, lets *clients* connect to that username over
WebSockets of their own, and forwards frames between them. This directory holds
TLA+ modules for its concurrent core, TLC configurations that check them on small
instances, and TLAPS proofs of the properties that matter most.

## The system

| Component | State | Operations | Module |
|---|---|---|---|
| Connection manager (`internal/connections/connections.go`) | `conns`, `multiGroups`, `msgLimiter`, counters | `RegisterServer`, `ConnectClient`, `Forward*`, `IsPaired`, `HandleClose`, `CloseAll` | `Manager`, `ServeWS`; its promise in `Rendezvous` |
| In-memory store (`memstore.go`, `store.go`) | `waiting` (username -> server), `peers` (both directions) | `SetWaiting`, `RemoveWaiting`, `CreatePair`, `RemovePair`, lookups | `MemStore` |
| Redis store (`redisstore.go`) | the same two maps as Redis keys with a TTL, two index sets | the same | `RedisStore`, `RedisRelay` |
| Replay buffer (`buffer.go`), backpressure (`writeToConn`) | a bounded Redis list per username, a pending counter per connection | `Push`, `GetFrames`, `Clear` | `Delivery` |
| Frame codec (`connections.go`) | none | `WrapMultiClientFrame`, `ParseMultiClientHeader` | `Codec` |
| WebSocket handler (`internal/handler/handler.go`) | the goroutine of each connection; the fields `Username`, `MultiClient`, `ClientID` of its `Conn` | `ServeWS`, `pingLoop` | `ServeWS`, `Keepalive` |
| Username registry (`internal/registry/registry.go`) | SQLite table username -> installation, timestamps | `CanRegister`, `Register`, `IsRegistered`, `UpdateLastSeen`, `ReclaimInactive` | `Registry`, `Accounts` |
| JWT authentication (`internal/auth/jwt.go`) | none; tokens are in the hands of servers | `IssueToken`, `ValidateToken`, `RefreshToken` | `Accounts` |
| Rate limiter (`internal/ratelimit/ratelimit.go`) | a sliding window of timestamps per key, in memory or as a Redis sorted set | `AllowConnection`, `AllowMessage`, `cleanup` | `Limiter`, `RedisLimiter` |
| Server lifecycle and HTTP (`internal/server/server.go`, `cmd/relay`) | listener, HTTP server | `New`, `handleWS`, `Shutdown`, `Close`; `/auth/refresh`; read-only reports | `ServeWS` (`Accept`, `Shutdown`), `Accounts` (`Restart`, `RefreshToken`) |
| Protocol, configuration, Redis client | none of their own | parsing, set-up | messages as records |

**How they interact.** `handleWS` upgrades a request and runs `ServeWS` in the
request's goroutine. `ServeWS` reads frames. While the connection is unpaired a
frame is a handshake: `server_register` asks the registry, then publishes the
connection in the store; `client_connect` asks the registry, then looks up the
waiting server. A *legacy* server is taken out of `waiting` and paired with
exactly one client in `peers`; a *multi-client* server stays in `waiting` and
gets a group of clients. After that every frame goes to `Forward`. When the read
fails the deferred `HandleClose` takes the connection out of the maps and spawns
goroutines that close whoever depended on it. Registering a username again
evicts the server that was waiting.

**What is hard.** `Manager.mu` protects the maps, but not a handler as a whole:
`IsPaired`, the registry calls, the critical section, the assignments to the
`Conn` and the replies are separate steps, and other goroutines run in between.
A connection that is evicted or closed keeps running its handler until its read
fails, and its `HandleClose` may come much later. Targets of a frame are chosen
under the mutex and written to outside it. `CloseAll` empties the maps while
handshakes are under way. The rate limiter and the registry read the clock before
they have their mutex. What is in Redis is shared by several processes, expires, and
is changed by pipelines whose commands others come between; most errors of Redis are
ignored. `PROJECT.json` lists these hazards line by line.

**What makes it correct.** Frames never leave a username or pass between two
clients; the server found under a username belongs to its owner; pairs are
symmetric and end with either side; no map leads to a connection that is gone;
an open connection is on offer or has a partner that will close it (with one
exception, which is a bug); whoever loses its partner is disconnected;
the limiter neither admits more than its limit nor counts what it refused; what
Redis forgets costs only the connections it forgets; the buffer keeps the latest
frames; whoever registered a username owns it for as long as it is active.

## The modules

    RelayTypes                constants the components share
      MemStore  Registry      operations of the store and of the registry
        Manager               critical sections of Manager.mu
          ServeWS             goroutines, remote ends, shutdown: the specification
            MCServeWS         instances for TLC
            Keepalive         ServeWS with pingLoop and silent remote ends
              MCKeepalive
            ServeWSProofs -> PairingProofs -> ReachProofs
            ServeWSProofs -> RendezvousProofs (Keepalive too)
      RedisStore              operations of the store in Redis
        RedisRelay            several relays that share it
          MCRedisRelay
          RedisProofs
      Accounts                ownership of usernames over time, tokens, restarts
        AccountsProofs
    Rendezvous                abstract: offers, pairs, partings (instantiated by ServeWS)
    Delivery  Codec           writeToConn and the replay buffer; the frame header
      MCDelivery
      DeliveryProofs
    Limiter                   rate limiter in memory
      RedisLimiter            with Redis, and the fallback
        LimiterProofs         about both

`MemStore`, `Registry` and `Manager` define no behaviour of their own: each
operator is the effect of one critical section, and `ServeWS` says who performs
it when. `ServeWS` has a program counter per connection:

| `pc` | Place in the code |
|---|---|
| `idle` | before `handleWS` has upgraded the request |
| `read` | `ws.Read` in the loop of `ServeWS` |
| `canRegister`, `register`, `publish` | the three critical sections of `RegisterServer` |
| `settle` | assignment of `conn.Username` and `conn.MultiClient`, then `server_registered` |
| `lookup`, `join` | `IsRegistered`, then the critical section of `ConnectClient` |
| `announce`, `greetMember`, `greetPeer` | `relay_client_joined` to the server, then the client's fields and `client_connected` |
| `forward`, `write` | choosing the targets in `Forward`, then one `writeToConn` for each |
| `close`, `farewell`, `done` | the deferred `HandleClose`, the write of `relay_client_left`, the end |

Abstractions worth knowing:

- The `Conn` pointers of the program are the connections themselves. The value
  behind a group's client ID is a fresh UUID that names only the connection, so
  `clientID[c]` is a Boolean and a group's clients are a set.
- `ws[c]` is `closing` from the moment a goroutine that calls `WS.Close` on it is
  spawned: the reader may still deliver frames until the close completes.
- The payload of frames is left out. A frame of a multi-client server may carry a
  header naming a client, so `Forward` chooses between one member of the group,
  all of them, or nobody. A frame over the rate limit, like one dropped by
  backpressure, is written to nobody.
- `Reject` is always possible where the registry is asked, because every SQL error
  is reported as a rejection. `CanRegister` and `IsRegistered` are guards of the
  successful steps.
- A request's `authorized` is the verdict of the JWT or token comparison. An
  invalid username is one outside `ValidUsernames`.
- `CloseAll` can happen at any time and more than once; goroutines continue after
  it, as they do in the program until the process exits.
- `Limiter` follows one key. `entries` is the key's slice of timestamps as a set, in
  which those of one time are numbered (`Entry`); `grants`, `ordered` and `last` are
  history.

**`Rendezvous`** knows names, offers, partners and who has not taken part yet.
`ServeWS` instantiates it: `waiting` is the offer, `peers` the partner, and a
connection is fresh until a critical section of `RegisterServer` or
`ConnectClient` has accepted it, or it was turned away. `ImplementsRendezvous` says
that every step of every handler is one step of `Rendezvous` or none, so that
nobody is offered or paired twice, and a pair is made and parts in one step.

**`Keepalive`** adds a `pingLoop` to each connection and remote ends that are gone
without the network saying so. Every step is a step of `ServeWS` or leaves its
variables alone (`KeepaliveImplements`), so what is checked of `ServeWS` in `sole` is
checked, and what is proved of its steps holds, with the keepalive running.

**`RedisRelay`** has one `Manager` per relay process: its own mutex, held across
its calls to Redis as in the code, and its own `conns`. It keeps of the handlers
what touches the store, for legacy servers (the groups of multi-client servers
are not in the store) that the registry has let in. A call to Redis may fail with or
without having had its effect. `excused` records whose entries were lost to time,
to a failed call or to another relay; `LostOnlyWithExcuse` says nobody else is
affected. A crash ends all handlers of a relay and leaves their keys. Clients come one
after another: `NextClient` is a new connection in the place of one that nothing names
any more, so that a client may ask for a username any number of times.

**`Delivery`** starts where `Forward` has chosen a target. The commands of `Push`'s
pipeline are separate steps. Legacy frames are numbered; `missed` are those that did
not reach their target, nor any client since, and `lost` those of them that a
`Clear` deleted. **`Codec`** is pure operators and one step that gives them any
frame; its UUID is two bytes, and there are three bytes. `MCDelivery` runs the two side
by side: they share no variable.

**`RedisLimiter`** runs the commands of `redisAllow` one by one. Its clock ticks at
the resolution of a float64 of the current time in nanoseconds, since the
timestamp itself is the member of the sorted set. After a failure the call is
decided by `memAllow`, which is `Limiter`'s.

**`Accounts`** has a clock of four instants per second, chosen so that the order of
RFC3339Nano texts (`Text`) differs from the order of time, and tokens that expire
on whole seconds. `Restart` ends the process and reclaims; tokens survive it. `held`
is history: the latest time recorded for a username by the installation that owned it,
kept when the username is taken away.

## The runs

| Run | Instance | Checks | Result |
|---|---|---|---|
| `legacy` | two legacy servers (same or competing installations, one possibly unauthorized), two clients, two usernames | `TypeOK`, `PairsLive`, `Isolation`, `ImplementsRendezvous` | holds |
| `mixed` | two servers of either kind and either installation, two clients, one username | `PeersSymmetric`, `NoGhosts`, `NoStranded`, `OwnerOnly` | holds |
| `sole` | one server of either kind, pinged, two clients | `KTypeOK`, `Isolation`, `DisbandedByOwner`; `Teardown`, `SilentServerLeaves` (liveness) | holds |
| `redis` | two relays, two servers and a sequence of clients of one username, TTL 2, one crash, one failed call | `TypeOK`, `IndexCovers`, `PairsLocal`, `LostOnlyWithExcuse`; `StaleOffersEnd` (liveness) | holds |
| `delivery` | three writers to one server, two legacy senders, one client; 2 pending writes, buffer of 1, 3 buffered frames; byte sequences up to 5 | `TypeOK`, `PendingExact`, `RingBound`, `KeepsLatest`, `HeaderExact` | holds |
| `limiter` | two callers, with or without Redis, limit 1, window 2, stalls up to 2, clock to 5, one failure | `RTypeOK`, `WindowLimit`, `NoFalseDenial`, `RedisWindowLimit`, `MembersBacked` | holds |
| `accounts` | two installations, one username, two callers, clock to 14 | `TypeOK`, `Provenance`, `KeptWhileActive` | holds |
| `early_client` | one multi-client server, one client | `MultiNeverLegacy` | violated |
| `stale_group` | two multi-client servers of one installation, two clients | `AnnouncedRoute` | violated |
| `late_eviction` | the same with one client | `DisbandedByOwner` | violated |
| `reregister` | one legacy server that registers twice, two clients | `PeersSymmetric` | violated |
| `lost_frame` | one legacy sender, one client, buffer of 2 | `NoLostFrame` | violated |

**Bounds.** `MaxHandshakes` is the number of handshake messages read from one
connection; the program has no limit. It is 1 in the runs that hold, which is
what the tests do and what a client library does, and 2 in `reregister`,
which shows that the restriction matters. Four connections are enough for the
races the manager is exposed to: an old and a new server with a client
of each. Two usernames are needed only where
isolation between usernames is at stake. The two clients of `mixed` are
interchangeable and the run uses that symmetry, which is sound for its
invariants. In `Limiter`, `MaxStall` bounds how long
a caller may wait for the mutex after it read the clock; it is at most `Window`
(a stall of a second or a minute), because `cleanup` keeps two windows, and a
caller stalled for longer than one could find a call forgotten that is still in
its window. `MaxTime` is more than two windows, so that entries expire, are pruned
and are cleaned, and the sorted set can expire as a whole. The window is longer than
the limit, because a sorted set holds each timestamp once. The properties also held
for a limit of 2, a window of 3 and a clock to 6.

In `redis` the two servers and the clients are enough for a server that is evicted
by another of its relay or displaced by one of the other relay, before, during and
after the pairing of a client; one failed call and one crash can hit any step, and
TTL 2 lets a key be renewed between two ticks. One client at a time asks, but without
end, so that a key that each of them only renewed would never expire: `StaleOffersEnd`
is violated as soon as `DropStaleServer` leaves the key. The clients and one server
reach the same relay and the other server either (`RelaysOf`), so that the servers meet
in one relay or across two, and a client finds its server or takes it for gone. The
properties also held when the clients and both servers reach either relay, up to an
exchange of the relays. In `delivery` three writers against
two pending writes make a drop happen, and a buffer of one with two senders makes
every push a trim that may take the other's frame. `HeaderExact` needs headers that
are cut short, exact and followed by data. In `accounts` `Keep` is more than a
second, and `MaxTime` leaves room for a username to be registered, reclaimed,
registered by the other installation and claimed again with an old token.

**Deadlock** is checked in `redis`, where clients never stop coming. Time passes there
only while some key can expire, so an instance whose servers and keys are gone goes on
only if clients are served to the end: a handler that kept `mu` when a call fails would
leave the next client waiting for it, and TLC stops there. In the others an
instance has finitely many connections or frames, or a bounded clock, and rightly
stops when they are used up. That nobody waits for ever on a partner is `Teardown`.

**Fairness.** `Spec` has weak fairness on each goroutine's own steps (`Step(c)`)
and on `CloseCompletes(c)`. The Go scheduler runs runnable goroutines, mutexes
are held briefly and never across a write, each write has a timeout
(`relayWriteTimeout`), and `websocket.Conn.Close` gives up waiting for the close
handshake after a few seconds. Nothing is assumed about remote ends: they may
send nothing for ever, and never disconnect. `KSpec` adds weak fairness on each
`pingLoop`, a goroutine driven by a ticker and a timeout: one of its three steps is
always possible until it ends. `RedisRelay` has weak fairness on the clock of Redis
and on nothing else: a client that stops before it drops the key lets it expire, and
one that goes on drops it. That only `MaxFaults` calls fail matters: a store that fails
at every drop keeps the offer.

### Where the properties that hold end

- `LostOnlyWithExcuse` is as strong as the code allows: a server that waits for
  longer than the TTL while no client asks for it, an idle pair, a client that asks
  another relay, or a failed call each make a connected server unreachable, or
  leave a client connected to nobody.
- `SilentServerLeaves` is about legacy servers. `pingLoop` ends for good when it
  finds its connection paired, so a multi-client server whose clients have left is
  on offer and not pinged. No comment or test says otherwise.
- `RedisWindowLimit` needs timestamps that differ and are pruned in order
  (`regular`): calls that share a float64 share a member and count once.
- `KeptWhileActive` is stated up to the second: within a second the order of the
  texts is not that of the times, and the exact statement is false.
- `NoStranded` has an exception, `Mispaired`, without which `mixed` violates it. A
  multi-client server `s1` is published, a client `c1` is paired with it in legacy mode
  before it settles (the bug of `early_client`), and `s1` settles as multi-client. A
  second server `s2` registers the username and gets a client, and so a group. Now `s1`
  closes: `HandleClose` finds a group under its username, returns from that branch
  (`connections.go:343-361`) and never reaches `RemovePair`. `c1` stays open, paired
  with a server that is gone, and nobody will close it. No other connection can get
  into this position.
- `NoGhosts` needs one handshake per connection. A server that registers `u1`, then
  `u2`, and closes is removed from `waiting` under `u2` only (`handler.go:94` overwrites
  the username that `HandleClose` uses), and `waiting[u1]` leads to a closed connection.

### What the violated runs show

- `early_client`: `RegisterServer` publishes the connection before the handler
  sets `conn.MultiClient` (`handler.go:96`). A client that connects in between
  sees a legacy server and takes it out of `waiting`. Afterwards `HandleClose` of
  the server can take the multi-client branch and leave its half of the pair.
  This is why `PairsLive` is checked and proved for legacy servers only.
- `stale_group`: replacing a multi-client server leaves its group, and
  `ConnectClient` adds new clients to the group that is there
  (`connections.go:169`). The client was announced to the new server, and its
  frames go to the old one.
- `late_eviction`: the `HandleClose` of the replaced server removes the group
  under its username without asking whose it is (`connections.go:344`), and
  disconnects the clients of its replacement.
- `reregister`: `IsPaired` is asked before the registration and can be stale
  when the server is published again (`handler.go:48`): it becomes waiting and
  paired at once, and the next client overwrites one half of the pair.

- `lost_frame`: `ServeWS` ignores whether `buffered_messages` could be sent and
  clears the buffer all the same (`handler.go:129-130`), and what was pushed after
  `GetFrames` read the list is deleted with it. Frames the client before missed
  are then never replayed.

Each has a finding in `PROJECT.json` with the comment or test line it contradicts.

## The proofs

Every invariant, action property and refinement that a passing run checks is also a
theorem, for any values of the constants that satisfy the `ASSUME`s of the modules; the
sets may be infinite unless it is said otherwise.

| Theorem | Says | Assumes |
|---|---|---|
| `ServeWSProofs!TypeCorrect` | `TypeOK` | |
| `ServeWSProofs!IsolationHolds` | `Isolation` | one handshake |
| `ServeWSProofs!SoleDisband` | `DisbandedByOwner` | one handshake, sole servers |
| `PairingProofs!PairsSymmetric` | `PeersSymmetric` | one handshake |
| `PairingProofs!OwnerServes` | `OwnerOnly` | one handshake |
| `ReachProofs!NoGhostsHold` | `NoGhosts` | one handshake |
| `ReachProofs!NobodyStranded` | `NoStranded` | one handshake |
| `ReachProofs!PairsEnd` | `PairsLive` | one handshake, legacy servers |
| `RendezvousProofs!RelayImplementsRendezvous` | `Spec => ImplementsRendezvous` | one handshake |
| `RendezvousProofs!KeepaliveTypes` | `KTypeOK` | |
| `RendezvousProofs!KeepaliveImplements` | `KSpec` implies the safety part of `ServeWS`'s `Spec` | |
| `RendezvousProofs!KeepaliveIsolates` | `Isolation` under `KSpec` | one handshake |
| `RendezvousProofs!KeepaliveDisbands` | `DisbandedByOwner` under `KSpec` | one handshake, sole servers |
| `RedisProofs!TypeCorrect` | `TypeOK` | |
| `RedisProofs!IndexComplete` | `IndexCovers` | |
| `RedisProofs!PairsStayLocal` | `PairsLocal` | |
| `RedisProofs!NothingLost` | `LostOnlyWithExcuse` | |
| `DeliveryProofs!TypeCorrect` | `TypeOK` | finitely many senders |
| `DeliveryProofs!PendingCounted` | `PendingExact` | finitely many senders |
| `DeliveryProofs!RingBounded` | `RingBound` | finitely many senders |
| `DeliveryProofs!LatestKept` | `KeepsLatest` | finitely many senders |
| `DeliveryProofs!HeaderRoundTrip` | `HeaderExact` | |
| `LimiterProofs!LimitKept` | `WindowLimit` | `MaxStall <= Window` |
| `LimiterProofs!DenialJustified` | `NoFalseDenial` | `MaxStall <= Window` |
| `LimiterProofs!MemoryIndependent` | `RSpec => Spec`: the two above hold with Redis too | |
| `LimiterProofs!TypeCorrect` | `RTypeOK` | `MaxStall <= Window` |
| `LimiterProofs!CountsBacked` | `MembersBacked` | `MaxStall <= Window` |
| `LimiterProofs!RedisLimitKept` | `RedisWindowLimit` | `MaxStall <= Window` |
| `AccountsProofs!TypeCorrect` | `TypeOK` | |
| `AccountsProofs!Authorized` | `Provenance` | |
| `AccountsProofs!OwnershipKept` | `KeptWhileActive` | |

*One handshake* is `MaxHandshakes = 1`; `reregister` shows that `PairsSymmetric` needs
it. *Sole servers* (`SoleServers`) says that no two connections can register the same
username; `stale_group` and `late_eviction` show what a second one changes. *Legacy
servers* is `LegacyOnly`, which `early_client` is about. A process has finitely many
goroutines, and `MaxStall <= Window` is part of `LimiterAssumption` (see the bounds).
The bounds on clocks, crashes, failures and frames are arbitrary in the theorems.

**The in-memory relay.** A chain of inductive invariants, each containing the previous:

1. `TypeInv` adds `Stages` to `TypeOK`: a goroutine inside a handshake holds a
   request of the matching kind. Without it the fields of the request that the
   critical sections use would have no type.
2. `RouteInv` adds `Agreement`: the maps and the fields of a `Conn` agree with the
   requests. Who waits for `u` or serves its group asked to serve `u`, who is in
   the group asked to connect to `u`, and peers are opposite. `Isolation` alone is
   not inductive: targets are taken from the maps, of which it says nothing.
3. `Told`, beside it: a client that has a peer, a group or a target was connected to a
   server of its username (`serverWS`). With sole servers that is the only one whose
   end can disband its group, which is `SoleDisband`.
4. `PairInv` adds `Unpaired` (who waits has no peer, and neither has anyone who has
   not reached the manager yet), so that `CreatePair` never overwrites a pair.
   `OwnerInv` instead adds `Entered`: between `Register` and the publication the
   username belongs to the goroutine's installation, which carries the recheck
   inside `Register` over to the maps.
5. `GhostInv` adds `Recorded` to `PairInv`: the fields that `HandleClose` decides by
   are set for whoever the maps lead to, except a server between `publish` and
   `settle`, which cannot close there.
6. `ReachInv` adds `Reachable`, which says of every label past the handshake that the
   maps lead to the connection. `Parted`, beside it, says that nobody who is gone still
   has a peer, except a multi-client server: a member of a group has none, and otherwise
   only the group branch of a server skips `RemovePair`. With `GhostInv`, which says the
   same of groups, this gives `NoStranded`. `LegacyInv` adds `NoMulti`, which leaves
   `PairsLive`.
7. The refinement needs no more than `RouteInv`: each action of `ServeWS` is
   matched with one of `Rendezvous` (`Publish` with `MakeOffer`, `JoinLegacy` with
   `TakeOffer`, `CloseOther` with `Withdraw` or `Part`, rejections with `Leave`, ...),
   and a connection in a handshake is fresh because it has asked once and
   `MaxHandshakes = 1`. For `Keepalive` the mapping is the identity: a pong that is
   missing is a `Disconnect`, or nothing if the WebSocket is closed already.

**Several relays (`RedisProofs`).** `StoreInv` (a key is there as long as it has time to
live, and then it is listed) is kept by every operation of the store, `StoreOp`, and so
by every step. `Placed` says that a handler in the middle of a critical section holds
the mutex of its relay. With it `PairInv` is inductive. Its core is `Chosen`: the
server a client has found, if it is of the same relay, is nobody's peer until the
client lets go of the mutex, because any other client that could take it needs the same
mutex; a server of another relay is never paired with, but dropped. `Mates` says a
connection is the peer of one other, even when one of the two keys has expired.
`Settled` is `LostOnlyWithExcuse` for all labels of a handler that is forwarding. Steps
that only delete keys (`Shrinks`), and those that leave their values alone
(`QuietStep`), are treated together.

**The write path (`DeliveryProofs`).** `PendingExact` is inductive with the types;
each step moves one sender into or out of one of the counted sets. `RingBound` needs
that a trim leaves at most `MaxSize` frames (`TrimProperties`) and that a push adds one
to both sides. `KeepsLatest` is proved position by position (`Latest`), since a suffix
of a suffix is one. `HeaderExact` is no induction: the codec is defined by positions,
and `Wrapped` and `ParseInverse` compare them.

**The limiter (`LimiterProofs`).** For `memAllow`, `Remembered` says that as long as the
mutex is taken in order, a call that was allowed is an entry until it is out of the
window of every later call; `cleanup` may drop what is two windows old because no
caller is stalled for more than one. So the entries that count are all the grants that
count, and a window ends at the latest grant in it. `Numbered` makes timestamps of the
same time distinct, so that windows can be counted as sets. For `redisAllow`, `Lifetime`
and `Outlives` say that the key does not expire between the commands of a call, and
`Kept` that an allowed call is a member until it is out of every window still to be
counted: the last call of a full window counts all the others and itself.

**Ownership (`AccountsProofs`).** `CallNamed` gives the calls under way their names;
`CallGranted` says that a call that is going to write was authorized, and carries
`Provenance` through the steps of a registration. `KeptWhileActive` rests on `Fresh`
(what is recorded lags behind what happened by no more than a stall) and on
`TextOrder`: texts in order are times in order, up to the second, so that who is
reclaimed was not active (`InactiveIdle`). `KeptStep` then has to show that no other step
gives the username of somebody active to another.

All these invariants were also checked with TLC on the instances above.

**Only model-checked:** `Teardown`, `SilentServerLeaves` and `StaleOffersEnd`: liveness
under fairness, like `ENABLED`, is out of the prover's reach.

## Not modelled

Counters behind `/health`, the read-only HTTP reports, configuration, the Redis
client, JSON and the regular expression for usernames, and the cryptography of
JWTs: none of these changes the state the properties are about. `Delete` and
`List` of the registry have no caller outside its tests.

`cmd/relay/main.go` does not pass the Redis URL, the JWT secret, the rate limits or
the buffer size of the configuration on to `server.Options`: as built there, the
relay runs without Redis, tokens, limiter and buffer. `RedisRelay`, `RedisLimiter`,
`Delivery`'s buffer and the tokens of `Accounts` model what `server.New` sets up when
it is given these options.

## Plan

1. Done: the modules above, the refinements of `Rendezvous` and by `Keepalive`, and a
   proof of every safety property of the passing runs.
2. How far the theorems with one handshake per connection extend to several: not
   `NoGhosts` (see above). `OwnerOnly`, which held on a small instance with two
   handshakes and one installation, has to be restated first: it speaks of the latest
   request, and a connection may be on offer under an earlier one.
3. An abstract specification of the shared store, refined by `RedisRelay`, in which a
   server is offered once and lost only with an excuse.
