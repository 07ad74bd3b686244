-------------------------------- MODULE Accounts --------------------------------
(***************************************************************************)
(* Who owns a username over time: the rows of the registry with the times  *)
(* they were last seen (internal/registry/registry.go), the tokens that    *)
(* registrations and /auth/refresh issue (internal/auth, handler.go and    *)
(* server.go), and the restarts at which server.New reclaims the usernames *)
(* that were not seen for ReclaimDays.                                     *)
(*                                                                         *)
(* Timestamps are stored and compared as RFC 3339 text, and tokens expire  *)
(* on whole seconds.  The clock takes four instants of every second: on    *)
(* the second, and .5, .55 and .6 of a second after it.                    *)
(***************************************************************************)
EXTENDS RelayTypes, Integers

CONSTANTS
  Callers,   \* goroutines that serve one registration or client at a time
  Keep,      \* ReclaimDays, in ticks of the clock
  Expiry,    \* tokenExpiry
  MaxStall,  \* the longest a caller waits between reading the clock and the registry
  MaxTime    \* bound on the clock

ASSUME AccountsAssumption ==
  /\ Keep \in Nat \ {0}
  /\ Expiry \in Nat \ {0}
  /\ MaxStall \in Nat
  /\ MaxTime \in Nat

VARIABLES
  now,       \* the clock
  usernames, \* username -> install_id of its row, or NoInstall
  lastSeen,  \* username -> last_seen_at of its row
  tokens,    \* the tokens issued that have not expired
  call,      \* what a caller is serving
  stamp,     \* the time it has read for the registry
  granted,   \* history: the registrations that the shared token, or none, authorized
  held       \* history: when the registry last recorded a registration or a client of an
             \* installation that owned the username, -1 before the first

vars == <<now, usernames, lastSeen, tokens, call, stamp, granted, held>>

Time == 0 .. MaxTime
Second(t) == t \div 4

(***************************************************************************)
(* RFC3339Nano drops the zeros at the end of the fraction, and a fraction  *)
(* that is zero with its point: after the seconds comes "Z", ".5Z", ".55Z" *)
(* or ".6Z".  As text the first difference decides, with "." before the    *)
(* digits and these before "Z".  Text is the rank in that order.           *)
(***************************************************************************)
Text(t) == 4 * Second(t) + <<3, 1, 0, 2>>[(t % 4) + 1]

\* A slip of NumericDate: it rounds up.
NumericDateUp(t) == 4 * (Second(t) + 1)

\* The start of the second: NumericDate drops the fraction.
NumericDate(t) == 4 * Second(t)

Token == [username : Usernames, installID : Installs, exp : Nat]
Call == [stage : {"idle", "register", "apply", "issue", "touch", "update"},
         username : Usernames \cup {NoUser}, installID : Installs \cup {NoInstall}]
NoCall == [stage |-> "idle", username |-> NoUser, installID |-> NoInstall]

TypeOK ==
  /\ now \in Time
  /\ usernames \in [Usernames -> Installs \cup {NoInstall}]
  /\ lastSeen \in [Usernames -> Time]
  /\ tokens \subseteq Token
  /\ \A k \in tokens : now < k.exp /\ k.exp <= now + Expiry
  /\ call \in [Callers -> Call]
  /\ stamp \in [Callers -> Time \cup {-1}]
  /\ granted \subseteq Usernames \X Installs
  /\ held \in [Usernames -> [Installs -> Time \cup {-1}]]

Init ==
  /\ now = 0
  /\ usernames = [u \in Usernames |-> NoInstall]
  /\ lastSeen = [u \in Usernames |-> 0]
  /\ tokens = {}
  /\ call = [c \in Callers |-> NoCall]
  /\ stamp = [c \in Callers |-> -1]
  /\ granted = {}
  /\ held = [u \in Usernames |-> [i \in Installs |-> -1]]

rows == <<usernames, lastSeen, held>>

--------------------------------------------------------------------------------
(* Tokens.                                                                   *)

\* ValidateToken: expired tokens are not in tokens any more.
Issue(u, i) ==
  LET exp == NumericDate(now + Expiry) IN
  tokens' = IF now < exp THEN tokens \cup {[username |-> u, installID |-> i, exp |-> exp]}
            ELSE tokens

\* POST /auth/refresh: the registry is not asked.
RefreshToken(k) ==
  /\ Issue(k.username, k.installID)
  /\ UNCHANGED <<now, rows, call, stamp, granted>>

--------------------------------------------------------------------------------
(* server_register.                                                          *)

Serve(c, stage, u, i) ==
  /\ call[c].stage = "idle"
  /\ call' = [call EXCEPT ![c] = [stage |-> stage, username |-> u, installID |-> i]]
  /\ UNCHANGED <<now, rows, tokens, stamp>>

Finish(c, from) == call[c].stage = from /\ call' = [call EXCEPT ![c] = NoCall]
Goto(c, from, to) == call[c].stage = from /\ call' = [call EXCEPT ![c].stage = to]

\* The shared token, or none if the relay has none, authorizes what the message says.
WithAuthToken(c, u, i) ==
  /\ Serve(c, "register", u, i)
  /\ granted' = granted \cup {<<u, i>>}

\* A slip of WithJWT: the message's installID is used and not that of the claims.
WithJWTUnbound(c, k, i) ==
  /\ Serve(c, "register", k.username, i)
  /\ UNCHANGED granted

\* A JWT authorizes what its claims say, whatever installID i the message has.
WithJWT(c, k, i) ==
  /\ Serve(c, "register", k.username, k.installID)
  /\ UNCHANGED granted

\* Register and UpdateLastSeen read the clock before they take the mutex.
ReadClock(c) ==
  /\ Goto(c, "register", "apply") \/ Goto(c, "touch", "update")
  /\ stamp' = [stamp EXCEPT ![c] = now]
  /\ UNCHANGED <<now, rows, tokens, granted>>

\* The row of u, which installation i owns, gets the time the caller has read.
Seen(c, u, i) ==
  /\ lastSeen' = [lastSeen EXCEPT ![u] = stamp[c]]
  /\ held' = [held EXCEPT ![u][i] = now]
  /\ stamp' = [stamp EXCEPT ![c] = -1]

\* A slip of Register: the row of another installation is taken over.
RegisterTakesOver(c) ==
  LET u == call[c].username IN
  /\ Goto(c, "apply", "issue")
  /\ usernames' = [usernames EXCEPT ![u] = call[c].installID]
  /\ Seen(c, u, call[c].installID)
  /\ UNCHANGED <<now, tokens, granted>>

Register(c) ==
  LET u == call[c].username IN
  /\ Goto(c, "apply", "issue")
  /\ usernames[u] \in {NoInstall, call[c].installID}
  /\ usernames' = [usernames EXCEPT ![u] = call[c].installID]
  /\ Seen(c, u, call[c].installID)
  /\ UNCHANGED <<now, tokens, granted>>

\* The owner registers again and UPDATE fails: the error is ignored.
RegisterUnseen(c) ==
  /\ Goto(c, "apply", "issue")
  /\ usernames[call[c].username] = call[c].installID
  /\ stamp' = [stamp EXCEPT ![c] = -1]
  /\ UNCHANGED <<now, rows, tokens, granted>>

IssueToken(c) ==
  /\ Finish(c, "issue")
  /\ Issue(call[c].username, call[c].installID)
  /\ UNCHANGED <<now, rows, stamp, granted>>

\* The username is another installation's, the database fails, or no token is issued.
Reject(c) ==
  /\ call[c].stage # "idle"
  /\ call' = [call EXCEPT ![c] = NoCall]
  /\ stamp' = [stamp EXCEPT ![c] = -1]
  /\ UNCHANGED <<now, rows, tokens, granted>>

--------------------------------------------------------------------------------
(* client_connect, for a client that found the server.                       *)

Connect(c, u) ==
  /\ usernames[u] # NoInstall
  /\ Serve(c, "touch", u, NoInstall)
  /\ UNCHANGED granted

UpdateLastSeen(c) ==
  LET u == call[c].username IN
  /\ Finish(c, "update")
  /\ Seen(c, u, usernames[u])
  /\ UNCHANGED <<now, usernames, tokens, granted>>

--------------------------------------------------------------------------------
\* A slip of Inactive: the times are compared the wrong way round.
InactiveReversed(u) == now >= Keep /\ Text(lastSeen[u]) > Text(now - Keep)

\* DELETE FROM usernames WHERE last_seen_at < cutoff.
Inactive(u) == now >= Keep /\ Text(lastSeen[u]) < Text(now - Keep)

\* The process ends and is started again: New calls ReclaimInactive before it listens.
Restart ==
  /\ usernames' = [u \in Usernames |-> IF Inactive(u) THEN NoInstall ELSE usernames[u]]
  /\ call' = [c \in Callers |-> NoCall]
  /\ stamp' = [c \in Callers |-> -1]
  /\ UNCHANGED <<now, lastSeen, tokens, granted, held>>

\* Time passes; no caller waits longer than MaxStall for the registry.
Tick ==
  /\ now < MaxTime
  /\ \A c \in Callers : stamp[c] # -1 => now < stamp[c] + MaxStall
  /\ now' = now + 1
  /\ tokens' = {k \in tokens : now' < k.exp}
  /\ UNCHANGED <<rows, call, stamp, granted>>

Next ==
  \/ Tick \/ Restart
  \/ \E k \in tokens : RefreshToken(k)
  \/ \E c \in Callers :
       \/ \E u \in Usernames, i \in Installs : WithAuthToken(c, u, i)
       \/ \E k \in tokens, i \in Installs : WithJWT(c, k, i)
       \/ \E u \in Usernames : Connect(c, u)
       \/ ReadClock(c) \/ Register(c) \/ RegisterUnseen(c) \/ IssueToken(c)
       \/ UpdateLastSeen(c) \/ Reject(c)

Spec == Init /\ [][Next]_vars

--------------------------------------------------------------------------------
(* Properties.                                                               *)

\* Every owner of a username, and every token however often it was refreshed, goes back
\* to a registration that was authorized for that username and installation.
Provenance ==
  /\ \A u \in Usernames : usernames[u] # NoInstall => <<u, usernames[u]>> \in granted
  /\ \A k \in tokens : <<k.username, k.installID>> \in granted

\* The last that was recorded of the installation and the username is within ReclaimDays,
\* up to the second and the time a caller may stall before it writes.
Active(u, i) == held[u][i] # -1 /\ Second(now - Keep) < Second(held[u][i] - MaxStall)

\* Whoever registered a username and has since been active still owns it: neither a
\* restart, whatever slow callers wrote and however timestamps compare as text, nor the
\* registration of another installation with a token it refreshed ever since it owned the
\* username itself, takes it away.
KeptWhileActive ==
  \A u \in Usernames, i \in Installs : Active(u, i) => usernames[u] = i
================================================================================
