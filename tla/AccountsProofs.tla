----------------------------- MODULE AccountsProofs -----------------------------
(***************************************************************************)
(* Proofs of the properties of Accounts.                                   *)
(***************************************************************************)
EXTENDS Accounts, TLAPS

--------------------------------------------------------------------------------
(* Seconds and texts.                                                        *)

LEMMA SecondBounds ==
  ASSUME NEW t \in Int
  PROVE  /\ Second(t) \in Int
         /\ 4 * Second(t) <= t
         /\ t < 4 * Second(t) + 4
BY DEF Second

LEMMA SecondMonotone ==
  ASSUME NEW s \in Int, NEW t \in Int, s <= t
  PROVE  Second(s) <= Second(t)
BY SecondBounds

\* The text of a time stays within its second.
LEMMA TextBounds ==
  ASSUME NEW t \in Nat
  PROVE  /\ Text(t) \in Int
         /\ 4 * Second(t) <= Text(t)
         /\ Text(t) < 4 * Second(t) + 4
<1>. DEFINE r == (t % 4) + 1
            rank == <<3, 1, 0, 2>>
<1>1. r \in 1 .. 4
  OBVIOUS
<1>2. Text(t) = 4 * Second(t) + rank[r]
  BY DEF Text
<1>. HIDE DEF r
<1>3. rank[r] \in 0 .. 3
  <2>1. rank[1] = 3 /\ rank[2] = 1 /\ rank[3] = 0 /\ rank[4] = 2
    OBVIOUS
  <2>. HIDE DEF rank
  <2>. QED  BY <1>1, <2>1
<1>. HIDE DEF rank
<1>4. Second(t) \in Int
  BY SecondBounds
<1>. QED  BY <1>2, <1>3, <1>4

\* Text goes wrong within a second only.
LEMMA TextOrder ==
  ASSUME NEW s \in Nat, NEW t \in Nat, Text(s) < Text(t)
  PROVE  Second(s) <= Second(t)
BY TextBounds, SecondBounds
--------------------------------------------------------------------------------
(* Types.                                                                    *)

\* A caller that serves a registration or a client names its username, and a
\* registration its installation.
CallNamed ==
  \A c \in Callers :
    /\ call[c].stage # "idle" => call[c].username \in Usernames
    /\ call[c].stage \in {"register", "apply", "issue"} => call[c].installID \in Installs
    /\ call[c].stage \in {"apply", "update"} => stamp[c] # -1

TypeInv == TypeOK /\ CallNamed

LEMMA IssueType ==
  ASSUME TypeInv, NEW u \in Usernames, NEW i \in Installs, Issue(u, i)
  PROVE  /\ tokens' \subseteq Token
         /\ \A k \in tokens' : now < k.exp /\ k.exp <= now + Expiry
<1>. DEFINE exp == NumericDate(now + Expiry)
<1>1. now \in Nat /\ now + Expiry \in Nat
  BY AccountsAssumption DEF TypeInv, TypeOK, Time
<1>2. exp \in Int /\ exp <= now + Expiry
  BY <1>1, SecondBounds DEF NumericDate
<1>. HIDE DEF exp
<1>3. CASE now < exp
  <2>1. tokens' = tokens \cup {[username |-> u, installID |-> i, exp |-> exp]}
    BY <1>3 DEF Issue, exp
  <2>2. exp \in Nat
    BY <1>1, <1>2, <1>3
  <2>. QED  BY <1>2, <1>3, <2>1, <2>2 DEF TypeInv, TypeOK, Token
<1>4. CASE ~ (now < exp)
  BY <1>4 DEF Issue, exp, TypeInv, TypeOK
<1>. QED  BY <1>3, <1>4

LEMMA TypeInit == Init => TypeInv
BY AccountsAssumption DEF Init, TypeInv, TypeOK, CallNamed, Time, Call, NoCall

LEMMA TypeStep == TypeInv /\ [Next]_vars => TypeInv'
<1> SUFFICES ASSUME TypeInv, [Next]_vars
             PROVE  TypeInv'
  OBVIOUS
<1>. USE RelayTypesAssumption, AccountsAssumption
<1>1. CASE Tick
  BY <1>1 DEF Tick, TypeInv, TypeOK, CallNamed, Time, Token, rows
<1>2. CASE Restart
  BY <1>2 DEF Restart, TypeInv, TypeOK, CallNamed, Call, NoCall
<1>3. ASSUME NEW k \in tokens, RefreshToken(k)
      PROVE  TypeInv'
  <2>1. k.username \in Usernames /\ k.installID \in Installs
    BY DEF TypeInv, TypeOK, Token
  <2>. QED  BY <1>3, <2>1, IssueType DEF RefreshToken, TypeInv, TypeOK, CallNamed, rows
<1>4. ASSUME NEW c \in Callers, NEW u \in Usernames, NEW i \in Installs,
             WithAuthToken(c, u, i)
      PROVE  TypeInv'
  BY <1>4 DEF WithAuthToken, Serve, TypeInv, TypeOK, CallNamed, Call, rows
<1>5. ASSUME NEW c \in Callers, NEW k \in tokens, NEW i \in Installs, WithJWT(c, k, i)
      PROVE  TypeInv'
  <2>1. k.username \in Usernames /\ k.installID \in Installs
    BY DEF TypeInv, TypeOK, Token
  <2>. QED  BY <1>5, <2>1 DEF WithJWT, Serve, TypeInv, TypeOK, CallNamed, Call, rows
<1>6. ASSUME NEW c \in Callers, NEW u \in Usernames, Connect(c, u)
      PROVE  TypeInv'
  BY <1>6 DEF Connect, Serve, TypeInv, TypeOK, CallNamed, Call, rows
<1>7. ASSUME NEW c \in Callers, ReadClock(c)
      PROVE  TypeInv'
  <2>. PICK to \in {"apply", "update"} :
         /\ call' = [call EXCEPT ![c].stage = to]
         /\ \/ call[c].stage = "register" /\ to = "apply"
            \/ call[c].stage = "touch" /\ to = "update"
    BY <1>7 DEF ReadClock, Goto
  <2>1. call' \in [Callers -> Call]
    BY DEF TypeInv, TypeOK, Call
  <2>2. stamp' = [stamp EXCEPT ![c] = now] /\ now \in Time /\ now # -1
    BY <1>7 DEF ReadClock, TypeInv, TypeOK, Time
  <2>3. TypeOK'
    BY <1>7, <2>1, <2>2 DEF ReadClock, TypeInv, TypeOK, rows
  <2>4. CallNamed'
    BY <2>2 DEF TypeInv, TypeOK, CallNamed, Call
  <2>. QED  BY <2>3, <2>4 DEF TypeInv
<1>8. ASSUME NEW c \in Callers, Register(c)
      PROVE  TypeInv'
  BY <1>8 DEF Register, Goto, Seen, TypeInv, TypeOK, CallNamed, Call, Time
<1>9. ASSUME NEW c \in Callers, RegisterUnseen(c)
      PROVE  TypeInv'
  BY <1>9 DEF RegisterUnseen, Goto, TypeInv, TypeOK, CallNamed, Call, Time, rows
<1>10. ASSUME NEW c \in Callers, IssueToken(c)
       PROVE  TypeInv'
  <2>1. call[c].username \in Usernames /\ call[c].installID \in Installs
    BY <1>10 DEF IssueToken, Finish, TypeInv, CallNamed
  <2>. QED  BY <1>10, <2>1, IssueType
            DEF IssueToken, Finish, TypeInv, TypeOK, CallNamed, Call, NoCall, rows
<1>11. ASSUME NEW c \in Callers, UpdateLastSeen(c)
       PROVE  TypeInv'
  BY <1>11 DEF UpdateLastSeen, Finish, Seen, TypeInv, TypeOK, CallNamed, Call, NoCall, Time
<1>12. ASSUME NEW c \in Callers, Reject(c)
       PROVE  TypeInv'
  BY <1>12 DEF Reject, TypeInv, TypeOK, CallNamed, Call, NoCall, rows
<1>13. CASE UNCHANGED vars
  BY <1>13 DEF vars, TypeInv, TypeOK, CallNamed
<1>. QED  BY <1>1, <1>2, <1>3, <1>4, <1>5, <1>6, <1>7, <1>8, <1>9, <1>10, <1>11, <1>12,
             <1>13 DEF Next

\* Every variable keeps its type; in particular no token outlives tokenExpiry, although
\* it is refreshed, and expired ones are not honoured.
THEOREM TypeCorrect == Spec => []TypeOK
<1>1. Spec => []TypeInv
  BY TypeInit, TypeStep, PTL DEF Spec
<1>. QED  BY <1>1, PTL DEF TypeInv

--------------------------------------------------------------------------------
(* Provenance.                                                               *)

\* What a caller is about to write into the registry or into a token was authorized.
CallGranted ==
  \A c \in Callers :
    call[c].stage \in {"register", "apply", "issue"} =>
      <<call[c].username, call[c].installID>> \in granted

ProvenanceInv == Provenance /\ CallGranted

LEMMA IssueGranted ==
  ASSUME Provenance, NEW u, NEW i, <<u, i>> \in granted, Issue(u, i)
  PROVE  \A k \in tokens' : <<k.username, k.installID>> \in granted
<1>. DEFINE exp == NumericDate(now + Expiry)
            new == [username |-> u, installID |-> i, exp |-> exp]
<1>1. tokens' \subseteq tokens \cup {new}
  BY DEF Issue
<1>2. new.username = u /\ new.installID = i
  OBVIOUS
<1>. HIDE DEF new
<1>. QED  BY <1>1, <1>2 DEF Provenance

LEMMA ProvenanceInit == Init => ProvenanceInv
BY DEF Init, ProvenanceInv, Provenance, CallGranted, NoCall

LEMMA ProvenanceStep == TypeInv /\ ProvenanceInv /\ [Next]_vars => ProvenanceInv'
<1> SUFFICES ASSUME TypeInv, ProvenanceInv, [Next]_vars
             PROVE  ProvenanceInv'
  OBVIOUS
<1>1. CASE Tick
  BY <1>1 DEF Tick, ProvenanceInv, Provenance, CallGranted, rows
<1>2. CASE Restart
  BY <1>2 DEF Restart, ProvenanceInv, Provenance, CallGranted, NoCall
<1>3. ASSUME NEW k \in tokens, RefreshToken(k)
      PROVE  ProvenanceInv'
  BY <1>3, IssueGranted
     DEF RefreshToken, ProvenanceInv, Provenance, CallGranted, rows
<1>4. ASSUME NEW c \in Callers, NEW u \in Usernames, NEW i \in Installs,
             WithAuthToken(c, u, i)
      PROVE  ProvenanceInv'
  BY <1>4 DEF WithAuthToken, Serve, TypeInv, TypeOK, ProvenanceInv, Provenance,
              CallGranted, rows
<1>5. ASSUME NEW c \in Callers, NEW k \in tokens, NEW i \in Installs, WithJWT(c, k, i)
      PROVE  ProvenanceInv'
  BY <1>5 DEF WithJWT, Serve, TypeInv, TypeOK, ProvenanceInv, Provenance, CallGranted,
              rows
<1>6. ASSUME NEW c \in Callers, NEW u \in Usernames, Connect(c, u)
      PROVE  ProvenanceInv'
  BY <1>6 DEF Connect, Serve, TypeInv, TypeOK, ProvenanceInv, Provenance, CallGranted,
              rows
<1>7. ASSUME NEW c \in Callers, ReadClock(c)
      PROVE  ProvenanceInv'
  <2>1. call \in [Callers -> Call]
    BY DEF TypeInv, TypeOK
  <2>2. \A d \in Callers :
          /\ call'[d].username = call[d].username /\ call'[d].installID = call[d].installID
          /\ call'[d].stage = "apply" => call[d].stage \in {"register", "apply"}
          /\ call'[d].stage \in {"register", "issue"} => call[d].stage = call'[d].stage
    BY <1>7, <2>1 DEF ReadClock, Goto, Call
  <2>3. UNCHANGED <<usernames, tokens, granted>>
    BY <1>7 DEF ReadClock, rows
  <2>. QED  BY <2>2, <2>3 DEF ProvenanceInv, Provenance, CallGranted
<1>8. ASSUME NEW c \in Callers, Register(c)
      PROVE  ProvenanceInv'
  BY <1>8 DEF Register, Goto, TypeInv, TypeOK, Call, ProvenanceInv, Provenance,
              CallGranted
<1>9. ASSUME NEW c \in Callers, RegisterUnseen(c)
      PROVE  ProvenanceInv'
  BY <1>9 DEF RegisterUnseen, Goto, TypeInv, TypeOK, Call, ProvenanceInv, Provenance,
              CallGranted, rows
<1>10. ASSUME NEW c \in Callers, IssueToken(c)
       PROVE  ProvenanceInv'
  <2>1. <<call[c].username, call[c].installID>> \in granted
    BY <1>10 DEF IssueToken, Finish, ProvenanceInv, CallGranted
  <2>2. \A k \in tokens' : <<k.username, k.installID>> \in granted
    BY <1>10, <2>1, IssueGranted DEF IssueToken, ProvenanceInv
  <2>. QED  BY <1>10, <2>2 DEF IssueToken, Finish, TypeInv, TypeOK, NoCall, ProvenanceInv,
                               Provenance, CallGranted, rows
<1>11. ASSUME NEW c \in Callers, UpdateLastSeen(c)
       PROVE  ProvenanceInv'
  BY <1>11 DEF UpdateLastSeen, Finish, TypeInv, TypeOK, NoCall, ProvenanceInv, Provenance,
               CallGranted
<1>12. ASSUME NEW c \in Callers, Reject(c)
       PROVE  ProvenanceInv'
  BY <1>12 DEF Reject, TypeInv, TypeOK, NoCall, ProvenanceInv, Provenance, CallGranted,
               rows
<1>13. CASE UNCHANGED vars
  BY <1>13 DEF vars, ProvenanceInv, Provenance, CallGranted
<1>. QED  BY <1>1, <1>2, <1>3, <1>4, <1>5, <1>6, <1>7, <1>8, <1>9, <1>10, <1>11, <1>12,
             <1>13 DEF Next

\* Every owner and every token goes back to an authorized registration, for any number
\* of callers, usernames, restarts and refreshes.
THEOREM Authorized == Spec => []Provenance
<1>1. Spec => []TypeInv
  BY TypeInit, TypeStep, PTL DEF Spec
<1>. QED  BY <1>1, ProvenanceInit, ProvenanceStep, PTL DEF Spec, ProvenanceInv

--------------------------------------------------------------------------------
(* Reclaiming.                                                               *)

\* No caller's time is older than MaxStall, and neither is what it wrote into a row when
\* it wrote it.
Fresh ==
  /\ \A c \in Callers :
       stamp[c] # -1 => stamp[c] <= now /\ now <= stamp[c] + MaxStall
  /\ \A u \in Usernames :
       usernames[u] # NoInstall => held[u][usernames[u]] <= lastSeen[u] + MaxStall

LEMMA FreshInit == Init => Fresh
BY AccountsAssumption DEF Init, Fresh

LEMMA FreshStep == TypeInv /\ Fresh /\ [Next]_vars => Fresh'
<1> SUFFICES ASSUME TypeInv, Fresh, [Next]_vars
             PROVE  Fresh'
  OBVIOUS
<1>. USE AccountsAssumption
<1>ow. \A u \in Usernames : usernames'[u] \in Installs \cup {NoInstall}
  BY TypeStep DEF TypeInv, TypeOK
<1>1. CASE Tick
  BY <1>1 DEF Tick, TypeInv, TypeOK, Time, Fresh, rows
<1>2. CASE Restart
  BY <1>2 DEF Restart, TypeInv, TypeOK, Fresh
<1>3. ASSUME NEW c \in Callers, ReadClock(c)
      PROVE  Fresh'
  BY <1>3 DEF ReadClock, TypeInv, TypeOK, Time, Fresh, rows
<1>4. ASSUME NEW c \in Callers, NEW u \in Usernames, NEW i, Seen(c, u, i),
             stamp[c] # -1, now' = now, usernames'[u] = i,
             \A v \in Usernames \ {u} : usernames'[v] = usernames[v]
      PROVE  Fresh'
  <2>1. stamp[c] \in Nat /\ now \in Nat /\ now <= stamp[c] + MaxStall
    BY <1>4 DEF TypeInv, TypeOK, Time, Fresh
  <2>2. ASSUME NEW v \in Usernames, usernames'[v] # NoInstall
        PROVE  held'[v][usernames'[v]] <= lastSeen'[v] + MaxStall
    <3>1. CASE v = u
      <4>1. i \in Installs
        BY <1>4, <2>2, <3>1, <1>ow
      <4>. QED  BY <1>4, <2>1, <3>1, <4>1 DEF Seen, TypeInv, TypeOK
    <3>2. CASE v # u
      BY <1>4, <2>2, <3>2 DEF Seen, TypeInv, TypeOK, Fresh
    <3>. QED  BY <3>1, <3>2
  <2>. QED  BY <1>4, <2>2 DEF Seen, TypeInv, TypeOK, Time, Fresh
<1>5. ASSUME NEW c \in Callers, Register(c) \/ UpdateLastSeen(c)
      PROVE  Fresh'
  BY <1>4, <1>5 DEF Register, UpdateLastSeen, Goto, Finish, TypeInv, TypeOK, CallNamed
<1>6. ASSUME NEW c \in Callers, RegisterUnseen(c) \/ Reject(c)
      PROVE  Fresh'
  BY <1>6 DEF RegisterUnseen, Reject, TypeInv, TypeOK, Fresh, rows
<1>7. CASE UNCHANGED <<now, rows, stamp>>
  BY <1>7 DEF Fresh, rows
<1>8. ASSUME NEW c \in Callers, IssueToken(c)
      PROVE  UNCHANGED <<now, rows, stamp>>
  BY <1>8 DEF IssueToken
<1>. QED
  BY <1>1, <1>2, <1>3, <1>5, <1>6, <1>7, <1>8
     DEF Next, vars, rows, RefreshToken, WithAuthToken, WithJWT, Connect, Serve

\* Texts in order are times in order up to the second, so a restart that reclaims a
\* username finds nothing recent recorded of its owner.
LEMMA InactiveIdle ==
  ASSUME TypeInv, Fresh, NEW u \in Usernames, usernames[u] # NoInstall, Inactive(u)
  PROVE  ~ Active(u, usernames[u])
<1>. DEFINE h == held[u][usernames[u]]
<1>1. /\ now - Keep \in Nat /\ lastSeen[u] \in Nat /\ MaxStall \in Nat
      /\ h \in Int /\ h <= lastSeen[u] + MaxStall
  BY AccountsAssumption DEF Inactive, TypeInv, TypeOK, Time, Fresh
<1>. HIDE DEF h
<1>2. Second(lastSeen[u]) <= Second(now - Keep)
  BY <1>1, TextOrder DEF Inactive
<1>3. Second(h - MaxStall) <= Second(lastSeen[u])
  BY <1>1, SecondMonotone
<1>4. /\ Second(h - MaxStall) \in Int
      /\ Second(lastSeen[u]) \in Int
      /\ Second(now - Keep) \in Int
  BY <1>1 DEF Second
<1>5. ~ (Second(now - Keep) < Second(h - MaxStall))
  BY <1>2, <1>3, <1>4
<1>. QED  BY <1>5 DEF Active, h

LEMMA KeptStep == TypeInv /\ Fresh /\ KeptWhileActive /\ [Next]_vars => KeptWhileActive'
<1> SUFFICES ASSUME TypeInv, Fresh, KeptWhileActive, [Next]_vars,
                    NEW u \in Usernames, NEW i \in Installs, Active(u, i)'
             PROVE  usernames'[u] = i
  BY DEF KeptWhileActive
<1>ty. /\ held \in [Usernames -> [Installs -> Time \cup {-1}]]
       /\ usernames \in [Usernames -> Installs \cup {NoInstall}]
       /\ now \in Nat /\ Keep \in Nat /\ MaxStall \in Nat
       /\ NoInstall \notin Installs
  BY AccountsAssumption, RelayTypesAssumption DEF TypeInv, TypeOK, Time
\* Nothing new is recorded of the installation, and time does not go back.
<1>a. ASSUME held'[u][i] = held[u][i], now' \in {now, now + 1}
      PROVE  usernames[u] = i
  <2>1. held[u][i] \in Int
    BY <1>ty DEF Time
  <2>2. Second(now - Keep) <= Second(now' - Keep)
    BY <1>a, <1>ty, SecondMonotone
  <2>3. /\ Second(now - Keep) \in Int
        /\ Second(now' - Keep) \in Int
        /\ Second(held[u][i] - MaxStall) \in Int
    BY <1>a, <1>ty, <2>1 DEF Second
  <2>4. Active(u, i)
    BY <1>a, <2>2, <2>3 DEF Active
  <2>. QED  BY <2>4 DEF KeptWhileActive
<1>1. CASE Restart
  <2>1. held' = held /\ now' = now
    BY <1>1 DEF Restart
  <2>2. usernames[u] = i /\ Active(u, i)
    BY <1>a, <2>1 DEF Active
  <2>3. ~ Inactive(u)
    BY <1>ty, <2>2, InactiveIdle
  <2>. QED  BY <1>1, <2>2, <2>3 DEF Restart
<1>2. ASSUME NEW c \in Callers, Register(c)
      PROVE  usernames'[u] = i
  <2>1. CASE u = call[c].username /\ i = call[c].installID
    BY <1>2, <1>ty, <2>1 DEF Register
  <2>2. CASE u # call[c].username \/ i # call[c].installID
    <3>1. held'[u][i] = held[u][i] /\ now' = now
      BY <1>2, <1>ty, <2>2 DEF Register, Seen
    <3>2. usernames[u] = i
      BY <1>a, <3>1
    <3>. QED  BY <1>2, <1>ty, <2>2, <3>2 DEF Register
  <2>. QED  BY <2>1, <2>2
<1>3. ASSUME NEW c \in Callers, UpdateLastSeen(c)
      PROVE  usernames'[u] = i
  <2>1. CASE u = call[c].username /\ i = usernames[u]
    BY <1>3, <2>1 DEF UpdateLastSeen
  <2>2. CASE u # call[c].username \/ i # usernames[u]
    BY <1>3, <1>a, <1>ty, <2>2 DEF UpdateLastSeen, Seen
  <2>. QED  BY <2>1, <2>2
<1>4. CASE UNCHANGED <<usernames, held>> /\ now' \in {now, now + 1}
  BY <1>4, <1>a
<1>5. \/ Restart
      \/ \E c \in Callers : Register(c) \/ UpdateLastSeen(c)
      \/ UNCHANGED <<usernames, held>> /\ now' \in {now, now + 1}
  BY DEF Next, vars, Tick, RefreshToken, WithAuthToken, WithJWT, Connect, Serve, ReadClock,
         RegisterUnseen, IssueToken, Reject, rows
<1>. QED  BY <1>1, <1>2, <1>3, <1>4, <1>5

\* An installation keeps the username it registered for as long as something recent is
\* recorded of it: whatever tokens, restarts and registrations of others there are, in
\* whatever order stalled callers write, and although timestamps are compared as text.
THEOREM OwnershipKept == Spec => []KeptWhileActive
<1>1. Init => KeptWhileActive
  BY DEF Init, KeptWhileActive, Active
<1>2. Spec => []TypeInv
  BY TypeInit, TypeStep, PTL DEF Spec
<1>. QED  BY <1>1, <1>2, FreshInit, FreshStep, KeptStep, PTL DEF Spec
================================================================================
