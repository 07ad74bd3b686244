----------------------------- MODULE DeliveryProofs -----------------------------
(***************************************************************************)
(* Proofs of the properties of Delivery and of Codec.                      *)
(***************************************************************************)
EXTENDS Delivery, Codec, FiniteSetTheorems, SequenceTheorems, TLAPS

--------------------------------------------------------------------------------
(* Sequences.                                                                *)

\* A suffix, position by position.
LEMMA SuffixByIndex ==
  ASSUME NEW S, NEW s \in Seq(S), NEW t \in Seq(S)
  PROVE  IsSuffix(s, t) <=>
           /\ Len(s) <= Len(t)
           /\ \A i \in 1 .. Len(s) : s[i] = t[Len(t) - Len(s) + i]
<1>. DEFINE m == Len(s)
            n == Len(t)
            rs == Reverse(s)
            rt == Reverse(t)
<1>1. m \in Nat /\ n \in Nat /\ (\A i \in 1 .. m : s[i] \in S) /\ (\A i \in 1 .. n : t[i] \in S)
  BY LenProperties, ElementOfSeq
<1>2. /\ rs \in Seq(S) /\ Len(rs) = m /\ \A i \in 1 .. m : rs[i] = s[m - i + 1]
      /\ rt \in Seq(S) /\ Len(rt) = n /\ \A i \in 1 .. n : rt[i] = t[n - i + 1]
  BY <1>1 DEF Reverse
<1>. HIDE DEF rs, rt
<1>3. ASSUME m <= n
      PROVE  SubSeq(rs, 1, m) = SubSeq(rt, 1, m) <=> \A i \in 1 .. m : rs[i] = rt[i]
  <2>1. /\ \A i \in 1 .. m : rs[i] \in S
        /\ \A i \in 1 .. m : rt[i] \in S
    BY <1>1, <1>2, <1>3, ElementOfSeq
  <2>2. /\ SubSeq(rs, 1, m) \in Seq(S) /\ Len(SubSeq(rs, 1, m)) = m
        /\ \A i \in 1 .. m : SubSeq(rs, 1, m)[i] = rs[i]
    BY <1>1, <2>1, SubSeqProperties
  <2>3. /\ SubSeq(rt, 1, m) \in Seq(S) /\ Len(SubSeq(rt, 1, m)) = m
        /\ \A i \in 1 .. m : SubSeq(rt, 1, m)[i] = rt[i]
    BY <1>1, <2>1, SubSeqProperties
  <2>. QED  BY <2>2, <2>3, SeqEqual
<1>4. ASSUME m <= n
      PROVE  (\A i \in 1 .. m : rs[i] = rt[i]) <=> (\A i \in 1 .. m : s[i] = t[n - m + i])
  <2>1. ASSUME \A i \in 1 .. m : rs[i] = rt[i], NEW i \in 1 .. m
        PROVE  s[i] = t[n - m + i]
    <3>1. m - i + 1 \in 1 .. m /\ m - i + 1 \in 1 .. n
      BY <1>1, <1>4
    <3>2. rs[m - i + 1] = rt[m - i + 1]
      BY <2>1, <3>1
    <3>3. rs[m - i + 1] = s[i]
      <4>1. rs[m - i + 1] = s[m - (m - i + 1) + 1]
        BY <1>2, <3>1
      <4>2. m - (m - i + 1) + 1 = i
        BY <1>1
      <4>. QED  BY <4>1, <4>2
    <3>4. rt[m - i + 1] = t[n - m + i]
      <4>1. rt[m - i + 1] = t[n - (m - i + 1) + 1]
        BY <1>2, <3>1
      <4>2. n - (m - i + 1) + 1 = n - m + i
        BY <1>1
      <4>. QED  BY <4>1, <4>2
    <3>. QED  BY <3>2, <3>3, <3>4
  <2>2. ASSUME \A i \in 1 .. m : s[i] = t[n - m + i], NEW i \in 1 .. m
        PROVE  rs[i] = rt[i]
    <3>1. m - i + 1 \in 1 .. m /\ i \in 1 .. n
      BY <1>1, <1>4
    <3>2. s[m - i + 1] = t[n - m + (m - i + 1)]
      BY <2>2, <3>1
    <3>3. n - m + (m - i + 1) = n - i + 1
      BY <1>1
    <3>. QED  BY <1>2, <3>1, <3>2, <3>3
  <2>. QED  BY <2>1, <2>2
<1>. QED  BY <1>2, <1>3, <1>4 DEF IsSuffix, IsPrefix, rs, rt

\* LTRIM -max -1: what stays is the end of the list, max frames of it at most.
LEMMA TrimProperties ==
  ASSUME NEW S, NEW s \in Seq(S), NEW max \in Nat \ {0}
  PROVE  LET r == SubSeq(s, IF Len(s) > max THEN Len(s) - max + 1 ELSE 1, Len(s)) IN
         /\ r \in Seq(S)
         /\ Len(r) <= max
         /\ Len(r) <= Len(s)
         /\ \A i \in 1 .. Len(r) : r[i] = s[Len(s) - Len(r) + i]
<1>. DEFINE n == Len(s)
            from == IF n > max THEN n - max + 1 ELSE 1
            r == SubSeq(s, from, n)
            k == Len(r)
<1>1. n \in Nat /\ \A i \in 1 .. n : s[i] \in S
  BY LenProperties, ElementOfSeq
<1>. HIDE DEF n
<1>2. from \in Int /\ 1 <= from /\ from <= n + 1 /\ n - from + 1 <= max
  BY <1>1
<1>. HIDE DEF from
<1>3. \A i \in from .. n : s[i] \in S
  BY <1>1, <1>2
<1>4. /\ r \in Seq(S)
      /\ k = IF from <= n THEN n - from + 1 ELSE 0
      /\ \A i \in 1 .. n - from + 1 : r[i] = s[from + i - 1]
  BY <1>1, <1>2, <1>3, SubSeqProperties
<1>. HIDE DEF k, r
<1>5. k = n - from + 1
  BY <1>1, <1>2, <1>4
<1>6. ASSUME NEW i \in 1 .. k
      PROVE  r[i] = s[n - k + i]
  <2>1. r[i] = s[from + i - 1]
    BY <1>4, <1>5
  <2>2. from + i - 1 = n - k + i
    BY <1>1, <1>2, <1>5
  <2>. QED  BY <2>1, <2>2
<1>7. k <= max /\ k <= n
  BY <1>1, <1>2, <1>5
<1>. QED  BY <1>4, <1>6, <1>7 DEF n, k, r, from

--------------------------------------------------------------------------------
(* Types.                                                                    *)

\* A frame that goes to the buffer is a numbered one of a legacy sender.
Framed ==
  \A s \in Senders :
    /\ stage[s] \in {"push", "trim"} => s \in LegacySenders
    /\ s \in LegacySenders /\ stage[s] # "idle" => frame[s] \in Frame

DeliveryInv == TypeOK /\ Framed /\ PendingExact

\* The senders at some stages of writing to a target are finitely many.
LEMMA AtBound ==
  ASSUME NEW t, NEW S
  PROVE  /\ IsFiniteSet(At(t, S))
         /\ Cardinality(At(t, S)) \in Nat
         /\ Cardinality(At(t, S)) <= Cardinality(Senders)
         /\ Cardinality(Senders) \in Nat
<1>1. At(t, S) \subseteq Senders
  BY DEF At
<1>. QED  BY <1>1, DeliveryAssumption, FS_Subset, FS_CardinalityType

LEMMA DeliveryInit == Init => DeliveryInv
<1> SUFFICES ASSUME Init
             PROVE  DeliveryInv
  OBVIOUS
<1>. USE DeliveryAssumption
<1>1. \A t \in Targets : At(t, {"drop", "write"}) = {} /\ At(t, {"write"}) = {}
  BY DEF Init, At
<1>2. PendingExact
  <2>1. Cardinality({}) = 0
    BY FS_EmptySet
  <2>2. \A t \in Targets : pending[t] = 0
    BY DEF Init
  <2>3. 0 <= MaxPending
    OBVIOUS
  <2>. QED  BY <1>1, <2>1, <2>2, <2>3 DEF PendingExact
<1>3. TypeOK
  BY FS_CardinalityType DEF Init, TypeOK
<1>. QED  BY <1>2, <1>3 DEF Init, DeliveryInv, Framed

\* A sender starts a call of writeToConn.
LEMMA EnterStep ==
  ASSUME DeliveryInv, NEW s \in Senders, Enter(s)
  PROVE  DeliveryInv'
<1>. USE DeliveryAssumption
<1>. DEFINE u == TargetOf[s]
<1>1. u \in Targets /\ stage[s] = "idle"
  BY DEF Enter
<1>2. /\ pending' = [pending EXCEPT ![u] = @ + 1]
      /\ pending'[u] = pending[u] + 1
      /\ \A t \in Targets : pending[t] \in Nat
  BY <1>1 DEF Enter, DeliveryInv, TypeOK
<1>3. PICK to \in {"drop", "write"} :
        /\ stage' = [stage EXCEPT ![s] = to]
        /\ to = "write" => pending'[u] <= MaxPending
  <2>1. pending'[u] > MaxPending \/ pending'[u] <= MaxPending
    BY <1>1, <1>2
  <2>. QED  BY <2>1 DEF Enter
<1>. HIDE DEF u
<1>4. /\ sent' \in 0 .. MaxFrames /\ frame' \in [Senders -> 0 .. MaxFrames]
      /\ s \in LegacySenders => frame'[s] \in Frame
      /\ \A r \in Senders \ {s} : frame'[r] = frame[r]
  <2>1. CASE s \in LegacySenders
    <3>1. sent < MaxFrames /\ sent' = sent + 1 /\ frame' = [frame EXCEPT ![s] = sent']
      BY <2>1 DEF Enter, Number
    <3>2. sent \in Nat /\ frame \in [Senders -> 0 .. MaxFrames]
      BY DEF DeliveryInv, TypeOK
    <3>3. sent' \in 0 .. MaxFrames /\ sent' \in Frame
      BY <3>1, <3>2 DEF Frame
    <3>. QED  BY <3>1, <3>2, <3>3
  <2>2. CASE s \notin LegacySenders
    BY <2>2 DEF Enter, Number, DeliveryInv, TypeOK
  <2>. QED  BY <2>1, <2>2
<1>5. /\ At(u, {"drop", "write"})' = At(u, {"drop", "write"}) \cup {s}
      /\ s \notin At(u, {"drop", "write"})
      /\ \A t \in Targets \ {u} : At(t, {"drop", "write"})' = At(t, {"drop", "write"})
  BY <1>1, <1>3 DEF At, DeliveryInv, TypeOK, u
<1>6. Cardinality(At(u, {"drop", "write"})') = pending'[u]
  BY <1>1, <1>2, <1>5, AtBound, FS_AddElement DEF DeliveryInv, PendingExact
<1>7. \A t \in Targets : pending'[t] = Cardinality(At(t, {"drop", "write"})')
  <2> SUFFICES ASSUME NEW t \in Targets, t # u
               PROVE  pending'[t] = Cardinality(At(t, {"drop", "write"})')
    BY <1>6
  <2>. QED  BY <1>2, <1>5 DEF DeliveryInv, TypeOK, PendingExact
<1>8. \A t \in Targets : Cardinality(At(t, {"write"})') <= MaxPending
  <2> SUFFICES ASSUME NEW t \in Targets
               PROVE  Cardinality(At(t, {"write"})') <= MaxPending
    OBVIOUS
  <2>1. CASE t = u /\ to = "write"
    <3>1. At(u, {"write"})' \subseteq At(u, {"drop", "write"})'
      BY DEF At
    <3>2. IsFiniteSet(At(u, {"drop", "write"})')
      BY <1>5, AtBound, FS_AddElement
    <3>3. /\ Cardinality(At(u, {"write"})') <= Cardinality(At(u, {"drop", "write"})')
          /\ Cardinality(At(u, {"write"})') \in Nat
          /\ Cardinality(At(u, {"drop", "write"})') \in Nat
      BY <3>1, <3>2, FS_Subset, FS_CardinalityType
    <3>. QED  BY <1>3, <1>6, <2>1, <3>3
  <2>2. CASE ~ (t = u /\ to = "write")
    <3>1. At(t, {"write"})' = At(t, {"write"})
      BY <1>1, <1>3, <2>2 DEF At, DeliveryInv, TypeOK, u
    <3>. QED  BY <3>1 DEF DeliveryInv, PendingExact
  <2>. QED  BY <2>1, <2>2
<1>9. pending' \in [Targets -> 0 .. Cardinality(Senders)]
  <2>1. \A t \in Targets : /\ Cardinality(At(t, {"drop", "write"})') \in Nat
                           /\ Cardinality(At(t, {"drop", "write"})') <= Cardinality(Senders)
    <3>1. \A t \in Targets : At(t, {"drop", "write"})' \subseteq Senders
      BY DEF At
    <3>2. ASSUME NEW t \in Targets
          PROVE  /\ Cardinality(At(t, {"drop", "write"})') \in Nat
                 /\ Cardinality(At(t, {"drop", "write"})') <= Cardinality(Senders)
      BY <3>1, FS_Subset, FS_CardinalityType
    <3>. QED  BY <3>2
  <2>2. DOMAIN pending' = Targets /\ pending' = [t \in Targets |-> pending'[t]]
    BY <1>2 DEF DeliveryInv, TypeOK
  <2>3. Cardinality(Senders) \in Nat
    BY FS_CardinalityType
  <2>. QED  BY <1>7, <2>1, <2>2, <2>3
<1>10. TypeOK'
  <2>1. UNCHANGED <<buf, pushed, joining, frames, missed, lost>>
    BY DEF Enter, bufVars, joinVars, history
  <2>2. stage' \in [Senders -> {"idle", "drop", "write", "push", "trim"}]
    BY <1>3 DEF DeliveryInv, TypeOK
  <2>. QED  BY <1>4, <1>9, <2>1, <2>2 DEF DeliveryInv, TypeOK
<1>11. Framed'
  BY <1>3, <1>4 DEF DeliveryInv, TypeOK, Framed
<1>. QED  BY <1>7, <1>8, <1>10, <1>11 DEF DeliveryInv, PendingExact

\* A call of writeToConn returns.
LEMMA ReturnStep ==
  ASSUME DeliveryInv, NEW s \in Senders, Drop(s) \/ Write(s)
  PROVE  DeliveryInv'
<1>. USE DeliveryAssumption
<1>. DEFINE u == TargetOf[s]
<1>1. u \in Targets /\ stage[s] \in {"drop", "write"} /\ Return(s)
  BY DEF Drop, Write
<1>2. /\ pending' = [pending EXCEPT ![u] = @ - 1]
      /\ pending'[u] = pending[u] - 1
      /\ \A t \in Targets : pending[t] \in Nat
  BY <1>1 DEF Return, DeliveryInv, TypeOK
<1>3. PICK to \in {"push", "idle"} :
        /\ stage' = [stage EXCEPT ![s] = to]
        /\ to = "push" => s \in LegacySenders
  BY <1>1 DEF Return
<1>4. UNCHANGED <<frame, sent, buf, pushed, joining, frames, lost>>
  BY <1>1 DEF Return, bufVars, joinVars
<1>5. missed' \subseteq Frame
  BY DEF Drop, Write, Miss, DeliveryInv, TypeOK
<1>. HIDE DEF u
<1>6. /\ At(u, {"drop", "write"})' = At(u, {"drop", "write"}) \ {s}
      /\ s \in At(u, {"drop", "write"})
      /\ \A t \in Targets \ {u} : At(t, {"drop", "write"})' = At(t, {"drop", "write"})
      /\ \A t \in Targets : At(t, {"write"})' \subseteq At(t, {"write"})
  BY <1>1, <1>3 DEF At, DeliveryInv, TypeOK, u
<1>7. /\ Cardinality(At(u, {"drop", "write"})') = pending'[u]
      /\ pending'[u] \in Nat
  <2>1. /\ Cardinality(At(u, {"drop", "write"})') = Cardinality(At(u, {"drop", "write"})) - 1
        /\ IsFiniteSet(At(u, {"drop", "write"})')
    BY <1>6, AtBound, FS_RemoveElement
  <2>2. pending[u] = Cardinality(At(u, {"drop", "write"}))
    BY <1>1 DEF DeliveryInv, PendingExact, u
  <2>3. Cardinality(At(u, {"drop", "write"})') \in Nat
    BY <2>1, FS_CardinalityType
  <2>. QED  BY <1>2, <2>1, <2>2, <2>3
<1>8. \A t \in Targets : pending'[t] = Cardinality(At(t, {"drop", "write"})')
  <2> SUFFICES ASSUME NEW t \in Targets, t # u
               PROVE  pending'[t] = Cardinality(At(t, {"drop", "write"})')
    BY <1>7
  <2>. QED  BY <1>2, <1>6 DEF DeliveryInv, TypeOK, PendingExact
<1>9. \A t \in Targets : Cardinality(At(t, {"write"})') <= MaxPending
  <2> SUFFICES ASSUME NEW t \in Targets
               PROVE  Cardinality(At(t, {"write"})') <= MaxPending
    OBVIOUS
  <2>1. /\ Cardinality(At(t, {"write"})') <= Cardinality(At(t, {"write"}))
        /\ Cardinality(At(t, {"write"})') \in Nat
        /\ Cardinality(At(t, {"write"})) \in Nat
    BY <1>6, AtBound, FS_Subset, FS_CardinalityType
  <2>2. Cardinality(At(t, {"write"})) <= MaxPending
    BY DEF DeliveryInv, PendingExact
  <2>. QED  BY <2>1, <2>2
<1>10. pending' \in [Targets -> 0 .. Cardinality(Senders)]
  <2>1. u \in Targets /\ pending[u] \in 0 .. Cardinality(Senders)
    BY <1>1 DEF DeliveryInv, TypeOK, u
  <2>2. pending'[u] \in 0 .. Cardinality(Senders)
    BY <1>2, <1>7, <2>1, AtBound
  <2>. QED  BY <1>2, <2>1, <2>2 DEF DeliveryInv, TypeOK
<1>11. TypeOK'
  <2>1. stage' \in [Senders -> {"idle", "drop", "write", "push", "trim"}]
    BY <1>3 DEF DeliveryInv, TypeOK
  <2>. QED  BY <1>4, <1>5, <1>10, <2>1 DEF DeliveryInv, TypeOK
<1>12. Framed'
  <2>1. \A r \in Senders : r # s => stage'[r] = stage[r]
    BY <1>3 DEF DeliveryInv, TypeOK
  <2>2. stage'[s] = to /\ stage[s] # "idle"
    BY <1>1, <1>3 DEF DeliveryInv, TypeOK
  <2>. QED  BY <1>3, <1>4, <2>1, <2>2 DEF DeliveryInv, Framed
<1>. QED  BY <1>8, <1>9, <1>11, <1>12 DEF DeliveryInv, PendingExact

\* Steps that start or end no call of writeToConn.
LEMMA WritesUnchanged ==
  ASSUME DeliveryInv, pending' = pending,
         \A r \in Senders :
           \/ stage'[r] = stage[r]
           \/ {stage[r], stage'[r]} \cap {"drop", "write"} = {}
  PROVE  PendingExact'
<1>1. \A t \in Targets : /\ At(t, {"drop", "write"})' = At(t, {"drop", "write"})
                         /\ At(t, {"write"})' = At(t, {"write"})
  BY DEF At
<1>. QED  BY <1>1 DEF DeliveryInv, PendingExact

LEMMA DeliveryStep == DeliveryInv /\ [Next]_vars => DeliveryInv'
<1> SUFFICES ASSUME DeliveryInv, [Next]_vars
             PROVE  DeliveryInv'
  OBVIOUS
<1>. USE DeliveryAssumption
<1>0. <<>> \in Seq(Frame)
  BY EmptySeq
<1>1. CASE Expire
  <2>1. UNCHANGED <<stage, pending, frame, sent, pushed, joining, frames, missed, lost>>
        /\ buf' = <<>>
    BY <1>1 DEF Expire, sendVars, joinVars, history
  <2>2. PendingExact'
    BY <2>1, WritesUnchanged
  <2>. QED  BY <1>0, <2>1, <2>2 DEF DeliveryInv, TypeOK, Framed
<1>2. ASSUME NEW s \in Senders, Enter(s) \/ Drop(s) \/ Write(s)
      PROVE  DeliveryInv'
  BY <1>2, EnterStep, ReturnStep
<1>3. ASSUME NEW s \in Senders, Push(s)
      PROVE  DeliveryInv'
  <2>1. /\ UNCHANGED <<pending, frame, sent, joining, frames, missed, lost>>
        /\ stage[s] = "push" /\ stage' = [stage EXCEPT ![s] = "trim"]
        /\ buf' = Append(buf, frame[s]) /\ pushed' = Append(pushed, frame[s])
    BY <1>3 DEF Push, joinVars, history
  <2>2. frame[s] \in Frame
    BY <2>1 DEF DeliveryInv, Framed
  <2>3. buf' \in Seq(Frame) /\ pushed' \in Seq(Frame)
    BY <2>1, <2>2, AppendProperties DEF DeliveryInv, TypeOK
  <2>4. PendingExact'
    BY <2>1, WritesUnchanged DEF DeliveryInv, TypeOK
  <2>5. TypeOK'
    BY <2>1, <2>3 DEF DeliveryInv, TypeOK
  <2>6. Framed'
    BY <2>1 DEF DeliveryInv, TypeOK, Framed
  <2>. QED  BY <2>4, <2>5, <2>6 DEF DeliveryInv
<1>4. ASSUME NEW s \in Senders, Trim(s) \/ PushFails(s)
      PROVE  DeliveryInv'
  <2>1. /\ UNCHANGED <<pending, sent, pushed, joining, frames, missed, lost>>
        /\ stage[s] \in {"push", "trim"} /\ stage' = [stage EXCEPT ![s] = "idle"]
        /\ frame' = [frame EXCEPT ![s] = 0]
    BY <1>4 DEF Trim, PushFails, Done, bufVars, joinVars, history
  <2>2. buf' \in Seq(Frame)
    <3>1. buf \in Seq(Frame)
      BY DEF DeliveryInv, TypeOK
    <3>. QED  BY <1>4, <3>1, TrimProperties DEF Trim, PushFails, bufVars
  <2>3. PendingExact'
    BY <2>1, WritesUnchanged DEF DeliveryInv, TypeOK
  <2>4. TypeOK'
    BY <2>1, <2>2 DEF DeliveryInv, TypeOK
  <2>5. Framed'
    BY <2>1 DEF DeliveryInv, TypeOK, Framed
  <2>. QED  BY <2>3, <2>4, <2>5 DEF DeliveryInv
<1>5. ASSUME NEW c \in Clients,
             Connected(c) \/ GetFrames(c) \/ Replay(c) \/ Clear(c) \/ ClearFails(c)
      PROVE  DeliveryInv'
  <2>1. UNCHANGED <<stage, pending, frame, sent, pushed>>
    BY <1>5 DEF Connected, GetFrames, Replay, Clear, ClearFails, sendVars, bufVars
  <2>2. buf' \in Seq(Frame)
    BY <1>0, <1>5 DEF Connected, GetFrames, Replay, Clear, ClearFails, bufVars,
                      DeliveryInv, TypeOK
  <2>3. joining' \in [Clients -> {"off", "fetch", "send", "clear", "live"}]
    BY <1>5 DEF Connected, GetFrames, Replay, Clear, ClearFails, DeliveryInv, TypeOK
  <2>4. frames' \in [Clients -> Seq(Frame)]
    <3>1. CASE UNCHANGED frames
      BY <3>1 DEF DeliveryInv, TypeOK
    <3>2. CASE \E vals \in Seq(Frame) : frames' = [frames EXCEPT ![c] = vals]
      BY <3>2 DEF DeliveryInv, TypeOK
    <3>3. buf \in Seq(Frame)
      BY DEF DeliveryInv, TypeOK
    <3>4. GetFrames(c) \/ Replay(c) => \E vals \in Seq(Frame) : frames' = [frames EXCEPT ![c] = vals]
      BY <1>0, <3>3 DEF GetFrames, Replay
    <3>5. Connected(c) \/ Clear(c) \/ ClearFails(c) => UNCHANGED frames
      BY DEF Connected, Clear, ClearFails
    <3>. QED  BY <1>5, <3>1, <3>2, <3>4, <3>5
  <2>5. missed' \subseteq missed
    BY <1>5 DEF Connected, GetFrames, Replay, Clear, ClearFails, history
  <2>6. lost' \subseteq lost \cup missed
    BY <1>5 DEF Connected, GetFrames, Replay, Clear, ClearFails, history
  <2>7. PendingExact'
    BY <2>1, WritesUnchanged
  <2>. QED  BY <2>1, <2>2, <2>3, <2>4, <2>5, <2>6, <2>7 DEF DeliveryInv, TypeOK, Framed
<1>6. CASE UNCHANGED vars
  <2>1. UNCHANGED <<stage, pending, frame, sent, buf, pushed, joining, frames, missed, lost>>
    BY <1>6 DEF vars, sendVars, bufVars, joinVars, history
  <2>2. PendingExact'
    BY <2>1, WritesUnchanged
  <2>. QED  BY <2>1, <2>2 DEF DeliveryInv, TypeOK, Framed
<1>. QED  BY <1>1, <1>2, <1>3, <1>4, <1>5, <1>6 DEF Next

LEMMA DeliveryInvariant == Spec => []DeliveryInv
BY DeliveryInit, DeliveryStep, PTL DEF Spec

\* Every variable keeps its type; the frames in the list are numbered ones.
THEOREM TypeCorrect == Spec => []TypeOK
BY DeliveryInvariant, PTL DEF DeliveryInv

\* The counter of a connection is the number of calls of writeToConn for it, and at most
\* maxPendingWrites of them write, for any number of senders and targets.
THEOREM PendingCounted == Spec => []PendingExact
BY DeliveryInvariant, PTL DEF DeliveryInv

--------------------------------------------------------------------------------
(* The ring.                                                                 *)

Trimming == {s \in Senders : stage[s] = "trim"}

LEMMA RingStep == DeliveryInv /\ DeliveryInv' /\ RingBound /\ [Next]_vars => RingBound'
<1> SUFFICES ASSUME DeliveryInv, DeliveryInv', RingBound, [Next]_vars
             PROVE  RingBound'
  OBVIOUS
<1>. USE DeliveryAssumption
<1>1. /\ IsFiniteSet(Trimming) /\ Cardinality(Trimming) \in Nat
      /\ IsFiniteSet(Trimming') /\ Cardinality(Trimming') \in Nat
  BY FS_Subset, FS_CardinalityType DEF Trimming
<1>2. /\ Len(buf) \in Nat /\ Len(buf') \in Nat
      /\ buf \in Seq(Frame)
  BY LenProperties DEF DeliveryInv, TypeOK
<1>3. Len(buf) <= MaxSize + Cardinality(Trimming)
  BY DEF RingBound, Trimming
<1>4. ASSUME NEW s \in Senders, Push(s)
      PROVE  Len(buf') <= MaxSize + Cardinality(Trimming')
  <2>1. stage[s] = "push" /\ stage' = [stage EXCEPT ![s] = "trim"]
    BY <1>4 DEF Push
  <2>2. Trimming' = Trimming \cup {s} /\ s \notin Trimming
    BY <2>1 DEF Trimming, DeliveryInv, TypeOK
  <2>3. Cardinality(Trimming') = Cardinality(Trimming) + 1
    BY <1>1, <2>2, FS_AddElement
  <2>4. frame[s] \in Frame
    BY <2>1 DEF DeliveryInv, Framed
  <2>5. Len(buf') = Len(buf) + 1
    BY <1>2, <1>4, <2>4, AppendProperties DEF Push
  <2>. QED  BY <1>1, <1>2, <1>3, <2>3, <2>5
<1>5. ASSUME NEW s \in Senders, Trim(s)
      PROVE  Len(buf') <= MaxSize
  BY <1>2, <1>5, TrimProperties DEF Trim
<1>6. CASE buf' = <<>>
  BY <1>1, <1>6, EmptySeq DEF RingBound, Trimming
<1>7. CASE UNCHANGED buf /\ Trimming' = Trimming
  BY <1>3, <1>7 DEF RingBound, Trimming
<1>8. ASSUME NEW s \in Senders, Enter(s) \/ Drop(s) \/ Write(s) \/ PushFails(s)
      PROVE  UNCHANGED buf /\ Trimming' = Trimming
  <2>1. PICK to \in {"idle", "drop", "write", "push"} : stage' = [stage EXCEPT ![s] = to]
    BY <1>8 DEF Enter, Drop, Write, PushFails, Return, Done
  <2>2. stage[s] # "trim" /\ buf' = buf
    BY <1>8 DEF Enter, Drop, Write, PushFails, Return, bufVars
  <2>. QED  BY <2>1, <2>2 DEF Trimming, DeliveryInv, TypeOK
<1>9. ASSUME NEW c \in Clients,
             Connected(c) \/ GetFrames(c) \/ Replay(c) \/ Clear(c) \/ ClearFails(c)
      PROVE  stage' = stage /\ buf' \in {buf, <<>>}
  BY <1>9 DEF Connected, GetFrames, Replay, Clear, ClearFails, sendVars, bufVars
<1>10. Expire => buf' = <<>>
  BY DEF Expire
<1>11. UNCHANGED vars => stage' = stage /\ buf' = buf
  BY DEF vars, sendVars, bufVars
<1>12. stage' = stage => Trimming' = Trimming
  BY DEF Trimming
<1>. QED
  <2>1. CASE Expire
    BY <1>6, <1>10, <2>1
  <2>2. ASSUME NEW s \in Senders, Push(s)
        PROVE  RingBound'
    BY <1>4, <2>2 DEF RingBound, Trimming
  <2>3. ASSUME NEW s \in Senders, Trim(s)
        PROVE  RingBound'
    <3>1. Len(buf') <= MaxSize + Cardinality(Trimming')
      BY <1>1, <1>2, <1>5, <2>3
    <3>. QED  BY <3>1 DEF RingBound, Trimming
  <2>4. ASSUME NEW s \in Senders, Enter(s) \/ Drop(s) \/ Write(s) \/ PushFails(s)
        PROVE  RingBound'
    BY <1>7, <1>8, <2>4
  <2>5. ASSUME NEW c \in Clients,
               Connected(c) \/ GetFrames(c) \/ Replay(c) \/ Clear(c) \/ ClearFails(c)
        PROVE  RingBound'
    BY <1>6, <1>7, <1>9, <1>12, <2>5
  <2>6. CASE UNCHANGED vars
    BY <1>7, <1>11, <1>12, <2>6
  <2>. QED  BY <2>1, <2>2, <2>3, <2>4, <2>5, <2>6 DEF Next

\* The list exceeds its maximum by no more than the pushes that have yet to trim it, for
\* any number of senders whose commands interleave.
THEOREM RingBounded == Spec => []RingBound
<1>1. Init => RingBound
  <2> SUFFICES ASSUME Init
               PROVE  RingBound
    OBVIOUS
  <2>1. Trimming = {} /\ Len(buf) = 0
    BY EmptySeq DEF Init, Trimming
  <2>. QED  BY <2>1, FS_EmptySet, DeliveryAssumption DEF RingBound, Trimming
<1>. QED  BY <1>1, DeliveryInvariant, RingStep, PTL DEF Spec

--------------------------------------------------------------------------------
(* What the list holds.                                                      *)

\* KeepsLatest, position by position.
Latest ==
  /\ Len(buf) <= Len(pushed)
  /\ \A i \in 1 .. Len(buf) : buf[i] = pushed[Len(pushed) - Len(buf) + i]

LEMMA LatestStep == DeliveryInv /\ Latest /\ [Next]_vars => Latest'
<1> SUFFICES ASSUME DeliveryInv, Latest, [Next]_vars
             PROVE  Latest'
  OBVIOUS
<1>. USE DeliveryAssumption
<1>1. /\ buf \in Seq(Frame) /\ pushed \in Seq(Frame)
      /\ Len(buf) \in Nat /\ Len(pushed) \in Nat
  BY LenProperties DEF DeliveryInv, TypeOK
<1>2. CASE UNCHANGED <<buf, pushed>>
  BY <1>2 DEF Latest
<1>3. CASE buf' = <<>> /\ UNCHANGED pushed
  BY <1>1, <1>3, EmptySeq DEF Latest
<1>4. ASSUME NEW s \in Senders, Push(s)
      PROVE  Latest'
  <2>1. frame[s] \in Frame
    BY <1>4 DEF Push, DeliveryInv, Framed
  <2>2. /\ Len(buf') = Len(buf) + 1
        /\ \A i \in 1 .. Len(buf) : buf'[i] = buf[i]
        /\ buf'[Len(buf) + 1] = frame[s]
    BY <1>1, <1>4, <2>1, AppendProperties DEF Push
  <2>3. /\ Len(pushed') = Len(pushed) + 1
        /\ \A i \in 1 .. Len(pushed) : pushed'[i] = pushed[i]
        /\ pushed'[Len(pushed) + 1] = frame[s]
    BY <1>1, <1>4, <2>1, AppendProperties DEF Push
  <2>. DEFINE m == Len(buf)
              n == Len(pushed)
  <2>4. m <= n /\ \A i \in 1 .. m : buf[i] = pushed[n - m + i]
    BY DEF Latest
  <2>5. ASSUME NEW i \in 1 .. m + 1
        PROVE  buf'[i] = pushed'[n - m + i]
    <3>. HIDE DEF m, n
    <3>1. CASE i = m + 1
      BY <1>1, <2>2, <2>3, <3>1 DEF m, n
    <3>2. CASE i \in 1 .. m
      <4>1. n - m + i \in 1 .. n
        BY <1>1, <2>4, <3>2 DEF m, n
      <4>2. buf'[i] = buf[i] /\ pushed'[n - m + i] = pushed[n - m + i]
        BY <2>2, <2>3, <3>2, <4>1 DEF m, n
      <4>. QED  BY <2>4, <3>2, <4>2
    <3>. QED  BY <1>1, <3>1, <3>2 DEF m
  <2>6. Len(pushed') - Len(buf') = n - m
    BY <1>1, <2>2, <2>3
  <2>. QED  BY <1>1, <2>2, <2>3, <2>4, <2>5, <2>6 DEF Latest
<1>5. ASSUME NEW s \in Senders, Trim(s)
      PROVE  Latest'
  <2>1. /\ buf' \in Seq(Frame) /\ Len(buf') <= Len(buf)
        /\ \A i \in 1 .. Len(buf') : buf'[i] = buf[Len(buf) - Len(buf') + i]
        /\ pushed' = pushed
    BY <1>1, <1>5, TrimProperties DEF Trim
  <2>. DEFINE k == Len(buf')
              m == Len(buf)
              n == Len(pushed)
  <2>2. k \in Nat
    BY <2>1, LenProperties
  <2>3. m <= n /\ \A i \in 1 .. m : buf[i] = pushed[n - m + i]
    BY DEF Latest
  <2>4. ASSUME NEW i \in 1 .. k
        PROVE  buf'[i] = pushed[n - k + i]
    <3>1. buf'[i] = buf[m - k + i]
      BY <2>1
    <3>. HIDE DEF k, m, n
    <3>2. m - k + i \in 1 .. m /\ n - m + (m - k + i) = n - k + i
      BY <1>1, <2>1, <2>2 DEF k, m, n
    <3>3. buf[m - k + i] = pushed[n - m + (m - k + i)]
      BY <2>3, <3>2
    <3>. QED  BY <3>1, <3>2, <3>3
  <2>. QED  BY <1>1, <2>1, <2>2, <2>3, <2>4 DEF Latest
<1>6. ASSUME NEW s \in Senders, Enter(s) \/ Drop(s) \/ Write(s) \/ PushFails(s)
      PROVE  UNCHANGED <<buf, pushed>>
  BY <1>6 DEF Enter, Drop, Write, PushFails, Return, bufVars
<1>7. ASSUME NEW c \in Clients,
             Connected(c) \/ GetFrames(c) \/ Replay(c) \/ Clear(c) \/ ClearFails(c)
      PROVE  UNCHANGED pushed /\ buf' \in {buf, <<>>}
  BY <1>7 DEF Connected, GetFrames, Replay, Clear, ClearFails, bufVars
<1>8. Expire => buf' = <<>> /\ UNCHANGED pushed
  BY DEF Expire
<1>9. UNCHANGED vars => UNCHANGED <<buf, pushed>>
  BY DEF vars, bufVars
<1>. QED  BY <1>2, <1>3, <1>4, <1>5, <1>6, <1>7, <1>8, <1>9 DEF Next

\* What the list holds is the end of what was pushed, in that order, whichever of the
\* concurrent pushes trims it.
THEOREM LatestKept == Spec => []KeepsLatest
<1>1. Init => Latest
  BY EmptySeq DEF Init, Latest
<1>2. DeliveryInv /\ Latest => KeepsLatest
  <2> SUFFICES ASSUME DeliveryInv, Latest
               PROVE  KeepsLatest
    OBVIOUS
  <2>1. buf \in Seq(Frame) /\ pushed \in Seq(Frame)
    BY DEF DeliveryInv, TypeOK
  <2>2. IsSuffix(buf, pushed) <=> Latest
    BY <2>1, SuffixByIndex DEF Latest
  <2>. QED  BY <2>2 DEF KeepsLatest
<1>. QED  BY <1>1, <1>2, DeliveryInvariant, LatestStep, PTL DEF Spec

--------------------------------------------------------------------------------
(* The header of a multi-client frame.                                       *)

LEMMA UpTo ==
  ASSUME NEW n \in Nat, NEW d
  PROVE  d \in BytesUpTo(n) <=> d \in Seq(Bytes) /\ Len(d) <= n
<1>1. ASSUME d \in BytesUpTo(n)
      PROVE  d \in Seq(Bytes) /\ Len(d) <= n
  <2>1. PICK k \in 0 .. n : d \in [1 .. k -> Bytes]
    BY <1>1 DEF BytesUpTo
  <2>. QED  BY <2>1
<1>2. ASSUME d \in Seq(Bytes), Len(d) <= n
      PROVE  d \in BytesUpTo(n)
  <2>1. Len(d) \in 0 .. n /\ d \in [1 .. Len(d) -> Bytes]
    BY <1>2, LenProperties
  <2>. QED  BY <2>1 DEF BytesUpTo
<1>. QED  BY <1>1, <1>2

\* What wrapping gives, byte by byte.
LEMMA Wrapped ==
  ASSUME NEW id \in UUID, NEW type \in MsgType, NEW data \in Seq(Bytes)
  PROVE  LET d == WrapMultiClientFrame(id, type, data) IN
         /\ d \in Seq(Bytes)
         /\ Len(d) = MCHeaderSize + Len(data)
         /\ d[1] = IF type = "text" THEN 1 ELSE 2
         /\ \A i \in 1 .. UUIDLen : d[1 + i] = id[i]
         /\ \A i \in 1 .. Len(data) : d[MCHeaderSize + i] = data[i]
<1>. USE CodecAssumption
<1>. DEFINE h == IF type = "text" THEN 1 ELSE 2
            p == <<h>> \o id
            d == p \o data
<1>1. h \in Bytes
  OBVIOUS
<1>. HIDE DEF h
<1>2. <<h>> \in Seq(Bytes) /\ Len(<<h>>) = 1 /\ <<h>>[1] = h
  BY <1>1
<1>3. id \in Seq(Bytes) /\ Len(id) = UUIDLen
  BY DEF UUID
<1>4. /\ p \in Seq(Bytes) /\ Len(p) = 1 + UUIDLen
      /\ \A i \in 1 .. 1 + UUIDLen : p[i] = IF i <= 1 THEN <<h>>[i] ELSE id[i - 1]
  BY <1>2, <1>3, ConcatProperties
<1>5. p[1] = h
  BY <1>2, <1>4
<1>6. ASSUME NEW i \in 1 .. UUIDLen
      PROVE  p[1 + i] = id[i]
  <2>1. 1 + i \in 1 .. 1 + UUIDLen /\ ~ (1 + i <= 1) /\ (1 + i) - 1 = i
    OBVIOUS
  <2>. QED  BY <1>4, <2>1
<1>. HIDE DEF p
<1>7. Len(data) \in Nat
  BY LenProperties
<1>8. /\ d \in Seq(Bytes) /\ Len(d) = 1 + UUIDLen + Len(data)
      /\ \A i \in 1 .. 1 + UUIDLen + Len(data) :
           d[i] = IF i <= 1 + UUIDLen THEN p[i] ELSE data[i - (1 + UUIDLen)]
  <2>1. /\ d \in Seq(Bytes) /\ Len(d) = Len(p) + Len(data)
        /\ \A i \in 1 .. Len(p) + Len(data) :
             d[i] = IF i <= Len(p) THEN p[i] ELSE data[i - Len(p)]
    BY <1>4, ConcatProperties
  <2>. HIDE DEF d
  <2>. QED  BY <1>4, <2>1
<1>. HIDE DEF d
<1>9. d[1] = h
  BY <1>5, <1>7, <1>8
<1>10. ASSUME NEW i \in 1 .. UUIDLen
       PROVE  d[1 + i] = id[i]
  <2>1. 1 + i \in 1 .. 1 + UUIDLen + Len(data) /\ 1 + i <= 1 + UUIDLen
    BY <1>7
  <2>2. d[1 + i] = p[1 + i]
    BY <1>8, <2>1
  <2>. QED  BY <1>6, <2>2
<1>11. ASSUME NEW i \in 1 .. Len(data)
       PROVE  d[1 + UUIDLen + i] = data[i]
  <2>1. /\ 1 + UUIDLen + i \in 1 .. 1 + UUIDLen + Len(data)
        /\ ~ (1 + UUIDLen + i <= 1 + UUIDLen) /\ 1 + UUIDLen + i - (1 + UUIDLen) = i
    BY <1>7
  <2>. QED  BY <1>8, <2>1
<1>12. d = WrapMultiClientFrame(id, type, data)
  BY DEF d, p, h, WrapMultiClientFrame, MCHeaderText, MCHeaderBinary
<1>. QED  BY <1>8, <1>9, <1>10, <1>11, <1>12 DEF MCHeaderSize, h

\* What has a header is what wrapping a client's frame gives.
LEMMA ParseInverse ==
  ASSUME NEW d \in Seq(Bytes), NEW id \in UUID, NEW type \in MsgType, NEW data \in Seq(Bytes)
  PROVE  WrapMultiClientFrame(id, type, data) = d <=>
           /\ Len(d) >= MCHeaderSize /\ d[1] \in {MCHeaderText, MCHeaderBinary}
           /\ id = SubSeq(d, 2, MCHeaderSize)
           /\ type = IF d[1] = MCHeaderText THEN "text" ELSE "binary"
           /\ data = SubSeq(d, MCHeaderSize + 1, Len(d))
<1>. USE CodecAssumption DEF MCHeaderText, MCHeaderBinary, MCHeaderSize
<1>. DEFINE w == WrapMultiClientFrame(id, type, data)
            n == Len(d)
            k == Len(data)
            sid == SubSeq(d, 2, 1 + UUIDLen)
            sdata == SubSeq(d, 1 + UUIDLen + 1, n)
<1>1. n \in Nat /\ k \in Nat /\ \A i \in 1 .. n : d[i] \in Bytes
  BY LenProperties, ElementOfSeq
<1>2. /\ w \in Seq(Bytes) /\ Len(w) = 1 + UUIDLen + k
      /\ w[1] = IF type = "text" THEN 1 ELSE 2
      /\ \A i \in 1 .. UUIDLen : w[1 + i] = id[i]
      /\ \A i \in 1 .. k : w[1 + UUIDLen + i] = data[i]
  BY Wrapped
<1>3. id \in Seq(Bytes) /\ Len(id) = UUIDLen
  BY DEF UUID
<1>4. ASSUME n >= 1 + UUIDLen
      PROVE  /\ sid \in Seq(Bytes) /\ Len(sid) = UUIDLen
             /\ \A i \in 1 .. UUIDLen : sid[i] = d[1 + i]
  <2>1. \A i \in 2 .. 1 + UUIDLen : d[i] \in Bytes
    BY <1>1, <1>4
  <2>. HIDE DEF n
  <2>2. /\ sid \in Seq(Bytes)
        /\ Len(sid) = IF 2 <= 1 + UUIDLen THEN 1 + UUIDLen - 2 + 1 ELSE 0
        /\ \A i \in 1 .. 1 + UUIDLen - 2 + 1 : sid[i] = d[2 + i - 1]
    BY <2>1, SubSeqProperties
  <2>. HIDE DEF sid
  <2>. QED  BY <2>2
<1>5. ASSUME n >= 1 + UUIDLen
      PROVE  /\ sdata \in Seq(Bytes) /\ Len(sdata) = n - (1 + UUIDLen)
             /\ \A i \in 1 .. n - (1 + UUIDLen) : sdata[i] = d[1 + UUIDLen + i]
  <2>. DEFINE from == 1 + UUIDLen + 1
  <2>1. \A i \in from .. n : d[i] \in Bytes
    BY <1>1
  <2>2. from \in Int /\ n - from + 1 = n - (1 + UUIDLen) /\ from <= n + 1
    BY <1>1, <1>5
  <2>. HIDE DEF n, from
  <2>3. /\ sdata \in Seq(Bytes)
        /\ Len(sdata) = IF from <= n THEN n - from + 1 ELSE 0
        /\ \A i \in 1 .. n - from + 1 : sdata[i] = d[from + i - 1]
    BY <1>1, <2>1, <2>2, SubSeqProperties DEF from
  <2>. HIDE DEF sdata
  <2>4. Len(sdata) = n - (1 + UUIDLen)
    BY <1>1, <2>2, <2>3
  <2>5. ASSUME NEW i \in 1 .. n - (1 + UUIDLen)
        PROVE  sdata[i] = d[1 + UUIDLen + i]
    <3>1. sdata[i] = d[from + i - 1]
      BY <2>2, <2>3
    <3>2. from + i - 1 = 1 + UUIDLen + i
      BY DEF from
    <3>. QED  BY <3>1, <3>2
  <2>. QED  BY <2>3, <2>4, <2>5
<1>. HIDE DEF w, sid, sdata
<1>6. ASSUME w = d
      PROVE  /\ n >= 1 + UUIDLen /\ d[1] \in {1, 2}
             /\ id = sid /\ data = sdata
             /\ type = IF d[1] = 1 THEN "text" ELSE "binary"
  <2>1. n = 1 + UUIDLen + k
    BY <1>2, <1>6
  <2>2. n >= 1 + UUIDLen /\ n - (1 + UUIDLen) = k
    BY <1>1, <2>1
  <2>. HIDE DEF n, k
  <2>3. Len(sid) = UUIDLen /\ sid \in Seq(Bytes) /\ \A i \in 1 .. UUIDLen : sid[i] = id[i]
    BY <1>2, <1>4, <1>6, <2>2
  <2>4. id = sid
    BY <1>3, <2>3, SeqEqual
  <2>5. Len(sdata) = k /\ sdata \in Seq(Bytes) /\ \A i \in 1 .. k : sdata[i] = data[i]
    BY <1>2, <1>5, <1>6, <2>2
  <2>6. data = sdata
    BY <2>5, SeqEqual DEF k
  <2>7. d[1] = IF type = "text" THEN 1 ELSE 2
    BY <1>2, <1>6
  <2>. QED  BY <2>2, <2>4, <2>6, <2>7 DEF MsgType
<1>7. ASSUME n >= 1 + UUIDLen, d[1] \in {1, 2}, id = sid, data = sdata,
             type = IF d[1] = 1 THEN "text" ELSE "binary"
      PROVE  w = d
  <2>1. k = n - (1 + UUIDLen)
    BY <1>5, <1>7
  <2>. HIDE DEF n, k
  <2>2. Len(w) = n
    BY <1>1, <1>2, <2>1
  <2>3. w[1] = d[1]
    BY <1>2, <1>7
  <2>4. \A i \in 1 .. UUIDLen : w[1 + i] = d[1 + i]
    BY <1>2, <1>4, <1>7
  <2>5. \A i \in 1 .. k : w[1 + UUIDLen + i] = d[1 + UUIDLen + i]
    BY <1>2, <1>5, <1>7, <2>1
  <2>6. ASSUME NEW j \in 1 .. n
        PROVE  w[j] = d[j]
    <3>1. CASE j = 1
      BY <2>3, <3>1
    <3>2. CASE j \in 2 .. 1 + UUIDLen
      <4>1. j - 1 \in 1 .. UUIDLen /\ 1 + (j - 1) = j
        BY <3>2
      <4>. QED  BY <2>4, <4>1
    <3>3. CASE j \in 1 + UUIDLen + 1 .. n
      <4>1. j - (1 + UUIDLen) \in 1 .. k /\ 1 + UUIDLen + (j - (1 + UUIDLen)) = j
        BY <1>1, <2>1, <3>3
      <4>. QED  BY <2>5, <4>1
    <3>. QED  BY <1>1, <3>1, <3>2, <3>3
  <2>. QED  BY <1>2, <2>2, <2>6, SeqEqual DEF n
<1>. QED  BY <1>6, <1>7 DEF w, sid, sdata

\* HeaderExact, for one frame.
LEMMA HeaderOfFrame ==
  ASSUME NEW d \in BytesUpTo(MCHeaderSize + MaxData)
  PROVE  LET wrapped == {w \in UUID \X MsgType \X BytesUpTo(MaxData) :
                           WrapMultiClientFrame(w[1], w[2], w[3]) = d}
             parsed == ParseMultiClientHeader(d)
         IN IF parsed.ok THEN wrapped = {<<parsed.clientID, parsed.msgType, parsed.payload>>}
            ELSE wrapped = {}
<1>. USE CodecAssumption
<1>. DEFINE id == SubSeq(d, 2, MCHeaderSize)
            type == IF d[1] = MCHeaderText THEN "text" ELSE "binary"
            data == SubSeq(d, MCHeaderSize + 1, Len(d))
            has == Len(d) >= MCHeaderSize /\ d[1] \in {MCHeaderText, MCHeaderBinary}
            all == UUID \X MsgType \X BytesUpTo(MaxData)
            wrapped == {w \in all : WrapMultiClientFrame(w[1], w[2], w[3]) = d}
            parsed == ParseMultiClientHeader(d)
<1>1. d \in Seq(Bytes) /\ Len(d) <= MCHeaderSize + MaxData /\ Len(d) \in Nat
      /\ MCHeaderSize \in Nat
  BY UpTo, LenProperties DEF MCHeaderSize
<1>2. ASSUME has
      PROVE  id \in UUID /\ type \in MsgType /\ data \in BytesUpTo(MaxData)
  <2>1. \A i \in 1 .. Len(d) : d[i] \in Bytes
    BY <1>1, ElementOfSeq
  <2>2. id \in Seq(Bytes) /\ Len(id) = UUIDLen
    <3>1. \A i \in 2 .. MCHeaderSize : d[i] \in Bytes
      BY <1>1, <1>2, <2>1
    <3>2. id \in Seq(Bytes)
          /\ Len(id) = IF 2 <= MCHeaderSize THEN MCHeaderSize - 2 + 1 ELSE 0
      BY <1>1, <3>1, SubSeqProperties
    <3>. HIDE DEF id
    <3>. QED  BY <3>2 DEF MCHeaderSize
  <2>3. id \in UUID
    <3>. HIDE DEF id
    <3>. QED  BY <2>2, LenProperties DEF UUID
  <2>4. data \in Seq(Bytes) /\ Len(data) <= MaxData
    <3>. DEFINE from == MCHeaderSize + 1
    <3>1. from \in Int /\ Len(d) \in Int /\ \A i \in from .. Len(d) : d[i] \in Bytes
      BY <1>1, <2>1
    <3>2. Len(d) - from + 1 <= MaxData
      BY <1>1
    <3>. HIDE DEF from
    <3>3. /\ SubSeq(d, from, Len(d)) \in Seq(Bytes)
          /\ Len(SubSeq(d, from, Len(d))) = IF from <= Len(d) THEN Len(d) - from + 1 ELSE 0
      BY <3>1, SubSeqProperties
    <3>4. Len(SubSeq(d, from, Len(d))) <= MaxData
      BY <3>2, <3>3
    <3>. QED  BY <3>3, <3>4 DEF from
  <2>5. data \in BytesUpTo(MaxData)
    BY <2>4, UpTo
  <2>. QED  BY <2>3, <2>5 DEF MsgType
<1>3. ASSUME NEW w \in all
      PROVE  WrapMultiClientFrame(w[1], w[2], w[3]) = d <=> has /\ w = <<id, type, data>>
  <2>1. w[1] \in UUID /\ w[2] \in MsgType /\ w[3] \in BytesUpTo(MaxData)
        /\ w = <<w[1], w[2], w[3]>>
    OBVIOUS
  <2>2. w[3] \in Seq(Bytes)
    BY <2>1, UpTo
  <2>3. WrapMultiClientFrame(w[1], w[2], w[3]) = d <=>
          has /\ w[1] = id /\ w[2] = type /\ w[3] = data
    BY <1>1, <2>1, <2>2, ParseInverse
  <2>. HIDE DEF has, id, type, data
  <2>. QED  BY <2>1, <2>3
<1>4. CASE has
  <2>1. /\ parsed.ok = TRUE
        /\ parsed.clientID = id /\ parsed.msgType = type /\ parsed.payload = data
    <3>1. ~ (Len(d) < MCHeaderSize)
      BY <1>1, <1>4
    <3>. HIDE DEF id, type, data
    <3>2. parsed = [ok |-> TRUE, clientID |-> id, msgType |-> type, payload |-> data]
      BY <1>4, <3>1 DEF ParseMultiClientHeader, id, type, data
    <3>. HIDE DEF parsed
    <3>. QED  BY <3>2
  <2>2. <<id, type, data>> \in all
    BY <1>2, <1>4
  <2>. HIDE DEF has, id, type, data, all, parsed
  <2>3. wrapped = {<<id, type, data>>}
    BY <1>3, <1>4, <2>2
  <2>. QED  BY <2>1, <2>3 DEF all, parsed
<1>5. CASE ~ has
  <2>1. parsed.ok = FALSE
    <3>1. Len(d) < MCHeaderSize \/ d[1] \notin {MCHeaderText, MCHeaderBinary}
      BY <1>1, <1>5
    <3>. QED  BY <3>1 DEF ParseMultiClientHeader, NotOk
  <2>. HIDE DEF has, id, type, data, all, parsed
  <2>2. wrapped = {}
    BY <1>3, <1>5
  <2>. QED  BY <2>1, <2>2 DEF all, parsed
<1>. QED  BY <1>4, <1>5

\* A frame has a header if and only if wrapping a client's frame gives it, and parsing it
\* gives back what was wrapped, for every frame, alphabet of bytes and length of an ID.
THEOREM HeaderRoundTrip == CodecSpec => []HeaderExact
<1>. DEFINE I == inbox \subseteq BytesUpTo(MCHeaderSize + MaxData)
<1>1. CodecInit => I
  BY DEF CodecInit
<1>2. I /\ [Receive]_inbox => I'
  BY DEF Receive
<1>3. I => HeaderExact
  BY HeaderOfFrame DEF HeaderExact
<1>. QED  BY <1>1, <1>2, <1>3, PTL DEF CodecSpec
================================================================================
