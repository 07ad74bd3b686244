-------------------------------- MODULE Delivery --------------------------------
(***************************************************************************)
(* What happens to a frame once Forward has chosen its target: writeToConn *)
(* with its bound on the writes that wait for one connection               *)
(* (internal/connections/connections.go), and, for legacy pairs, the       *)
(* replay buffer in Redis (internal/connections/buffer.go) with the part   *)
(* of ServeWS that replays it to the next client of the username           *)
(* (internal/handler/handler.go).                                          *)
(*                                                                         *)
(* A sender is the goroutine of a connection; legacy senders, which may be *)
(* of successive pairs, belong to one username, and so do the clients that *)
(* connect.  Frames are numbered in the order in which they are sent.      *)
(* Redis pipelines are not transactions: commands of others may come       *)
(* between theirs.  A pipeline is a single write to Redis, which then runs *)
(* all of it; one that fails before has run nothing.                       *)
(***************************************************************************)
EXTENDS Naturals, FiniteSets, SequencesExt

CONSTANTS
  Senders,        \* goroutines that forward frames
  LegacySenders,  \* those of them whose frames are buffered
  Targets,        \* connections written to
  TargetOf,       \* sender -> its target
  Clients,        \* clients of the username, as they connect
  MaxPending,     \* maxPendingWrites
  MaxSize,        \* Buffer.maxSize
  MaxFrames       \* bound on the frames of the legacy senders

ASSUME DeliveryAssumption ==
  /\ IsFiniteSet(Senders)
  /\ LegacySenders \subseteq Senders
  /\ TargetOf \in [Senders -> Targets]
  /\ MaxPending \in Nat \ {0}
  /\ MaxSize \in Nat \ {0}
  /\ MaxFrames \in Nat

VARIABLES
  stage,    \* where a sender is
  pending,  \* Conn.PendingWrites of a target
  frame,    \* the number of a sender's current frame, 0 when it has none
  sent,     \* how many frames the legacy senders have sent
  buf,      \* the list at bufferKey(username)
  pushed,   \* history: every frame that entered it, in order
  joining,  \* where a client is after client_connected
  frames,   \* what GetFrames returned to a client
  missed,   \* history: the frames that did not reach their target, nor a client since
  lost      \* history: those of them that a Clear deleted

sendVars == <<stage, pending, frame, sent>>
bufVars == <<buf, pushed>>
joinVars == <<joining, frames>>
history == <<missed, lost>>
vars == <<sendVars, bufVars, joinVars, history>>

Frame == 1 .. MaxFrames

TypeOK ==
  /\ stage \in [Senders -> {"idle", "drop", "write", "push", "trim"}]
  /\ pending \in [Targets -> 0 .. Cardinality(Senders)]
  /\ frame \in [Senders -> 0 .. MaxFrames]
  /\ sent \in 0 .. MaxFrames
  /\ buf \in Seq(Frame)
  /\ pushed \in Seq(Frame)
  /\ joining \in [Clients -> {"off", "fetch", "send", "clear", "live"}]
  /\ frames \in [Clients -> Seq(Frame)]
  /\ missed \subseteq Frame
  /\ lost \subseteq Frame

Init ==
  /\ stage = [s \in Senders |-> "idle"]
  /\ pending = [t \in Targets |-> 0]
  /\ frame = [s \in Senders |-> 0]
  /\ sent = 0
  /\ buf = <<>>
  /\ pushed = <<>>
  /\ joining = [c \in Clients |-> "off"]
  /\ frames = [c \in Clients |-> <<>>]
  /\ missed = {}
  /\ lost = {}

--------------------------------------------------------------------------------
(* writeToConn.                                                              *)

\* A legacy sender's frame gets the next number, and there are MaxFrames of them.
Number(s) ==
  IF s \in LegacySenders
  THEN /\ sent < MaxFrames
       /\ sent' = sent + 1
       /\ frame' = [frame EXCEPT ![s] = sent']
  ELSE UNCHANGED <<sent, frame>>

\* pending := Add(1): the sender itself counts.
Enter(s) ==
  /\ stage[s] = "idle"
  /\ Number(s)
  /\ pending' = [pending EXCEPT ![TargetOf[s]] = @ + 1]
  /\ stage' = [stage EXCEPT ![s] =
                 IF pending'[TargetOf[s]] > MaxPending THEN "drop" ELSE "write"]
  /\ UNCHANGED <<bufVars, joinVars, history>>

Miss(s) == missed' = missed \cup ({frame[s]} \cap Frame)

\* The deferred Add(-1); then a legacy frame goes to Push, written or not.
Return(s) ==
  /\ pending' = [pending EXCEPT ![TargetOf[s]] = @ - 1]
  /\ stage' = [stage EXCEPT ![s] = IF s \in LegacySenders THEN "push" ELSE "idle"]
  /\ UNCHANGED <<frame, sent, bufVars, joinVars, lost>>

\* A slip of Drop: the early return does not undo the increment.
DropLeaking(s) ==
  /\ stage[s] = "drop"
  /\ stage' = [stage EXCEPT ![s] = IF s \in LegacySenders THEN "push" ELSE "idle"]
  /\ Miss(s)
  /\ UNCHANGED <<pending, frame, sent, bufVars, joinVars, lost>>

\* relay_backpressure is sent to the sender by a goroutine of its own.
Drop(s) == stage[s] = "drop" /\ Return(s) /\ Miss(s)

\* The write succeeds, fails or times out: an error is only logged.
Write(s) == stage[s] = "write" /\ Return(s) /\ (Miss(s) \/ UNCHANGED missed)

--------------------------------------------------------------------------------
(* Buffer.                                                                   *)

Done(s) ==
  /\ stage' = [stage EXCEPT ![s] = "idle"]
  /\ frame' = [frame EXCEPT ![s] = 0]

Push(s) ==
  /\ stage[s] = "push"
  /\ buf' = Append(buf, frame[s])
  /\ pushed' = Append(pushed, frame[s])
  /\ stage' = [stage EXCEPT ![s] = "trim"]
  /\ UNCHANGED <<pending, frame, sent, joinVars, history>>

\* A slip of Trim: LTRIM 0 maxSize-1.
TrimNewest(s) ==
  /\ stage[s] = "trim"
  /\ buf' = SubSeq(buf, 1, IF Len(buf) > MaxSize THEN MaxSize ELSE Len(buf))
  /\ Done(s)
  /\ UNCHANGED <<pending, sent, pushed, joinVars, history>>

\* Another: LTRIM -maxSize-1 -1.
TrimOneMore(s) ==
  /\ stage[s] = "trim"
  /\ buf' = SubSeq(buf, IF Len(buf) > MaxSize + 1 THEN Len(buf) - MaxSize ELSE 1, Len(buf))
  /\ Done(s)
  /\ UNCHANGED <<pending, sent, pushed, joinVars, history>>

\* LTRIM -maxSize -1, on whatever is in the list by now; EXPIRE changes no frames.
Trim(s) ==
  /\ stage[s] = "trim"
  /\ buf' = SubSeq(buf, IF Len(buf) > MaxSize THEN Len(buf) - MaxSize + 1 ELSE 1, Len(buf))
  /\ Done(s)
  /\ UNCHANGED <<pending, sent, pushed, joinVars, history>>

\* No connection to Redis: the frame is not buffered.
PushFails(s) ==
  /\ stage[s] = "push"
  /\ Done(s)
  /\ UNCHANGED <<pending, sent, bufVars, joinVars, history>>

\* bufferTTL after the last push.
Expire ==
  /\ buf # <<>>
  /\ buf' = <<>>
  /\ UNCHANGED <<sendVars, pushed, joinVars, history>>

--------------------------------------------------------------------------------
(* The replay, after client_connected was sent.                              *)

Connected(c) ==
  /\ joining[c] = "off"
  /\ joining' = [joining EXCEPT ![c] = "fetch"]
  /\ UNCHANGED <<sendVars, bufVars, frames, history>>

\* An error of LRANGE means no frames.
GetFrames(c) ==
  /\ joining[c] = "fetch"
  /\ \E vals \in {buf, <<>>} :
       /\ frames' = [frames EXCEPT ![c] = vals]
       /\ joining' = [joining EXCEPT ![c] = IF vals = <<>> THEN "live" ELSE "send"]
  /\ UNCHANGED <<sendVars, bufVars, history>>

\* sendJSON(buffered_messages): an error is ignored.
Replay(c) ==
  /\ joining[c] = "send"
  /\ joining' = [joining EXCEPT ![c] = "clear"]
  /\ frames' = [frames EXCEPT ![c] = <<>>]
  /\ missed' \in {missed, missed \ ToSet(frames[c])}
  /\ UNCHANGED <<sendVars, bufVars, lost>>

\* DEL takes whatever is in the list by now.
Clear(c) ==
  /\ joining[c] = "clear"
  /\ joining' = [joining EXCEPT ![c] = "live"]
  /\ buf' = <<>>
  /\ lost' = lost \cup (ToSet(buf) \cap missed)
  /\ UNCHANGED <<sendVars, pushed, frames, missed>>

ClearFails(c) ==
  /\ joining[c] = "clear"
  /\ joining' = [joining EXCEPT ![c] = "live"]
  /\ UNCHANGED <<sendVars, bufVars, frames, history>>

--------------------------------------------------------------------------------
Next ==
  \/ Expire
  \/ \E s \in Senders : Enter(s) \/ Drop(s) \/ Write(s) \/ Push(s) \/ Trim(s) \/ PushFails(s)
  \/ \E c \in Clients : Connected(c) \/ GetFrames(c) \/ Replay(c) \/ Clear(c) \/ ClearFails(c)

Spec == Init /\ [][Next]_vars

--------------------------------------------------------------------------------
(* Properties.                                                               *)

At(t, S) == {s \in Senders : TargetOf[s] = t /\ stage[s] \in S}

\* The counter of a connection is the number of calls of writeToConn for it, on every
\* way out of them, so that the bound on concurrent writes neither leaks nor creeps.
PendingExact ==
  \A t \in Targets :
    /\ pending[t] = Cardinality(At(t, {"drop", "write"}))
    /\ Cardinality(At(t, {"write"})) <= MaxPending

\* The list exceeds its maximum only by the pushes that have yet to trim it, although
\* several senders push to it and their commands interleave.
RingBound == Len(buf) <= MaxSize + Cardinality({s \in Senders : stage[s] = "trim"})

\* What is kept is the latest: no frame was pushed after one in the list and is not in
\* the list behind it.
KeepsLatest == IsSuffix(buf, pushed)

\* The buffer replays to the next client what the one before it missed: no such frame
\* is deleted before a client was given it.
NoLostFrame == lost = {}
================================================================================
