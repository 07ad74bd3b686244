-------------------------------- MODULE Keepalive --------------------------------
(***************************************************************************)
(* ServeWS together with pingLoop (internal/handler/handler.go), the       *)
(* goroutine that pings a registered server until it is paired, and with   *)
(* remote ends that fall silent: the peer is gone, but no close frame and  *)
(* no error of the network tells the relay.                                *)
(*                                                                         *)
(* What pingLoop does to the WebSocket takes effect when its WS.Close      *)
(* returns, and is a Disconnect of ServeWS: every step here is a step of   *)
(* ServeWS or leaves its variables alone.                                  *)
(***************************************************************************)
EXTENDS ServeWS

VARIABLES
  ping,    \* where the pingLoop of a connection is
  silent   \* the remote ends that are gone without the relay being told

keepVars == <<vars, ping, silent>>

PingLabel == {"off", "tick", "pong"}

KTypeOK ==
  /\ TypeOK
  /\ ping \in [Conns -> PingLabel]
  /\ silent \subseteq Conns

KInit ==
  /\ Init
  /\ ping = [c \in Conns |-> "off"]
  /\ silent = {}

PingGoto(c, from, to) == ping[c] = from /\ ping' = [ping EXCEPT ![c] = to]

--------------------------------------------------------------------------------
\* The handler's goroutine: it starts pingLoop after server_registered, and the
\* deferred function stops it before it calls HandleClose.
Serve(c) ==
  /\ Step(c)
  /\ ping' = IF pc[c] = "settle" THEN [ping EXCEPT ![c] = "tick"]
             ELSE IF pc[c] = "close" THEN [ping EXCEPT ![c] = "off"]
             ELSE ping
  /\ UNCHANGED silent

\* Nothing is heard from a silent end, but the network may still report it.
Hear(c) ==
  /\ Remote(c)
  /\ c \in silent => Disconnect(c)
  /\ UNCHANGED <<ping, silent>>

\* Only a connection that is pinged: any other may simply send nothing for ever.
FallSilent(c) ==
  /\ ping[c] \in {"tick", "pong"}
  /\ ws[c] = "open"
  /\ silent' = silent \cup {c}
  /\ UNCHANGED <<vars, ping>>

--------------------------------------------------------------------------------
(* pingLoop.                                                                 *)

\* The ticker fires: the loop ends for good if the connection is paired just now.
Tick(c) ==
  /\ PingGoto(c, "tick", IF IsPaired(c) THEN "off" ELSE "pong")
  /\ UNCHANGED <<vars, silent>>

PongArrives(c) ==
  /\ c \notin silent
  /\ ws[c] # "closed"
  /\ PingGoto(c, "pong", "tick")
  /\ UNCHANGED <<vars, silent>>

\* A slip of PongMissing: the loop gives up, and leaves the connection open.
PongMissingIgnored(c) ==
  /\ PingGoto(c, "pong", "off")
  /\ UNCHANGED <<vars, silent>>

\* No pong within PongTimeout, or a WebSocket that is closed.
PongMissing(c) ==
  /\ PingGoto(c, "pong", "off")
  /\ ws' = [ws EXCEPT ![c] = "closed"]
  /\ UNCHANGED <<storeVars, usernames, conns, groups, connFields, goVars, silent>>

PingLoop(c) ==
  Tick(c) \/ PongArrives(c) \/ PongMissing(c)

--------------------------------------------------------------------------------
Quietly(A) == A /\ UNCHANGED <<ping, silent>>

KNext ==
  \/ Quietly(Shutdown)
  \/ \E c \in Conns :
       Serve(c) \/ Hear(c) \/ FallSilent(c) \/ PingLoop(c) \/ Quietly(CloseCompletes(c))

(***************************************************************************)
(* As in ServeWS, and pingLoop is a goroutine with a ticker and a timeout. *)
(***************************************************************************)
KSpec ==
  /\ KInit /\ [][KNext]_keepVars
  /\ \A c \in Conns :
       /\ WF_keepVars(Serve(c))
       /\ WF_keepVars(Quietly(CloseCompletes(c)))
       /\ WF_keepVars(PingLoop(c))

--------------------------------------------------------------------------------
(* Properties.                                                               *)

\* A legacy server is on offer whose remote end has fallen silent.
SilentOffer(u) == waiting[u] \in silent /\ ~ req[waiting[u]].multiClient

\* A silent legacy server does not stay on offer: it is pinged for as long as it
\* waits, so that clients are not connected to it for ever after.
SilentServerLeaves == \A u \in Usernames : SilentOffer(u) ~> ~ SilentOffer(u)
================================================================================
