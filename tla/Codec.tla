--------------------------------- MODULE Codec ---------------------------------
(***************************************************************************)
(* The header that names a client in the frames between the relay and a    *)
(* multi-client server (WrapMultiClientFrame and ParseMultiClientHeader of *)
(* internal/connections/connections.go): a marker, which also holds the    *)
(* type of the frame, and the 16 bytes of the client's UUID.               *)
(***************************************************************************)
EXTENDS Naturals, Sequences

CONSTANTS
  Bytes,      \* the bytes that occur
  UUIDLen,    \* 16
  MaxData     \* bound on the length of a frame's data

ASSUME CodecAssumption ==
  /\ {1, 2} \subseteq Bytes
  /\ UUIDLen \in Nat \ {0}
  /\ MaxData \in Nat

MCHeaderText == 1
MCHeaderBinary == 2
MCHeaderSize == 1 + UUIDLen

VARIABLE inbox   \* the binary frame that a server sent, as a set of at most one

BytesUpTo(n) == UNION {[1 .. k -> Bytes] : k \in 0 .. n}
UUID == [1 .. UUIDLen -> Bytes]
MsgType == {"text", "binary"}

WrapMultiClientFrame(clientID, msgType, data) ==
  <<IF msgType = "text" THEN MCHeaderText ELSE MCHeaderBinary>> \o clientID \o data

NotOk == [ok |-> FALSE]

\* A slip of ParseMultiClientHeader: a header without data is too short.
ParseMultiClientHeaderStrict(data) ==
  IF Len(data) <= MCHeaderSize \/ data[1] \notin {MCHeaderText, MCHeaderBinary} THEN NotOk
  ELSE [ok |-> TRUE,
        clientID |-> SubSeq(data, 2, MCHeaderSize),
        msgType |-> IF data[1] = MCHeaderText THEN "text" ELSE "binary",
        payload |-> SubSeq(data, MCHeaderSize + 1, Len(data))]

ParseMultiClientHeader(data) ==
  IF Len(data) < MCHeaderSize \/ data[1] \notin {MCHeaderText, MCHeaderBinary} THEN NotOk
  ELSE [ok |-> TRUE,
        clientID |-> SubSeq(data, 2, MCHeaderSize),
        msgType |-> IF data[1] = MCHeaderText THEN "text" ELSE "binary",
        payload |-> SubSeq(data, MCHeaderSize + 1, Len(data))]

CodecInit == inbox = {}

\* Whatever a server sends: forwardFromServer asks whether it has a header.
Receive ==
  /\ inbox = {}
  /\ \E data \in BytesUpTo(MCHeaderSize + MaxData) : inbox' = {data}

CodecSpec == CodecInit /\ [][Receive]_inbox

--------------------------------------------------------------------------------
\* What has a header is exactly what wrapping a client's frame can give, and parsing it
\* gives back the client, the type and the data, which may be empty; a server's binary
\* frame is broadcast if and only if it is not of that form.
HeaderExact ==
  \A data \in inbox :
    LET wrapped == {w \in UUID \X MsgType \X BytesUpTo(MaxData) :
                      WrapMultiClientFrame(w[1], w[2], w[3]) = data}
        parsed == ParseMultiClientHeader(data)
    IN IF parsed.ok THEN wrapped = {<<parsed.clientID, parsed.msgType, parsed.payload>>}
       ELSE wrapped = {}
================================================================================
