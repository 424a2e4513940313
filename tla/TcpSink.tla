------------------------------ MODULE TcpSink ------------------------------
(***************************************************************************)
(* tcp_sink (sinks/tcp_sink.h) and its tcp_client (details/tcp_client.h):  *)
(* what they put on their connections.  A message has Units parts, and     *)
(* each ::send takes some of those that are left.  Connections are         *)
(* numbered; their streams are what the system took from the sink, which   *)
(* is not yet what a server has received.  The sink's mutex and the place  *)
(* in sink_it_ belong to the caller, which the module that uses the sink   *)
(* models.                                                                 *)
(***************************************************************************)
EXTENDS Integers, Sequences

CONSTANTS
    Units,          \* parts of a formatted message
    MaxConnections  \* bound: connections made

ASSUME TcpAssumption == {Units, MaxConnections} \subseteq Nat \ {0}

VARIABLES
    socket_,    \* the connection, 0 for none
    streams,    \* of each connection: which part of which message
    sends,      \* messages that the sink has been given
    gaveUp      \* connections on which ::send has returned 0

tcpVars == <<socket_, streams, sends, gaveUp>>

(* The constructor connects, or with lazy_connect leaves that to the first *)
(* message.                                                                *)
TcpInit ==
    /\ \/ socket_ = 0 /\ streams = <<>>
       \/ socket_ = 1 /\ streams = << <<>> >>
    /\ sends = 0
    /\ gaveUp = {}

(* Fault: what has once been connected is taken to be so still. *)
IsConnected_once == streams # <<>>

IsConnected == socket_ # 0

(* Format the message; it is the next to be sent. *)
BeginSend == sends' = sends + 1 /\ UNCHANGED <<socket_, streams, gaveUp>>

Connects ==
    /\ Len(streams) < MaxConnections
    /\ streams' = Append(streams, <<>>)
    /\ socket_' = Len(streams')
    /\ UNCHANGED <<sends, gaveUp>>

(* No address of the host takes the connection: connect throws. *)
ConnectFails == UNCHANGED tcpVars

(* ::send takes the next parts of the message of which sent are out. *)
SendSome(sent, parts) ==
    /\ streams' = [streams EXCEPT ![socket_] =
                     @ \o [i \in 1 .. parts |-> [number |-> sends, part |-> sent + i]]]
    /\ UNCHANGED <<socket_, sends, gaveUp>>

(* It returns 0: the loop ends as if all were sent. *)
SendNothing == gaveUp' = gaveUp \cup {socket_} /\ UNCHANGED <<socket_, streams, sends>>

(* It fails: close and throw.  (Fault: the connection is kept.) *)
SendFails_keeps_socket == UNCHANGED tcpVars

SendFails == socket_' = 0 /\ UNCHANGED <<streams, sends, gaveUp>>

-----------------------------------------------------------------------------
TcpTypeOK ==
    /\ streams \in Seq(Seq([number : 1 .. sends, part : 1 .. Units]))
    /\ Len(streams) <= MaxConnections
    /\ socket_ \in 0 .. Len(streams)
    /\ sends \in Nat
    /\ gaveUp \subseteq 1 .. Len(streams)

(* One part may follow another if it is the next of the same message or    *)
(* the first of a later one, when the former was complete.                 *)
Follows(x, y) ==
    \/ y.number = x.number /\ y.part = x.part + 1
    \/ y.number > x.number /\ y.part = 1 /\ x.part = Units

(* "Send exactly n_bytes": whatever sends are partial or fail, and however *)
(* often the sink reconnects, a connection carries whole messages, each    *)
(* once and in order, and only the last thing that was sent on it may be   *)
(* cut (tcp_client.h:118-143).  "Probably should not happen" are the       *)
(* connections on which ::send returned 0.                                 *)
StreamsAreFramed ==
    \A c \in 1 .. Len(streams) \ gaveUp :
        LET s == streams[c]
        IN  /\ \A i \in 1 .. Len(s) - 1 : Follows(s[i], s[i + 1])
            /\ s # <<>> =>
                  /\ s[1].part = 1
                  /\ \A d \in 1 .. c - 1 : \A i \in 1 .. Len(streams[d]) :
                        streams[d][i].number < s[1].number
=============================================================================
