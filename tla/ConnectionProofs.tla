------------------------- MODULE ConnectionProofs -------------------------
(***************************************************************************)
(* What a stream does with its descriptors, for every set of descriptors   *)
(* and any number of waiting clients: IInv is inductive, and implies that  *)
(* no descriptor leaks and that a connected stream has a connection.       *)
(*                                                                         *)
(* One lemma for each action; the last three parts of IInv follow from one *)
(* another, so each lemma proves them together, except where a step has    *)
(* cases.                                                                  *)
(***************************************************************************)
EXTENDS Connection, TLAPS

USE NoneAssumption, MaxWaitingAssumption DEF stream, outside, States, Setup, IInv, Current

(* IInv holds initially: nothing is open.                                  *)
LEMMA InitIInv == Init => IInv
<1> SUFFICES ASSUME Init PROVE IInv
  OBVIOUS
<1> USE DEF Init
<1>1. TypeOK
  <2>1. {sock, fd} \subseteq Descriptors \cup {None}
    OBVIOUS
  <2>2. kernel \in [Descriptors -> States]
    OBVIOUS
  <2>3. waiting \in 0..MaxWaiting
    OBVIOUS
  <2>4. pc \in Setup \cup {"down", "fail", "poll", "connect", "receive", "deinit"}
    OBVIOUS
  <2>5. server \in BOOLEAN /\ connected \in BOOLEAN /\ reachable \in BOOLEAN /\ calm \in BOOLEAN
    OBVIOUS
  <2>6. ~(waiting > 0)
    OBVIOUS
  <2>7. type \in {"udp", "tcp", "serial"} /\ caller \in {"init", "run"}
    OBVIOUS
  <2> HIDE DEF Init
  <2>8. QED
    BY <2>1, <2>2, <2>3, <2>4, <2>5, <2>6, <2>7, Zenon DEF TypeOK
<1>2. Places
  BY DEF Places
<1>3. Roles
  BY DEF Roles
<1>4. Connections
  BY DEF Connections
<1>5. QED
  BY <1>1, <1>2, <1>3, <1>4
-----------------------------------------------------------------------------
(* Setting up *)

(* Start opens nothing; by Places nothing is open that it forgets.         *)
LEMMA StartIInv == IInv /\ Start => IInv'
  BY DEF Start, TypeOK, Places, Roles, Connections

(* A call fails: only the place changes.                                   *)
LEMMA SetupFailsIInv == IInv /\ SetupFails => IInv'
  BY DEF SetupFails, TypeOK, Places, Roles, Connections

(* The new descriptor was closed, so it is not fd; sock was None.          *)
LEMMA OpenSocketIInv == IInv /\ OpenSocket => IInv'
  BY DEF OpenSocket, Free, TypeOK, Places, Roles, Connections

(* The socket is configured.                                               *)
LEMMA ConfigureIInv == IInv /\ Configure => IInv'
  BY DEF Configure, SetupGoesOn, TypeOK, Places, Roles, Connections

(* A serial line is connected when it is set up.                           *)
LEMMA ConfigureSerialIInv == IInv /\ ConfigureSerial => IInv'
  BY DEF ConfigureSerial, TypeOK, Places, Roles, Connections

(* The socket is bound.                                                    *)
LEMMA BindIInv == IInv /\ Bind => IInv'
  BY DEF Bind, SetupGoesOn, TypeOK, Places, Roles, Connections

(* From here on clients may wait at sock.                                  *)
LEMMA ListenIInv == IInv /\ Listen => IInv'
  BY DEF Listen, SetupGoesOn, TypeOK, Places, Roles, Connections

(* Whatever connect returns, if it is called for a client's own socket and *)
(* goes on to connect again only when run called it.                       *)
LEMMA ConnectsIInv ==
  ASSUME NEW there \in [BOOLEAN -> {"poll", "connect", "receive"}],
         \A b \in BOOLEAN : there[b] = "connect" => caller = "run",
         IInv, Connects(there),
         type = "tcp", ~server, sock # None, pc \in {"listen", "poll", "connect"}
  PROVE IInv'
<1>1. TypeOK'
  BY DEF Connects, TypeOK, Places, Roles
<1>2. QED
  BY <1>1 DEF Connects, TypeOK, Places, Roles, Connections

(* The connect of _lv2_osc_stream_reinit                                   *)
LEMMA FirstConnectIInv == IInv /\ FirstConnect => IInv'
<1> SUFFICES ASSUME IInv, FirstConnect PROVE IInv'
  OBVIOUS
<1> DEFINE there == [result \in BOOLEAN |-> IF caller = "init" THEN "poll" ELSE "connect"]
<1>1. there \in [BOOLEAN -> {"poll", "connect", "receive"}]
  OBVIOUS
<1>2. \A b \in BOOLEAN : there[b] = "connect" => caller = "run"
  BY DEF TypeOK
<1>3. Connects(there) /\ type = "tcp" /\ ~server /\ sock # None /\ pc = "listen"
  BY DEF FirstConnect, Places, Roles
<1> HIDE DEF there
<1>4. QED
  BY <1>1, <1>2, <1>3, ConnectsIInv

(* What failed to be set up is closed, and forgotten.                      *)
LEMMA CloseSocketIInv == IInv /\ CloseSocket => IInv'
  BY DEF CloseSocket, Closing, TypeOK, Places, Roles, Connections

(* All that is open is sock and fd, which are closed.                      *)
LEMMA DeinitIInv == IInv /\ Deinit => IInv'
  BY DEF Deinit, Closing, TypeOK, Places, Roles, Connections

-----------------------------------------------------------------------------
(* Running *)

(* fd was None, for the stream was not connected.                          *)
LEMMA AcceptIInv == IInv /\ Accept => IInv'
  BY DEF Accept, Free, TypeOK, Places, Roles, Connections

(* fd was None already.                                                    *)
LEMMA AcceptNobodyIInv == IInv /\ AcceptNobody => IInv'
  BY DEF AcceptNobody, TypeOK, Places, Roles, Connections

(* A client without a socket sets one up.                                  *)
LEMMA ReinitIInv == IInv /\ Reinit => IInv'
  BY DEF Reinit, TypeOK, Places, Roles, Connections

(* The connect of _lv2_osc_stream_run_tcp                                  *)
LEMMA ReConnectIInv == IInv /\ ReConnect => IInv'
<1> SUFFICES ASSUME IInv, ReConnect PROVE IInv'
  OBVIOUS
<1> DEFINE there == [result \in BOOLEAN |-> IF result THEN "receive" ELSE "poll"]
<1>1. there \in [BOOLEAN -> {"poll", "connect", "receive"}]
  OBVIOUS
<1>2. \A b \in BOOLEAN : there[b] # "connect"
  OBVIOUS
<1>3. Connects(there) /\ type = "tcp" /\ ~server /\ sock # None /\ pc \in {"poll", "connect"}
  BY DEF ReConnect, Roles
<1> HIDE DEF there
<1>4. QED
  BY <1>1, <1>2, <1>3, ConnectsIInv

(* connect(-1) does nothing.                                               *)
LEMMA ConnectNothingIInv == IInv /\ ConnectNothing => IInv'
  BY DEF ConnectNothing, TypeOK, Places, Roles, Connections

(* The connection stands.                                                  *)
LEMMA ReceiveNothingIInv == IInv /\ ReceiveNothing => IInv'
  BY DEF ReceiveNothing, Receiving, TypeOK, Places, Roles, Connections

(* The connection that is over is fd's for a server, sock's for a client.  *)
LEMMA DisconnectIInv == IInv /\ Disconnect => IInv'
<1> SUFFICES ASSUME IInv, Disconnect PROVE IInv'
  OBVIOUS
<1> USE DEF Disconnect, Receiving, Closing
<1>1. CASE server
  <2>1. TypeOK'
    BY <1>1 DEF TypeOK, Places
  <2>2. Places'
    BY <1>1 DEF TypeOK, Places
  <2>3. Roles'
    BY <1>1 DEF TypeOK, Places, Roles
  <2>4. Connections'
    BY <1>1 DEF TypeOK, Places, Connections
  <2>5. QED
    BY <2>1, <2>2, <2>3, <2>4
<1>2. CASE ~server
  <2>1. TypeOK'
    BY <1>2 DEF TypeOK, Places
  <2>2. Places'
    BY <1>2 DEF TypeOK, Places
  <2>3. Roles'
    BY <1>2 DEF TypeOK, Places, Roles
  <2>4. Connections'
    BY <1>2 DEF TypeOK, Places, Connections
  <2>5. QED
    BY <2>1, <2>2, <2>3, <2>4
<1>3. QED
  BY <1>1, <1>2 DEF TypeOK

(* A serial line has no fd, and keeps sock.                                *)
LEMMA ReadErrorIInv == IInv /\ ReadError => IInv'
  BY DEF ReadError, TypeOK, Places, Roles, Connections

-----------------------------------------------------------------------------
(* The others *)

(* What is connecting is no connection yet, and does not listen.           *)
LEMMA HandshakeIInv == IInv /\ Handshake => IInv'
  BY DEF Handshake, Becomes, TypeOK, Places, Roles, Connections

(* A connection that is over is still open.                                *)
LEMMA PeerLeaveIInv == IInv /\ PeerLeave => IInv'
  BY DEF PeerLeave, Becomes, TypeOK, Places, Roles, Connections

(* One more client waits where sock listens.                               *)
LEMMA ClientConnectsIInv == IInv /\ ClientConnects => IInv'
  BY DEF ClientConnects, TypeOK, Places, Roles, Connections

(* The stream does not see the weather.                                    *)
LEMMA WeatherIInv == IInv /\ Weather => IInv'
  BY DEF Weather, TypeOK, Places, Roles, Connections

-----------------------------------------------------------------------------
LEMMA NextIInv == IInv /\ [Next]_vars => IInv'
<1> SUFFICES ASSUME IInv, [Next]_vars PROVE IInv'
  OBVIOUS
<1>1. CASE Start \/ SetupFails \/ Deinit
  BY <1>1, StartIInv, SetupFailsIInv, DeinitIInv DEF IInv
<1>2. CASE Run
  <2>1. CASE OpenSocket \/ Configure \/ ConfigureSerial \/ Bind \/ Listen \/ FirstConnect \/ CloseSocket
    BY <2>1, OpenSocketIInv, ConfigureIInv, ConfigureSerialIInv, BindIInv, ListenIInv,
       FirstConnectIInv, CloseSocketIInv
  <2>2. CASE Accept \/ AcceptNobody \/ Reinit \/ ReConnect \/ ConnectNothing
    BY <2>2, AcceptIInv, AcceptNobodyIInv, ReinitIInv, ReConnectIInv, ConnectNothingIInv
  <2>3. CASE ReceiveNothing \/ Disconnect \/ ReadError
    BY <2>3, ReceiveNothingIInv, DisconnectIInv, ReadErrorIInv
  <2>4. QED
    BY <1>2, <2>1, <2>2, <2>3 DEF Run
<1>3. CASE Handshake \/ PeerLeave \/ ClientConnects \/ Weather
  BY <1>3, HandshakeIInv, PeerLeaveIInv, ClientConnectsIInv, WeatherIInv
<1>4. CASE UNCHANGED vars
  BY <1>4 DEF vars, TypeOK, Places, Roles, Connections
<1>5. QED
  BY <1>1, <1>2, <1>3, <1>4 DEF Next

(* The inductive invariant, for every instance                             *)
THEOREM ConnectionInvariant == Spec => []IInv
<1>1. Init => IInv
  BY InitIInv
<1>2. IInv /\ [Next]_vars => IInv'
  BY NextIInv
<1>3. QED
  BY <1>1, <1>2, PTL DEF Spec

(* Fields keep their types, and clients only wait where sock listens.      *)
THEOREM ConnectionTyped == Spec => []TypeOK
<1>1. IInv => TypeOK
  OBVIOUS
<1>2. QED
  BY <1>1, ConnectionInvariant, PTL

(* No descriptor leaks, none is closed twice or used after it was closed,  *)
(* whichever calls fail and whenever lv2_osc_stream_deinit is called.      *)
THEOREM NoLeak == Spec => []OwnsDescriptors
<1>1. IInv => OwnsDescriptors
  BY DEF OwnsDescriptors, TypeOK, Places
<1>2. QED
  BY <1>1, ConnectionInvariant, PTL

(* stream->connected is never true of a TCP stream without a connection.   *)
THEOREM ConnectedHolds == Spec => []ConnectedIsSo
<1>1. IInv => ConnectedIsSo
  BY DEF ConnectedIsSo, Connections
<1>2. QED
  BY <1>1, ConnectionInvariant, PTL
===========================================================================
