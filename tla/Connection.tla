---------------------------- MODULE Connection ----------------------------
(***************************************************************************)
(* stream.h: the descriptors of a stream.  lv2_osc_stream_init opens one,  *)
(* call by call, or fails and closes it; lv2_osc_stream_run accepts one    *)
(* client at a time, connects and reconnects to a server, and gives up     *)
(* connections that are over; lv2_osc_stream_deinit closes what is open.   *)
(* The kernel's view of each descriptor is kept apart from the fields of   *)
(* the stream.                                                             *)
(***************************************************************************)
EXTENDS Naturals

CONSTANTS
  Descriptors,
  None,         \* -1
  MaxWaiting    \* bound: clients that wait to be accepted

ASSUME NoneAssumption == None \notin Descriptors
ASSUME MaxWaitingAssumption == MaxWaiting \in Nat

VARIABLES
  type,       \* the transport, by the url
  server,     \* stream->server
  sock,       \* stream->sock
  fd,         \* stream->fd
  connected,  \* stream->connected
  pc,         \* "down", a step of _lv2_osc_stream_reinit, "poll" or a step of run
  caller,     \* who called _lv2_osc_stream_reinit
  \* the system
  kernel,     \* what each descriptor is
  waiting,    \* clients that wait to be accepted
  reachable,  \* does the client's server listen?
  calm        \* do calls succeed that need nobody else?

stream == <<type, server, sock, fd, connected, pc, caller>>
outside == <<waiting, reachable, calm>>
vars == <<stream, kernel, outside>>

States == {"closed", "open", "bound", "listening", "connecting", "refused",
           "completed", "established", "over"}
Setup == {"open", "configure", "bind", "listen"}

TypeOK ==
  /\ type \in {"udp", "tcp", "serial"} /\ server \in BOOLEAN
  /\ {sock, fd} \subseteq Descriptors \cup {None}
  /\ connected \in BOOLEAN
  /\ pc \in Setup \cup {"down", "fail", "poll", "connect", "receive", "deinit"}
  /\ caller \in {"init", "run"}
  /\ kernel \in [Descriptors -> States]
  /\ waiting \in 0..MaxWaiting
  /\ waiting > 0 => sock # None /\ kernel[sock] = "listening"
  /\ reachable \in BOOLEAN /\ calm \in BOOLEAN

Init ==
  /\ type \in {"udp", "tcp", "serial"} /\ server \in BOOLEAN
  /\ sock = None /\ fd = None /\ connected = FALSE /\ pc = "down" /\ caller = "init"
  /\ kernel = [d \in Descriptors |-> "closed"]
  /\ waiting = 0 /\ reachable \in BOOLEAN /\ calm \in BOOLEAN

Free == {d \in Descriptors : kernel[d] = "closed"}

(* _close_socket, for each of ds that is a descriptor                      *)
Closing(ds) == [d \in Descriptors |-> IF d \in ds THEN "closed" ELSE kernel[d]]

Current == IF server THEN fd ELSE sock
-----------------------------------------------------------------------------
(* lv2_osc_stream_init and _lv2_osc_stream_reinit *)

Start ==
  /\ pc = "down"
  /\ sock' = None /\ fd' = None /\ connected' = FALSE
  /\ pc' = "open" /\ caller' = "init"
  /\ UNCHANGED <<type, server, kernel, outside>>

SetupFails ==
  /\ pc \in Setup /\ ~calm
  /\ pc' = "fail"
  /\ UNCHANGED <<type, server, sock, fd, connected, caller, kernel, outside>>

SetupGoesOn(there, state) ==
  /\ pc' = there
  /\ kernel' = [kernel EXCEPT ![sock] = state]
  /\ UNCHANGED <<type, server, sock, fd, connected, caller, outside>>

OpenSocket ==
  /\ pc = "open"
  /\ \E d \in Free : sock' = d /\ kernel' = [kernel EXCEPT ![d] = "open"]
  /\ pc' = "configure"
  /\ UNCHANGED <<type, server, fd, connected, caller, outside>>

Configure ==
  /\ pc = "configure" /\ type # "serial"
  /\ SetupGoesOn("bind", "open")

ConfigureSerial ==
  /\ pc = "configure" /\ type = "serial"
  /\ kernel' = [kernel EXCEPT ![sock] = "established"]
  /\ connected' = TRUE /\ pc' = "poll"
  /\ UNCHANGED <<type, server, sock, fd, caller, outside>>

Bind ==
  /\ pc = "bind"
  /\ SetupGoesOn(IF type = "tcp" THEN "listen" ELSE "poll", "bound")

Listen ==
  /\ pc = "listen" /\ server
  /\ SetupGoesOn("poll", "listening")

(* connect on a non-blocking socket; where to go on if it returns 0 or not *)
Connects(there) ==
  LET returns(zero, state) ==
        /\ kernel' = [kernel EXCEPT ![sock] = state]
        /\ connected' = (connected \/ zero)
        /\ pc' = there[connected']
  IN
  /\ \/ kernel[sock] = "bound" /\ returns(FALSE, "connecting")           \* EINPROGRESS
     \/ kernel[sock] = "bound" /\ reachable /\ returns(TRUE, "established")
     \/ kernel[sock] = "connecting" /\ returns(FALSE, "connecting")      \* EALREADY
     \/ kernel[sock] = "refused" /\ returns(FALSE, "bound")              \* ECONNREFUSED
     \/ kernel[sock] = "completed" /\ returns(TRUE, "established")
     \/ kernel[sock] \in {"established", "over"} /\ returns(FALSE, kernel[sock])   \* EISCONN
  /\ UNCHANGED <<type, server, sock, fd, caller, outside>>

FirstConnect ==
  /\ pc = "listen" /\ ~server
  /\ Connects([result \in BOOLEAN |-> IF caller = "init" THEN "poll" ELSE "connect"])

(* Faulty: sock keeps its value.                                           *)
KeepSocket ==
  /\ pc = "fail"
  /\ kernel' = Closing({sock})
  /\ pc' = IF caller = "init" THEN "deinit" ELSE "connect"
  /\ UNCHANGED <<type, server, sock, fd, connected, caller, outside>>

(* fail:                                                                   *)
CloseSocket ==
  /\ pc = "fail"
  /\ kernel' = Closing({sock}) /\ sock' = None
  /\ pc' = IF caller = "init" THEN "deinit" ELSE "connect"
  /\ UNCHANGED <<type, server, fd, connected, caller, outside>>

(* Faulty: only the client's socket is closed.                             *)
CloseFd ==
  /\ pc \in {"poll", "deinit"}
  /\ kernel' = Closing({fd}) /\ sock' = None /\ fd' = None
  /\ pc' = "down"
  /\ UNCHANGED <<type, server, connected, caller, outside>>

(* lv2_osc_stream_deinit, when setting up failed or main is done           *)
Deinit ==
  /\ pc \in {"poll", "deinit"}
  /\ kernel' = Closing({sock, fd}) /\ sock' = None /\ fd' = None
  /\ waiting' = 0
  /\ pc' = "down"
  /\ UNCHANGED <<type, server, connected, caller, reachable, calm>>
-----------------------------------------------------------------------------
(* lv2_osc_stream_run *)

Accept ==
  /\ pc = "poll" /\ type = "tcp" /\ server /\ ~connected
  /\ waiting > 0
  /\ \E d \in Free : fd' = d /\ kernel' = [kernel EXCEPT ![d] = "established"]
  /\ waiting' = waiting - 1
  /\ connected' = TRUE /\ pc' = "receive"
  /\ UNCHANGED <<type, server, sock, caller, reachable, calm>>

(* accept returns -1, and that is what fd is from then on.                 *)
AcceptNobody ==
  /\ pc = "poll" /\ type = "tcp" /\ server /\ ~connected
  /\ waiting = 0 \/ ~calm
  /\ fd' = None
  /\ UNCHANGED <<type, server, sock, connected, pc, caller, kernel, outside>>

Reinit ==
  /\ pc = "poll" /\ type = "tcp" /\ ~server /\ ~connected
  /\ sock = None
  /\ pc' = "open" /\ caller' = "run"
  /\ UNCHANGED <<type, server, sock, fd, connected, kernel, outside>>

ReConnect ==
  /\ \/ pc = "connect"
     \/ pc = "poll" /\ type = "tcp" /\ ~server /\ ~connected
  /\ sock # None
  /\ Connects([result \in BOOLEAN |-> IF result THEN "receive" ELSE "poll"])

(* EBADF: setting up had failed.                                           *)
ConnectNothing ==
  /\ pc = "connect" /\ sock = None
  /\ pc' = "poll"
  /\ UNCHANGED <<type, server, sock, fd, connected, caller, kernel, outside>>

Receiving ==
  type = "tcp" /\ (pc = "receive" \/ (pc = "poll" /\ connected)) /\ Current # None

ReceiveNothing ==
  /\ Receiving /\ kernel[Current] # "over"
  /\ pc' = "poll"
  /\ UNCHANGED <<type, server, sock, fd, connected, caller, kernel, outside>>

(* Faulty: connected stays.                                                *)
CloseOnly ==
  /\ Receiving /\ kernel[Current] = "over"
  /\ kernel' = Closing({Current})
  /\ fd' = IF server THEN None ELSE fd
  /\ sock' = IF server THEN sock ELSE None
  /\ pc' = "poll"
  /\ UNCHANGED <<type, server, connected, caller, outside>>

(* Faulty: nothing is closed.                                              *)
DisconnectOnly ==
  /\ Receiving /\ kernel[Current] = "over"
  /\ connected' = FALSE /\ pc' = "poll"
  /\ UNCHANGED <<type, server, sock, fd, caller, kernel, outside>>

Disconnect ==
  /\ Receiving /\ kernel[Current] = "over"
  /\ kernel' = Closing({Current})
  /\ fd' = IF server THEN None ELSE fd
  /\ sock' = IF server THEN sock ELSE None
  /\ connected' = FALSE /\ pc' = "poll"
  /\ UNCHANGED <<type, server, caller, outside>>

(* The serial line is not closed, and read again and again.                *)
ReadError ==
  /\ pc = "poll" /\ type = "serial" /\ kernel[sock] = "over"
  /\ connected' = FALSE
  /\ UNCHANGED <<type, server, sock, fd, pc, caller, kernel, outside>>

Run ==
  \/ OpenSocket \/ Configure \/ ConfigureSerial \/ Bind \/ Listen \/ FirstConnect
  \/ CloseSocket
  \/ Accept \/ AcceptNobody \/ Reinit \/ ReConnect \/ ConnectNothing
  \/ ReceiveNothing \/ Disconnect \/ ReadError
-----------------------------------------------------------------------------
(* The system and the other end *)

Becomes(d, state) ==
  kernel' = [kernel EXCEPT ![d] = state] /\ UNCHANGED <<stream, outside>>

Handshake ==
  \E d \in Descriptors :
    /\ kernel[d] = "connecting"
    /\ Becomes(d, IF reachable THEN "completed" ELSE "refused")

PeerLeave ==
  \E d \in Descriptors : kernel[d] = "established" /\ Becomes(d, "over")

ClientConnects ==
  /\ sock # None /\ kernel[sock] = "listening"
  /\ waiting < MaxWaiting
  /\ waiting' = waiting + 1
  /\ UNCHANGED <<stream, kernel, reachable, calm>>

Weather ==
  /\ reachable' \in BOOLEAN /\ calm' \in BOOLEAN
  /\ UNCHANGED <<stream, kernel, waiting>>

Next ==
  \/ Start \/ SetupFails \/ Run \/ Deinit
  \/ Handshake \/ PeerLeave \/ ClientConnects \/ Weather

Spec == Init /\ [][Next]_vars

(* main calls lv2_osc_stream_run again and again, and a handshake comes to *)
(* an end.                                                                 *)
FairSpec == Spec /\ WF_vars(Run) /\ WF_vars(Handshake)
-----------------------------------------------------------------------------
(* Properties *)

(* Whatever fails in whatever order, the descriptors that are open are     *)
(* sock and fd, and they are two: none leaks, none is closed twice or used *)
(* after it was closed.                                                    *)
OwnsDescriptors ==
  /\ {d \in Descriptors : kernel[d] # "closed"} = {sock, fd} \ {None}
  /\ sock = fd => sock = None

(* A stream that believes to be connected has a connection to receive      *)
(* from, if perhaps one that is over.                                      *)
ConnectedIsSo ==
  connected /\ type = "tcp" /\ pc # "down" =>
    Current # None /\ kernel[Current] \in {"established", "over"}

(* The inductive invariant: what the two properties above rest on.         *)
(* Who has which descriptor at which step:                                 *)
Places ==
  /\ \A d \in Descriptors : kernel[d] # "closed" <=> d \in {sock, fd}
  /\ sock = fd => sock = None
  /\ pc \in {"down", "open"} => sock = None
  /\ pc \in {"configure", "bind", "listen"} => sock # None
  /\ fd # None => type = "tcp" /\ server /\ connected /\ pc \in {"poll", "receive"}

(* Only a client's run gets to connect, and only a server's listens.       *)
Roles ==
  /\ pc = "listen" => type = "tcp"
  /\ caller = "run" \/ pc = "connect" => type = "tcp" /\ ~server
  /\ sock # None /\ kernel[sock] = "listening" =>
       type = "tcp" /\ server /\ pc \in {"poll", "receive"}

(* A stream that is being set up is not connected.                         *)
Connections ==
  type = "tcp" /\ connected =>
    /\ pc \in {"down", "poll", "connect", "receive"}
    /\ pc # "down" => Current # None /\ kernel[Current] \in {"established", "over"}

IInv == TypeOK /\ Places /\ Roles /\ Connections

Up == pc \notin {"down", "fail", "deinit"} \/ (caller = "run" /\ pc = "fail")

(* "orderly (re)connect": a client that runs connects, again and again, as *)
(* long as there is a server and no call fails.                            *)
Reconnects ==
  type = "tcp" /\ ~server /\ <>[](Up /\ calm /\ reachable) => []<>connected

Serving == fd # None /\ kernel[fd] = "established"

(* A client that left makes room: those that wait are served at last, by a *)
(* server that runs, if they are not sent away with it.                    *)
ServesNext ==
  <>[](Up /\ calm) => (waiting > 0 ~> Serving \/ waiting = 0)
=============================================================================
