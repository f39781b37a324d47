----------------------------- MODULE TestClient -----------------------------
(***************************************************************************)
(* The test client: a password, a handshake that is given up after five    *)
(* seconds of silence, ITERATIONS packets, and the way out.  What it hands *)
(* to sendto is in put; RemoteSystem is the network and the server.        *)
(*                                                                         *)
(* tinydtls is not part of the repository: of the client's side of it the  *)
(* model has what the callbacks and main rely on.                          *)
(***************************************************************************)
EXTENDS Setup

CONSTANT ITERATIONS \* the packets it sends

VARIABLES
  at,           \* where main is
  line,         \* the line typed as password
  fd,           \* its socket: "none", "open", "closed"
  peer,         \* tinydtls: "none", "hello", "key", "connected"
  session,      \* which of the server's sessions it is in, 0 for none
  is_connected,
  i,            \* the packets written
  put           \* what the last step sent: "hello", "key", "data", "close",
                \* or "failed" if sendto did not take it

tcvars == <<at, line, fd, peer, session, is_connected, i, put>>

TCInit ==
  /\ at = "password" /\ line = <<>> /\ fd = "none"
  /\ peer = "none" /\ session = 0 /\ is_connected = FALSE
  /\ i = 0 /\ put = {}

\* fgets and strcspn; unlike setup_password main tests for neither limit.
ReadPassword(l) ==
  /\ at = "password"
  /\ line' = l
  /\ at' = IF EndOfInput(l) THEN "exited" ELSE "socket"
  /\ put' = {}
  /\ UNCHANGED <<fd, peer, session, is_connected, i>>

\* getaddrinfo or socket fails; then dtls_new_context, after which the socket
\* is closed.
OpenFails ==
  /\ at = "socket"
  /\ at' = "exited"
  /\ fd' \in {"none", "closed"}
  /\ put' = {}
  /\ UNCHANGED <<line, peer, session, is_connected, i>>

Open ==
  /\ at = "socket"
  /\ at' = "connect"
  /\ fd' = "open"
  /\ put' = {}
  /\ UNCHANGED <<line, peer, session, is_connected, i>>

\* dtls_connect: the hello is sent, or the call fails.
Connect ==
  /\ at = "connect"
  /\ \/ at' = "handshake" /\ peer' = "hello" /\ put' = {"hello"}
     \/ at' = "cleanup" /\ UNCHANGED peer /\ put' = {"failed"}
  /\ UNCHANGED <<line, fd, session, is_connected, i>>

\* select reports the socket, and dtls_handle_message gets the message; its
\* result is ignored, and so is a send that fails.
Waits == at = "handshake" /\ ~is_connected

\* net_get_psk_info: tinydtls has room for MaxKeyLen.
KeyFits == strcspn(line) <= MaxKeyLen

\* Faulty: the beginning of a handshake (DTLS_EVENT_CONNECT) counts as well.
HandleFlightConnects ==
  /\ Waits /\ peer = "hello" /\ KeyFits
  /\ peer' = "key"
  /\ is_connected' = TRUE
  /\ put' \in {{"key"}, {"failed"}}
  /\ UNCHANGED <<at, line, fd, session, i>>

\* The server's flight is answered with the key exchange.
HandleFlight ==
  /\ Waits /\ peer = "hello" /\ KeyFits
  /\ peer' = "key"
  /\ put' \in {{"key"}, {"failed"}}
  /\ UNCHANGED <<at, line, fd, session, is_connected, i>>

\* The server's Finished: DTLS_EVENT_CONNECTED.
HandleFinished(ep) ==
  /\ Waits /\ peer = "key"
  /\ peer' = "connected" /\ session' = ep
  /\ is_connected' = TRUE
  /\ put' = {}
  /\ UNCHANGED <<at, line, fd, i>>

\* The alert is printed, and main goes on waiting for a peer that is gone.
HandleAlert ==
  /\ Waits
  /\ peer' = "none"
  /\ put' = {}
  /\ UNCHANGED <<at, line, fd, session, is_connected, i>>

\* The key does not fit (INTERNAL_ERROR), or the message is out of place.
HandleOther(m) ==
  /\ Waits
  /\ \/ m = "flight" /\ ~(peer = "hello" /\ KeyFits)
     \/ m = "finished" /\ peer # "key"
  /\ put' = {}
  /\ peer' \in IF m = "flight" /\ peer = "hello" THEN {"hello", "none"} ELSE {peer}
  /\ UNCHANGED <<at, line, fd, session, is_connected, i>>

\* Faulty: the error is printed and the loop goes on.
HandshakeTimeoutContinues ==
  /\ Waits
  /\ put' = {}
  /\ UNCHANGED <<at, line, fd, peer, session, is_connected, i>>

\* Nothing came for five seconds, or select failed.
HandshakeTimeout ==
  /\ Waits
  /\ at' = "cleanup"
  /\ put' = {}
  /\ UNCHANGED <<line, fd, peer, session, is_connected, i>>

Connected ==
  /\ at = "handshake" /\ is_connected
  /\ at' = "write"
  /\ put' = {}
  /\ UNCHANGED <<line, fd, peer, session, is_connected, i>>

\* dtls_write; a failure is printed and the next packet is tried.  The socket
\* is no longer read.
Write ==
  /\ at = "write"
  /\ IF i < ITERATIONS
     THEN i' = i + 1 /\ put' \in {{"data"}, {"failed"}} /\ UNCHANGED at
     ELSE at' = "cleanup" /\ put' = {} /\ UNCHANGED i
  /\ UNCHANGED <<line, fd, peer, session, is_connected>>

\* Faulty: the context is not freed.
CleanupSilently ==
  /\ at = "cleanup"
  /\ at' = "exited"
  /\ peer' = "none" /\ fd' = "closed"
  /\ put' = {}
  /\ UNCHANGED <<line, session, is_connected, i>>

\* dtls_free_context closes the session, then the socket is closed.
Cleanup ==
  /\ at = "cleanup"
  /\ at' = "exited"
  /\ peer' = "none" /\ fd' = "closed"
  /\ put' \in IF peer = "connected" THEN {{"close"}, {"failed"}} ELSE {{}}
  /\ UNCHANGED <<line, session, is_connected, i>>

\* What needs no message.
TCStep == OpenFails \/ Open \/ Connect \/ HandshakeTimeout \/ Connected
            \/ Write \/ Cleanup

\* main's exit status.
ClientSuccess == at = "exited" /\ is_connected

=============================================================================
