---------------------------- MODULE RemotePointer ----------------------------
(***************************************************************************)
(* What wlr-remote promises: the compositor receives the requests of mouse *)
(* packets that paired clients sent, each packet at most once and with all *)
(* its requests together, in no promised order and with no promise that a  *)
(* packet arrives.  Datagrams, handshakes, sockets, the event loop and its *)
(* shutdown are details that Server adds.                                  *)
(***************************************************************************)
EXTENDS Integers, Sequences, VirtualPointer

CONSTANTS
  Client,  \* the peers that may talk to the server
  Paired   \* those that know the server's identity string and password

\* A record as its sender protects it: the session (ep) and record number (n)
\* tell apart two records with the same content.
Record == [kind: {"data", "close"}, from: Client, ep: Nat, n: Nat, body: Body]

VARIABLES
  sent,    \* the records clients have protected and sent
  applied, \* the records the server has acted on
  stream   \* every request made of the virtual pointer, in order

rpvars == <<sent, applied, stream>>

\* The requests a record asks for; a close alert asks for none.
Effect(r) == IF r.kind = "data" THEN net_handle_receive(r.body) ELSE <<>>

Init == sent = {} /\ applied = {} /\ stream = <<>>

Send == \E r \in sent' \ sent :
          /\ r \in Record
          /\ r.from \in Paired
          /\ sent' = sent \cup {r}
          /\ UNCHANGED <<applied, stream>>

Apply == \E r \in sent \ applied :
           /\ applied' = applied \cup {r}
           /\ stream' = stream \o Effect(r)
           /\ UNCHANGED sent

Next == Send \/ Apply

Spec == Init /\ [][Next]_rpvars

=============================================================================
