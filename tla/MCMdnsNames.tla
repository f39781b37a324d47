---------------------------- MODULE MCMdnsNames ----------------------------
(***************************************************************************)
(* The names of wlr-remote's own messages, for a host called "desk" and    *)
(* for one whose name ends in a label that is also the mDNS domain.        *)
(***************************************************************************)
EXTENDS MdnsNames

ServiceName == <<"_wlr-remote", "_udp", "local">>
MetaName == <<"_services", "_dns-sd", "_udp", "local">>

Usual == {ServiceName, MetaName, <<"desk">> \o ServiceName, <<"desk", "local">>}

Dotted == {ServiceName, <<"desk", "local">> \o ServiceName,
           <<"desk", "local", "local">>}

\* What the theorem about RoundTrip asks of the names; the other set fails it.
ASSUME UsualNames == Unambiguous(Usual) /\ ~Unambiguous(Dotted)

=============================================================================
