---------------------------- MODULE MCAdvertise ----------------------------
(***************************************************************************)
(* Small instances of Advertise: interfaces with addresses that can and    *)
(* cannot be advertised, and questions of every kind.                      *)
(***************************************************************************)
EXTENDS Advertise

Up == {"UP", "MULTICAST"}

If(addr, family, flags, scope) ==
  [addr |-> addr, family |-> family, flags |-> flags, scope |-> scope]

MCIfAddr == {If("lo4", "v4", Up \cup {"LOOPBACK"}, "local"),
             If("lan4", "v4", Up, "global"),
             If("lan6", "v6", Up, "global"),
             If("link6", "v6", Up, "local")}

MCLan == {If("lan4", "v4", Up, "global"), If("lan6", "v6", Up, "global")}

Ask(name, rtype) == [name |-> name, rtype |-> rtype, class |-> "IN", unicast |-> FALSE]

\* One for each answer, one for which there is none, two that end the datagram.
MCQuestions ==
  {Ask("services", "PTR"), Ask("service", "ANY"), Ask("instance", "SRV"),
   Ask("instance", "TXT"), Ask("host", "ANY"), Ask("host", "AAAA"),
   Ask("broken", "PTR"), [Ask("service", "PTR") EXCEPT !.class = "CH"],
   [Ask("service", "PTR") EXCEPT !.unicast = TRUE]}

=============================================================================
