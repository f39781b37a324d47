----------------------------- MODULE MCMdnsRead -----------------------------
(***************************************************************************)
(* Every message of five bytes: a zero, two lengths, "A", "a", and the     *)
(* first byte of a reference.  The query is "a".                           *)
(***************************************************************************)
EXTENDS MdnsRead

MCQuery == [k \in 0 .. 2 |-> <<1, 97, 0>>[k + 1]]

\* As mdns_services_query is.
ASSUME PlainQuery == Plain(MCQuery, 3)

=============================================================================
