--------------------------- MODULE MCRemoteSystem ---------------------------
(***************************************************************************)
(* Small instances of RemoteSystem: "mate" types the password, "typo"      *)
(* another one, nothing, or one character more than tinydtls takes.        *)
(***************************************************************************)
EXTENDS RemoteSystem

Typing(n) == [n |-> n, nl |-> TRUE, nul |-> 0]
NoInput == [n |-> 0, nl |-> FALSE, nul |-> 0]

MCTyped == [c \in Client |->
              IF c = "mate" THEN {Typing(psk_key_len)}
              ELSE {NoInput, Typing(psk_key_len), Typing(MaxKeyLen + 1)}]

MCCred == [c \in Client |->
             [id |-> PSK_ID, key |-> IF c = "mate" THEN psk_key ELSE "other"]]

\* SERVER_IP is 127.0.0.1.
MCFam == [c \in Client |-> "v4"]

MCButton == {1}

\* main's packet: ten to the right and down, no button; scaled.
MCBodies == {[size |-> PacketSize, dx |-> 1, dy |-> 1,
              button |-> 0, button_state |-> 0]}

=============================================================================
