------------------------------ MODULE MCServer ------------------------------
(***************************************************************************)
(* Small instances of Server for TLC: "good" and "mate" know the identity  *)
(* string and the password, "typo" has the password wrong, "stranger" the  *)
(* identity.                                                               *)
(***************************************************************************)
EXTENDS Server

MCCred == [c \in Client |->
             [id  |-> IF c = "stranger" THEN "other-app" ELSE "wlr-remote",
              key |-> IF c = "typo" THEN "passwrod" ELSE "password"]]

MCFam == [c \in Client |-> IF c \in {"good", "stranger"} THEN "v4" ELSE "v6"]

\* BTN_LEFT and BTN_RIGHT stand for the five codes.
MCButton == {1, 2}

Packet(dx, dy, button, state) ==
  [size |-> PacketSize, dx |-> dx, dy |-> dy,
   button |-> button, button_state |-> state]

\* A press with a motion to the left, a press whose motion overflows to zero,
\* and a motion with a button state that is refused.
MCBodies == {Packet(2 * Half - 1, 0, 1, 1), Packet(Half \div 2, 0, 2, 1),
             Packet(1, 0, 1, 2)}

\* What a peers run needs of contents.
MCOneBody == {Packet(1, 0, 1, 1)}

=============================================================================
