-------------------------------- MODULE Setup --------------------------------
(***************************************************************************)
(* What wlr-remote and its test client make of what the user types: the    *)
(* password, read into a buffer of PSK_BUFFER_SIZE characters, and the     *)
(* port of the command line.                                               *)
(*                                                                         *)
(* Of a line only its length matters, whether a newline ends it, and where *)
(* it holds a NUL character.                                               *)
(***************************************************************************)
EXTENDS Integers, Sequences

CONSTANTS
  MaxKeyLen,     \* DTLS_PSK_MAX_KEY_LEN
  DEFAULT_PORT,
  MaxPort,       \* UINT16_MAX
  Extra          \* bound: how far a line exceeds the longest password

ASSUME SetupAssumption ==
  /\ MaxKeyLen \in Nat \ {0} /\ MaxPort \in Nat /\ Extra \in Nat
  /\ DEFAULT_PORT \in 1 .. MaxPort

\* n characters, then a newline (nl) or the end of the input; the nul-th of
\* them is NUL unless nul is zero.
Line == {l \in [n : 0 .. MaxKeyLen + Extra, nl : BOOLEAN, nul : 0 .. MaxKeyLen + Extra] :
           l.nul <= l.n}

\* Faulty: no room for the newline, which tells a password of the longest
\* length from one that is too long.
PSK_BUFFER_SIZE_no_newline == MaxKeyLen + 1

PSK_BUFFER_SIZE == MaxKeyLen + 2

\* fgets returns NULL at the end of the input, otherwise it has copied this many
\* characters, the newline not counted.
EndOfInput(l) == l.n = 0 /\ ~l.nl
Copied(l) == IF l.n < PSK_BUFFER_SIZE THEN l.n ELSE PSK_BUFFER_SIZE - 1

\* strcspn(psk_key, "\n") also stops at a NUL that was typed.
strcspn(l) == IF l.nul \in 1 .. Copied(l) THEN l.nul - 1 ELSE Copied(l)

\* setup_password exits the process instead of returning a length.
Refused(l) == EndOfInput(l) \/ strcspn(l) \in {0, PSK_BUFFER_SIZE - 1}

\* argv holds the number strtol finds in argv[1] (0 if it finds none), or nothing.
setup_parse_port(argv) ==
  IF argv # <<>> /\ argv[1] \in 1 .. MaxPort THEN argv[1] ELSE DEFAULT_PORT

=============================================================================
