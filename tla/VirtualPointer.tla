--------------------------- MODULE VirtualPointer ---------------------------
(***************************************************************************)
(* What wlr-remote asks of the compositor for one decrypted application    *)
(* record: net_handle_receive decodes it and vp_handle_packet turns it     *)
(* into zwlr_virtual_pointer_v1 requests.  Both are functions of the       *)
(* record, so they are operators here; Server gives them their place in    *)
(* the event loop.                                                         *)
(*                                                                         *)
(* A body is the decrypted record: its length and the four fields of       *)
(* struct mouse_packet, each as the unsigned number its network-order      *)
(* bytes spell.                                                            *)
(***************************************************************************)
EXTENDS Integers, Sequences

CONSTANTS
  Button,      \* BTN_LEFT ... BTN_EXTRA: the codes that are forwarded
  Half,        \* 2^31: an int32_t is a number in -Half .. Half - 1
  FixedScale,  \* 256: a wl_fixed_t has eight fraction bits
  PacketSize,  \* sizeof(struct mouse_packet)
  TestsFixed   \* which of the two builds of the zero test we have; see vp_handle_packet

ASSUME VPAssumption ==
  /\ Button \subseteq Nat \ {0}
  /\ Half \in Nat \ {0}
  /\ FixedScale \in Nat \ {0}
  /\ PacketSize \in Nat
  /\ TestsFixed \in BOOLEAN

int32_t == -Half .. Half - 1

Body == [size: Nat, dx: 0 .. 2 * Half - 1, dy: 0 .. 2 * Half - 1,
         button: Nat, button_state: Nat]

mouse_packet == [dx: int32_t, dy: int32_t, button: Nat, button_state: Nat]

Request ==
       [req: {"button"}, button: Button, state: {0, 1}]
  \cup [req: {"motion"}, dx: Int, dy: Int]
  \cup [req: {"frame"}]

\* The value an int32_t holds after a computation whose result is x.
Wrap(x) == ((x + Half) % (2 * Half)) - Half

\* (int32_t)ntohl(u): the same 32 bits, read as two's complement.
Signed(u) == IF u < Half THEN u ELSE u - 2 * Half

wl_fixed_from_int(i) == Wrap(i * FixedScale)

-----------------------------------------------------------------------------
(***************************************************************************)
(* i * 256 overflows a signed int when i is outside the range of           *)
(* wl_fixed_t.  The product wraps, but since the overflow is undefined the *)
(* compiler may decide dx != 0 on the product (TestsFixed) or on the       *)
(* factor: the constant stands for either build.                           *)
(***************************************************************************)
Moves(p) ==
  IF TestsFixed
  THEN wl_fixed_from_int(p.dx) # 0 \/ wl_fixed_from_int(p.dy) # 0
  ELSE p.dx # 0 \/ p.dy # 0

ButtonRequest(p) ==
  IF p.button = 0 THEN <<>>
  ELSE <<[req |-> "button", button |-> p.button, state |-> p.button_state]>>

MotionRequest(p) ==
  IF Moves(p)
  THEN <<[req |-> "motion", dx |-> wl_fixed_from_int(p.dx),
                            dy |-> wl_fixed_from_int(p.dy)]>>
  ELSE <<>>

\* Faulty: a packet that does not move the pointer ends no frame.
vp_handle_packet_frame_if_moved(p) ==
  IF p.button_state > 1 \/ p.button \notin Button \cup {0}
  THEN <<>>
  ELSE ButtonRequest(p) \o
         (IF Moves(p) THEN MotionRequest(p) \o <<[req |-> "frame"]>> ELSE <<>>)

vp_handle_packet(p) ==
  IF p.button_state > 1 \/ p.button \notin Button \cup {0}
  THEN <<>>
  ELSE ButtonRequest(p) \o MotionRequest(p) \o <<[req |-> "frame"]>>

Decode(b) == [dx |-> Signed(b.dx), dy |-> Signed(b.dy),
              button |-> b.button, button_state |-> b.button_state]

net_handle_receive(b) ==
  IF b.size = PacketSize THEN vp_handle_packet(Decode(b)) ELSE <<>>

-----------------------------------------------------------------------------
(***************************************************************************)
(* A stream of requests is well framed when it is a sequence of complete   *)
(* frames, each of at most one button and then at most one motion: the     *)
(* compositor shows what comes between two frames as one pointer event.    *)
(***************************************************************************)
WellFramed(s) ==
  /\ s # <<>> => s[Len(s)].req = "frame"
  /\ \A i \in 1 .. Len(s) - 1 :
       /\ s[i].req = "button" => s[i + 1].req \in {"motion", "frame"}
       /\ s[i].req = "motion" => s[i + 1].req = "frame"

=============================================================================
