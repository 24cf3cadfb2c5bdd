---------------------------- MODULE PlayerInput ----------------------------
(***************************************************************************)
(* From the keys and the mouse of a client to the avatar on the server:    *)
(* window.c of lib/gfx, input/input.c of the client, player/manager.c and  *)
(* player/player.c of the server, and the base mod, which reads the input  *)
(* once a frame.  A message is sent only when something has changed.       *)
(*                                                                         *)
(* Keys and buttons are two sets of inputs, those that are down; the mouse *)
(* moves on a line.  Both processes run on their own; messages arrive in   *)
(* order (Libnet).                                                         *)
(*                                                                         *)
(* A definition X_Y is X with a bug; it is used nowhere.                   *)
(***************************************************************************)
EXTENDS Integers, Sequences

CONSTANTS
  Key, Button,
  Mouse,      \* positions of the mouse
  MaxOnTheWay \* bound: input messages on the way

VARIABLES
  keys_down, buttons_down, \* input_states
  mouse_position,
  base,          \* history: the first known position, that motion counts from
  state_keys, state_buttons, \* the client's state
  on_the_way,    \* input messages not handled
  keys, buttons, \* of the player on the server
  mouse_motion,  \* of the player: not yet read
  panned,        \* history: the sum of what the avatar was turned by
  known          \* history: an input message has been sent

inputVars == <<keys_down, buttons_down, mouse_position, base, state_keys, state_buttons,
               on_the_way, keys, buttons, mouse_motion, panned, known>>

NotKnown == -1000  \* mouse_position_initialized is not set

ASSUME InputAssumption == Mouse \subseteq Int \ {NotKnown} /\ MaxOnTheWay \in Nat

\* malloc leaves the buttons of a new player as they are, its keys and motion
\* are cleared.
InputInit ==
  /\ keys_down = {} /\ buttons_down = {} /\ mouse_position = NotKnown /\ base = 0
  /\ state_keys = {} /\ state_buttons = {} /\ on_the_way = <<>>
  /\ keys = {} /\ buttons \in SUBSET Button /\ mouse_motion = 0
  /\ panned = 0 /\ known = FALSE

Changed_Keys(k, b, motion) == k # state_keys \/ motion # 0
Changed(k, b, motion) == k # state_keys \/ b # state_buttons \/ motion # 0

\* A frame of the client: window_update takes what happened to keys and mouse
\* since the last one, input_update sends it.
ClientFrame ==
  \E k \in SUBSET Key, b \in SUBSET Button, m \in Mouse :
    LET motion == IF mouse_position = NotKnown THEN 0 ELSE m - mouse_position
    IN  /\ Len(on_the_way) < MaxOnTheWay
        /\ keys_down' = k /\ buttons_down' = b /\ mouse_position' = m
        /\ base' = IF mouse_position = NotKnown THEN m ELSE base
        /\ state_keys' = k /\ state_buttons' = b
        /\ IF Changed(k, b, motion)
           THEN /\ on_the_way' = Append(on_the_way, [keys |-> k, buttons |-> b, motion |-> motion])
                /\ known' = TRUE
           ELSE UNCHANGED <<on_the_way, known>>
        /\ UNCHANGED <<keys, buttons, mouse_motion, panned>>

\* voxy_player_manager_on_message_received.
Accumulated_Last(motion) == motion
Accumulated(motion) == mouse_motion + motion

OnInput ==
  LET m == on_the_way[1]
  IN  /\ on_the_way # <<>>
      /\ keys' = m.keys /\ buttons' = m.buttons
      /\ mouse_motion' = Accumulated(m.motion)
      /\ on_the_way' = Tail(on_the_way)
      /\ UNCHANGED <<keys_down, buttons_down, mouse_position, base, state_keys,
                     state_buttons, panned, known>>

\* player_entity_update turns the avatar: voxy_player_get_pan_input.
TurnAvatar ==
  /\ panned' = panned + mouse_motion
  /\ mouse_motion' = 0
  /\ UNCHANGED <<keys_down, buttons_down, mouse_position, base, state_keys,
                 state_buttons, on_the_way, keys, buttons, known>>

InputNext == ClientFrame \/ OnInput \/ TurnAvatar

InputSpec == InputInit /\ [][InputNext]_inputVars
-----------------------------------------------------------------------------
MotionIn[n \in 0 .. MaxOnTheWay] ==
  IF n = 0 THEN 0 ELSE MotionIn[n - 1] + on_the_way[n].motion

Newest == on_the_way[Len(on_the_way)]

\* Once what is on the way is handled the player on the server presses exactly
\* the keys and buttons that are down, although only changes are sent (buttons
\* from the first message on: before, they are what malloc left); and however
\* many messages come between two frames of the server, and frames between two
\* messages, the avatar has turned or will turn by all the mouse has moved.
InputFollows ==
  /\ (IF on_the_way = <<>> THEN keys ELSE Newest.keys) = keys_down
  /\ known => (IF on_the_way = <<>> THEN buttons ELSE Newest.buttons) = buttons_down
  /\ mouse_position # NotKnown =>
       panned + mouse_motion + MotionIn[Len(on_the_way)] = mouse_position - base
=============================================================================
