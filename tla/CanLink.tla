------------------------------ MODULE CanLink ------------------------------
(***************************************************************************)
(* What the CAN transmission of can.c promises, without its buffer and its *)
(* frames: calls of can2_data_packet + Can2Send_MultiMessages begin and    *)
(* end, and in between the PTC may take a message.  A message is a mixture *)
(* of the commands of one busy period (a period in which some call is      *)
(* always under way): in a period with a single command it is exactly      *)
(* that command.                                                           *)
(***************************************************************************)
CONSTANTS
  Tasks,   \* the tasks that transmit
  Cmds,    \* the commands
  Image,   \* Image[c][x]: what a message of command c holds at position x
  Idle,    \* no call
  Nothing  \* the PTC has not taken any message

VARIABLES
  call,    \* the command each task is transmitting
  mix,     \* the commands of the present busy period
  told     \* the message the PTC has taken last in this period

IsMixture(m, S) == \A x \in DOMAIN m : \E c \in S : m[x] = Image[c][x]

Init ==
  /\ call = [t \in Tasks |-> Idle]
  /\ mix = {}
  /\ told = Nothing

Begin(t, c) ==
  /\ call[t] = Idle
  /\ call' = [call EXCEPT ![t] = c]
  /\ mix' = mix \cup {c}
  /\ UNCHANGED told

End(t) ==
  /\ call[t] # Idle
  /\ call' = [call EXCEPT ![t] = Idle]
  /\ IF \A u \in Tasks \ {t} : call[u] = Idle
     THEN mix' = {} /\ told' = Nothing
     ELSE UNCHANGED <<mix, told>>

Take ==
  /\ mix # {}
  /\ told' # Nothing
  /\ IsMixture(told', mix)
  /\ UNCHANGED <<call, mix>>

Next ==
  \/ \E t \in Tasks, c \in Cmds : Begin(t, c)
  \/ \E t \in Tasks : End(t)
  \/ Take

Spec == Init /\ [][Next]_<<call, mix, told>>
=============================================================================
