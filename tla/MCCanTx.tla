------------------------------ MODULE MCCanTx ------------------------------
(* Commands of all frame counts that change something: start and stop (3), *)
(* a heartbeat (4), a configuration (5).                                   *)
EXTENDS CanTx

Command(order, codel, data) == [order |-> order, codel |-> codel, data |-> data]

Start     == Command("RCONTROL", "START", "rc")
Stop      == Command("RCONTROL", "STOP", "rc")
Heartbeat == Command("SEEKSTAT", "none", "standby")
Config    == Command("CONFIG", "none", "values")

MCCanCmds    == {Start, Heartbeat, Config}
MCScreenCmds == {Stop}
=============================================================================
