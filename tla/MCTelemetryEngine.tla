------------------------- MODULE MCTelemetryEngine -------------------------
(* TelemetryEngine for TLC: a message that gives two of its readings the    *)
(* same id, one that is not valid, and the first one sent again with the    *)
(* value of one reading corrected, one reading as it was, and the shared id *)
(* on a third reading.                                                      *)
EXTENDS TelemetryEngine

Reading(name, value, id) == [name |-> name, value |-> value, id |-> id]

Message(valid, device, message, time, readings) ==
  [valid |-> valid, device |-> device, simulated |-> valid, message |-> message,
   time |-> time, readings |-> readings]

CONSTANT d1

MCLog ==
  <<Message(TRUE, d1, "m1", 1,
            <<Reading("power", 1, NoReadingId), Reading("frequency", 50, NoReadingId),
              Reading("energy", 1, "x"), Reading("voltage", 230, "x")>>),
    Message(FALSE, d1, NoMessageId, 1, <<>>),
    Message(TRUE, d1, "m1", 1,
            <<Reading("power", 2, NoReadingId), Reading("frequency", 50, NoReadingId),
              Reading("current", 3, "x")>>)>>
=============================================================================
