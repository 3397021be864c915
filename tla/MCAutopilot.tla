----------------------------- MODULE MCAutopilot -----------------------------
(* Autopilot with two tasks: a plan of both, of the second alone, and with the *)
(* first checked off.                                                          *)
EXTENDS Autopilot

CONSTANTS a, b

ToDo(t) == [text |-> t, checked |-> FALSE]
Off(t) == [text |-> t, checked |-> TRUE]

MCFirst == <<ToDo(a), ToDo(b)>>
MCPlans == {MCFirst, <<ToDo(b)>>, <<Off(a), ToDo(b)>>}
=============================================================================
