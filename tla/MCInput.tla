------------------------------ MODULE MCInput ------------------------------
(* A keyboard and a mouse with two buffers each, and queues small enough   *)
(* for both to overflow.                                                   *)
EXTENDS Input

Sent(code, value) == [type |-> "KEY", code |-> code, value |-> value]

MCKeyEvent ==
  {Sent("KEY_SHIFT", 1), Sent("KEY_SHIFT", 0), Sent("KEY_A", 1), Sent("KEY_UP", 1),
   Sent("KEY_BACKSPACE", 1)}

MCPayload == MCKeyEvent \cup {Move}

MCConsole == {"CR"}
=============================================================================
