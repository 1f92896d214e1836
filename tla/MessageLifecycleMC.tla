------------------------- MODULE MessageLifecycleMC -------------------------
(* Every request of a sender on one message: at once, later or already due, with *)
(* and without a timer.                                                          *)
EXTENDS MessageLifecycle

EverySend == [schedule: {"none", "later", "due"}, timer: {"off", "set"}]

=============================================================================
