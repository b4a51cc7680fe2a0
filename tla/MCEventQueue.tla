---------------------------- MODULE MCEventQueue ----------------------------
(* Small instances of EventQueue: two polling threads, buffers shorter and *)
(* longer than the records.                                                *)
EXTENDS EventQueue
=============================================================================
