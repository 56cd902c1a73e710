---------------------------- MODULE MCSingleton ----------------------------
(* Instances of Singleton.  Overlapping processes reach far more states, so  *)
(* they get fewer processes, commands and crashes.                           *)
EXTENDS Singleton

MCLimits ==
  [o \in BOOLEAN |-> IF o THEN [procs |-> 2, commands |-> 2, crashes |-> 1]
                     ELSE [procs |-> 3, commands |-> 3, crashes |-> 2]]
=============================================================================
