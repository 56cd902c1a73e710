------------------------------- MODULE Tunnel -------------------------------
(***************************************************************************)
(* What the daemon relies on of one worker: the abstract life of runWorker *)
(* that the worker actions of module Daemon are written from.  Module      *)
(* Session implements it step by step.                                     *)
(***************************************************************************)

VARIABLES
  phase,      \* conn, up: inside ConnectAndTunnel; back: reconnect delay; done
  cancelled,  \* CancelFunc was called
  status      \* WorkerInfo.Status

tvars == <<phase, cancelled, status>>

TInit == phase = "conn" /\ cancelled = FALSE /\ status = "offline"

Cancel == cancelled' = TRUE /\ UNCHANGED <<phase, status>>

\* Every declaration was accepted: only now does the worker show online.
Establish ==
  /\ phase = "conn"
  /\ phase' = "up" /\ status' = "online"
  /\ UNCHANGED cancelled

\* ConnectAndTunnel is over; the worker ends only when it was cancelled.
Return ==
  /\ phase \in {"conn", "up"}
  /\ phase' = IF cancelled THEN "done" ELSE "back"
  /\ status' = "offline"
  /\ UNCHANGED cancelled

Retry == phase = "back" /\ phase' = "conn" /\ UNCHANGED <<cancelled, status>>

Quit == phase = "back" /\ cancelled /\ phase' = "done" /\ UNCHANGED <<cancelled, status>>

TNext == Cancel \/ Establish \/ Return \/ Retry \/ Quit

TSpec == TInit /\ [][TNext]_tvars
=============================================================================
