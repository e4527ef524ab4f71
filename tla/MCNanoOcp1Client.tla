-------------------------- MODULE MCNanoOcp1Client --------------------------
(* Instances of NanoOcp1Client for TLC: how often each of the bounded things    *)
(* may happen in one behaviour.                                                 *)
EXTENDS NanoOcp1Client

Only(starts, stops, frames, ends) ==
    [w \in {"start", "stop", "frame", "end"} |->
        CASE w = "start" -> starts
          [] w = "stop" -> stops
          [] w = "frame" -> frames
          [] w = "end" -> ends]

\* A client that is started and stopped once, over two connections.
OneLoss == Only(1, 1, 2, 1)
=============================================================================
