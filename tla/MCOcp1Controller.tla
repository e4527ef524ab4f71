--------------------------- MODULE MCOcp1Controller ---------------------------
(* Instances of Ocp1Controller for TLC: how often each of the bounded things    *)
(* may happen in one behaviour.                                                 *)
EXTENDS Ocp1Controller

Only(connects, disconnects, losses, ticks, values) ==
    [w \in {"connect", "disconnect", "loss", "tick", "set"} |->
        CASE w = "connect" -> connects
          [] w = "disconnect" -> disconnects
          [] w = "loss" -> losses
          [] w = "tick" -> ticks
          [] w = "set" -> values]

\* Without the retry; the application connects again after its disconnect().
Sessions == Only(2, 1, 1, 0, 0)

\* One of each.
Everything == Only(1, 1, 1, 1, 1)

\* A session that nothing interrupts but the retry.
OneTick == Only(1, 0, 0, 1, 0)
=============================================================================
