---------------------------- MODULE MCChatThread ----------------------------
(* Small instances of ChatThread. *)
EXTENDS ChatThread

B(typ, ev, flt, n, ks) ==
    [typed |-> typ, events |-> ev, faults |-> flt, acts |-> n, kinds |-> ks]

\* A stream under a fault and an act of its reader; a queue whose first run is
\* stopped; a queue behind another tab's run; a queue under a fault; three
\* messages, so that one is typed while another waits.
MCBounds == {B(1, 2, 1, 1, {"stop", "answer", "context"}), B(2, 1, 0, 1, {"stop"}),
             B(2, 1, 0, 1, {"remove", "other"}), B(2, 1, 1, 0, {}), B(3, 1, 0, 0, {})}

\* A stop and two messages after it: the run of the second inherits the first
\* one's turn.cancelled, and the queue sends the third into the busy slot.
BusySlotBounds == {B(3, 1, 0, 1, {"stop"})}

\* One message, one restart.
SilentBounds == {B(1, 1, 1, 0, {})}
=============================================================================
