--------------------------- MODULE CommandService ---------------------------
(***************************************************************************)
(* What the firmware promises to the club's server about its commands: a   *)
(* command the device has accepted is executed, one at a time, in the      *)
(* order of acceptance; only a reboot makes it forget accepted commands.   *)
(* CommandPipeline implements this specification with a queue and a task.  *)
(***************************************************************************)
EXTENDS Naturals, Sequences

CONSTANTS Commands,  \* the commands the server may send
          Capacity   \* how many commands the device can hold, the one in hand included

VARIABLES accepted,  \* accepted and not yet executed, oldest first
          executed   \* executed so far, oldest first

vars == <<accepted, executed>>

Init == accepted = << >> /\ executed = << >>

Accept(c) ==
  /\ Len(accepted) < Capacity
  /\ accepted' = Append(accepted, c)
  /\ UNCHANGED executed

Execute ==
  /\ accepted # << >>
  /\ executed' = Append(executed, Head(accepted))
  /\ accepted' = Tail(accepted)

Reboot ==
  /\ accepted' = << >>
  /\ UNCHANGED executed

Next == (\E c \in Commands : Accept(c)) \/ Execute \/ Reboot

SafeSpec == Init /\ [][Next]_vars
Spec == SafeSpec /\ WF_vars(Execute)
=============================================================================
