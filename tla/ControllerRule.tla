---------------------------- MODULE ControllerRule ----------------------------
(***************************************************************************)
(* What the two controllers of controller.c have in common: a stream of    *)
(* commands, service times, a trace, and the rule by which both place a    *)
(* command in time, stated over the trace: a command crosses its channel   *)
(* after every earlier command on it, and a READ_COMPUTE is then read      *)
(* after every earlier READ_COMPUTE of its plane.                          *)
(***************************************************************************)
EXTENDS CommandStream

VARIABLES
  timing,             \* the service times
  times               \* per command: the times recorded for the trace

Channels == {ChannelOf(commands[k]) : k \in DOMAIN commands}
Planes   == {PlaneOf(commands[k]) : k \in DOMAIN commands}

(* The service times, in cycles or in nanoseconds.                         *)
ServiceTimes == [read_compute : Nat \ {0}, read_slice : Nat \ {0}, array : Nat \ {0}]

(* The row of a command in the trace; -1 is a time not recorded.           *)
Unset == [channel_start |-> -1, channel_end |-> -1, array_start |-> -1,
          array_end |-> -1, complete |-> -1]

ChannelTime(c, service) == IF c.opcode = "READ_COMPUTE" THEN service.read_compute
                                                        ELSE service.read_slice

(* When command k starts on its channel and on its plane, given the rows   *)
(* of the stream before it and the time it is issued.                      *)
ChannelStart(stream, trace, k, issue) ==
  Latest({issue} \cup {trace[j].channel_end :
            j \in {j \in 1..k - 1 : ChannelOf(stream[j]) = ChannelOf(stream[k])}})

ArrayStart(stream, trace, k) ==
  Latest({trace[k].channel_end} \cup {trace[j].array_end :
            j \in {j \in 1..k - 1 : /\ stream[j].opcode = "READ_COMPUTE"
                                    /\ PlaneOf(stream[j]) = PlaneOf(stream[k])}})

(* Everything recorded of command k is what the rule says; nothing of a    *)
(* READ_SLICE is recorded on the plane.                                    *)
FollowsRule(stream, service, trace, k, issue) ==
  LET c == stream[k]
      t == trace[k]
      end == IF c.opcode = "READ_COMPUTE" THEN t.array_end ELSE t.channel_end
  IN  /\ t.channel_start # -1 =>
           /\ \A j \in 1..k - 1 : ChannelOf(stream[j]) = ChannelOf(c) =>
                trace[j].channel_end # -1
           /\ t.channel_start = ChannelStart(stream, trace, k, issue)
      /\ t.channel_end # -1 => t.channel_end = t.channel_start + ChannelTime(c, service)
      /\ t.array_start # -1 =>
           /\ c.opcode = "READ_COMPUTE"
           /\ t.array_start = ArrayStart(stream, trace, k)
      /\ t.array_end # -1 => t.array_end = t.array_start + service.array
      /\ t.complete # -1 => t.complete = end /\ end # -1
=============================================================================
