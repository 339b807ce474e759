----------------------------- MODULE PluginPipe -----------------------------
\* What a session and its plugin process share: the process itself and the
\* framed connection of internal/ipc.  Messages are delivered in order; one that
\* was cut short is a "torn" frame.
EXTENDS Integers, Sequences, FiniteSets

CONSTANTS
    Startup,       \* the state sent in Initialize: [config, generation, active]
    PipeCapacity   \* messages the pipe holds before Send blocks

\* A control state, and a control: one part of the state and its new value.
Kind == {"config", "generation", "active"}
ControlState == [config : Nat, generation : Nat, active : BOOLEAN]
ControlRequest == [kind : {"config", "generation"}, value : Nat] \cup [kind : {"active"}, value : BOOLEAN]

ASSUME StartupAssumption == Startup \in ControlState
ASSUME PipeAssumption == PipeCapacity \in Nat \ {0}

VARIABLES
    proc,     \* the child process: alive or exited, and its exit status
    pipe      \* the connection: what is in flight, who has closed it, and
              \* whether a message was ever cut short

PipeInit ==
    /\ proc = [at |-> "none", bad |-> FALSE]
    /\ pipe = [host |-> "none", plugin |-> "none", down |-> <<>>, up |-> <<>>, torn |-> FALSE]

\* Send of one message towards the host, when nobody has closed the connection
\* and it has room.
CanSendUp == pipe.host # "closed" /\ pipe.plugin = "open" /\ Len(pipe.up) < PipeCapacity

SentUp(type, value) == [pipe EXCEPT !.up = Append(@, [type |-> type, value |-> value])]

\* The plugin closes its end: what it has not read is lost.
HungUp == [pipe EXCEPT !.plugin = IF @ = "none" THEN @ ELSE "closed", !.down = <<>>]

\* What follows a write that was cut short: the connection is closed.
TornUp == [HungUp EXCEPT !.up = IF pipe.host = "closed" THEN @ ELSE Append(@, [type |-> "torn", value |-> 0]),
                         !.torn = TRUE]

=============================================================================
