--------------------------- MODULE SessionContract ---------------------------
\* What the supervisor may rely on: the pluginSession interface of session.go
\* and the no-missed-update rule of the plugin design.  A control that was
\* answered with success is in force at the plugin's end of the pipe, each
\* change is handed over once and while its caller waits, a stopped session
\* takes no new control, and nothing is handed over once it has ended.
EXTENDS Integers

CONSTANTS Call, Request, Startup

VARIABLES
    stage,  \* "open", "stopping" or "ended"
    call,   \* per call: idle, waiting, told, ok or refused
    told    \* the state that was handed over

contractVars == <<stage, call, told>>

Rises(state, r) ==
    IF r.kind = "active" THEN r.value # state.active ELSE r.value > state[r.kind]

InForce(state, r) == state[r.kind] = r.value

ContractInit == stage = "open" /\ call = [c \in Call |-> "idle"] /\ told = Startup

Ask(c) ==
    /\ call[c] = "idle"
    /\ \E at \in {"refused"} \cup (IF stage = "open" THEN {"waiting"} ELSE {}) :
          call' = [call EXCEPT ![c] = at]
    /\ UNCHANGED <<stage, told>>

\* The change of one waiting call is handed over.
Tell(c) ==
    /\ call[c] = "waiting" /\ stage # "ended"
    /\ Rises(told, Request[c])
    /\ told' = [told EXCEPT ![Request[c].kind] = Request[c].value]
    /\ \E at \in {"told", "ok"} : call' = [call EXCEPT ![c] = at]
    /\ UNCHANGED stage

\* A repetition is found to be in force already.
Repeat(c) ==
    /\ call[c] = "waiting" /\ InForce(told, Request[c])
    /\ \E at \in {"told", "ok"} : call' = [call EXCEPT ![c] = at]
    /\ UNCHANGED <<stage, told>>

Confirm(c) ==
    /\ call[c] = "told"
    /\ call' = [call EXCEPT ![c] = "ok"]
    /\ UNCHANGED <<stage, told>>

\* Refusals promise nothing; several calls may be refused in one step, and the
\* session may end with it.
Refused(cs) == [c \in Call |-> IF c \in cs THEN "refused" ELSE call[c]]

Waiting == {c \in Call : call[c] \in {"waiting", "told"}}

Refuse ==
    /\ \E cs \in SUBSET Waiting, c \in Waiting :
          call' = [d \in Call |-> IF d = c /\ call[c] = "told" /\ c \notin cs
                                  THEN "ok" ELSE Refused(cs)[d]]
    /\ UNCHANGED <<stage, told>>

End ==
    /\ stage # "ended" /\ stage' = "ended"
    /\ \E cs \in SUBSET Waiting, oks \in SUBSET {c \in Waiting : call[c] = "told"} :
          call' = [d \in Call |-> IF d \in oks \ cs THEN "ok" ELSE Refused(cs)[d]]
    /\ UNCHANGED told

StopAsked ==
    /\ stage = "open" /\ stage' = "stopping"
    /\ UNCHANGED <<call, told>>

ContractNext ==
    \/ \E c \in Call : Tell(c) \/ Repeat(c) \/ Confirm(c) \/ Ask(c)
    \/ Refuse \/ End \/ StopAsked

ContractSpec == ContractInit /\ [][ContractNext]_contractVars

=============================================================================
