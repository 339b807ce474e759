----------------------------- MODULE Application -----------------------------
\* The lifecycle of the application: Start, which brings up the plugin manager,
\* the coordinator and OSC in this order and rolls back, and Close, which any
\* number of callers make, also while Start runs.
\*
\* The plugin manager, the coordinator and OSC are modules of their own.  Here
\* each is up, on its way down, or down.
EXTENDS Naturals

CONSTANT Closer    \* the callers of Close

ASSUME CloserAssumption == Closer # {}

VARIABLES
    app,     \* the fields of Application, and whether its parts run
    start,   \* the caller of Start, and whether its context has ended
    close    \* the callers of Close

appVars == <<app, start, close>>

Statuses == {"created", "starting", "running", "degraded", "closing", "closed"}

NewApp ==
    [life |-> "created", token |-> TRUE, run |-> "none", manager |-> "new", managerClosed |-> FALSE, coordinator |-> "new",
     coordinatorStarted |-> FALSE, osc |-> "new", oscClosed |-> FALSE, status |-> "created", closeErr |-> FALSE]

AppInit ==
    /\ app = NewApp
    /\ start = [at |-> "idle", ok |-> FALSE, ended |-> FALSE, gaveUp |-> FALSE]
    /\ close = [k \in Closer |-> [at |-> "idle", err |-> FALSE, expired |-> FALSE]]

\* The run context derives from the context of Start.
RunEnded == app.run = "ended" \/ start.ended
CloseRequested == app.life \in {"closing", "closed"}

(***************************************************************************)
(* Start.                                                                  *)
(***************************************************************************)

CallStart ==
    /\ start.at = "idle"
    /\ start' = [start EXCEPT !.at = "acquire"]
    /\ UNCHANGED <<app, close>>

StartReturns(ok) == start' = [start EXCEPT !.at = "done", !.ok = ok]

AcquireStart ==
    /\ start.at = "acquire"
    /\ \/ start.ended /\ StartReturns(FALSE) /\ UNCHANGED app
       \/ /\ app.token
          /\ IF app.life # "created" THEN StartReturns(FALSE) /\ UNCHANGED app
             ELSE /\ start' = [start EXCEPT !.at = "plugins"]
                  /\ app' = [app EXCEPT !.token = FALSE, !.life = "starting", !.status = "starting", !.run = "live"]
    /\ UNCHANGED close

\* Faulty variant: every failure is left to Close.
FailWithoutRollback(after) == "fail"

\* A pending Close cleans up after Start; otherwise Start rolls back.
FinishStartFailure(after) == IF CloseRequested THEN "fail" ELSE after

StartPlugins ==
    /\ start.at = "plugins"
    /\ \/ start' = [start EXCEPT !.at = "coordinator"] /\ app' = [app EXCEPT !.manager = "up"]
       \/ /\ start' = [start EXCEPT !.at = "fail"]
          /\ app' = [app EXCEPT !.manager = "failed", !.run = IF CloseRequested THEN @ ELSE "ended"]
    /\ UNCHANGED close

StartCoordinator ==
    /\ start.at = "coordinator"
    /\ IF RunEnded THEN start' = [start EXCEPT !.at = FinishStartFailure("rollback")] /\ UNCHANGED app
       ELSE /\ start' = [start EXCEPT !.at = "ready"]
            /\ app' = [app EXCEPT !.coordinator = "up", !.coordinatorStarted = TRUE]
    /\ UNCHANGED close

\* The coordinator is ready at once, and told of the plugins.
AwaitReady ==
    /\ start.at = "ready"
    /\ start' = [start EXCEPT !.at = IF RunEnded THEN FinishStartFailure("rollback") ELSE IF CloseRequested THEN "fail" ELSE "osc"]
    /\ UNCHANGED <<app, close>>

StartOSC ==
    /\ start.at = "osc"
    /\ \/ start' = [start EXCEPT !.at = "end"] /\ app' = [app EXCEPT !.osc = "up"]
       \/ start' = [start EXCEPT !.at = FinishStartFailure("rollback")] /\ UNCHANGED app
    /\ UNCHANGED close

StartEnds ==
    /\ start.at = "end"
    /\ IF app.life = "starting"
       THEN StartReturns(TRUE) /\ app' = [app EXCEPT !.life = "running", !.status = "running", !.token = TRUE]
       ELSE StartReturns(FALSE) /\ app' = [app EXCEPT !.token = TRUE]
    /\ UNCHANGED close

Rollback ==
    /\ start.at = "rollback"
    /\ app' = [app EXCEPT !.run = "ended"]
    /\ start' = [start EXCEPT !.at = IF app.coordinatorStarted THEN "join" ELSE "unplug"]
    /\ UNCHANGED close

\* The cleanup may run out of time.
RollbackJoins ==
    /\ start.at = "join"
    /\ \/ app.coordinator = "down" /\ app' = [app EXCEPT !.coordinatorStarted = FALSE]
          /\ start' = [start EXCEPT !.at = "unplug"]
       \/ start' = [start EXCEPT !.at = "unplug", !.gaveUp = TRUE] /\ UNCHANGED app
    /\ UNCHANGED close

\* A manager that does not close in time goes on closing.
RollbackPlugins ==
    /\ start.at = "unplug"
    /\ \/ /\ app' = [app EXCEPT !.manager = "down", !.managerClosed = TRUE]
          /\ start' = [start EXCEPT !.at = "fail"]
       \/ /\ app' = [app EXCEPT !.manager = "closing"]
          /\ start' = [start EXCEPT !.at = "fail", !.gaveUp = TRUE]
    /\ UNCHANGED close

FailStart ==
    /\ start.at = "fail"
    /\ StartReturns(FALSE)
    /\ app' = [app EXCEPT !.token = TRUE, !.life = IF @ = "starting" THEN "failed" ELSE @,
                          !.status = IF app.life = "starting" THEN "degraded" ELSE @]
    /\ UNCHANGED close

(***************************************************************************)
(* Close.                                                                  *)
(***************************************************************************)

CallClose(k) ==
    /\ close[k].at = "idle"
    /\ IF app.life = "closed"
       THEN close' = [close EXCEPT ![k].at = "done", ![k].err = app.closeErr] /\ UNCHANGED app
       ELSE /\ close' = [close EXCEPT ![k].at = "acquire"]
            /\ app' = [app EXCEPT !.life = "closing", !.status = "closing"]
    /\ UNCHANGED start

\* The context of the call ends while the call waits.
Expire(k) ==
    /\ ~close[k].expired
    /\ \/ close[k].at = "acquire" /\ ~app.token
       \/ close[k].at = "join" /\ app.coordinator = "up"
       \/ close[k].at = "unplug" /\ ~app.managerClosed
    /\ close' = [close EXCEPT ![k].expired = TRUE]
    /\ UNCHANGED <<app, start>>

AcquireClose(k) ==
    /\ close[k].at = "acquire"
    /\ \/ close[k].expired /\ close' = [close EXCEPT ![k].at = "done", ![k].err = TRUE] /\ UNCHANGED app
       \/ /\ app.token
          /\ IF app.life = "closed"
             THEN close' = [close EXCEPT ![k].at = "done", ![k].err = app.closeErr] /\ UNCHANGED app
             ELSE close' = [close EXCEPT ![k].at = "osc"] /\ app' = [app EXCEPT !.token = FALSE]
    /\ UNCHANGED start

\* OSC ends first, then the run context.
CloseOSC(k) ==
    /\ close[k].at = "osc"
    /\ app' = [app EXCEPT !.osc = "down", !.oscClosed = TRUE, !.run = IF @ = "none" THEN @ ELSE "ended"]
    /\ close' = [close EXCEPT ![k].at = IF app.coordinatorStarted THEN "join" ELSE "unplug"]
    /\ UNCHANGED start

CloseJoins(k) ==
    /\ close[k].at = "join"
    /\ app.coordinator = "down" \/ close[k].expired
    /\ app' = [app EXCEPT !.coordinatorStarted = FALSE]
    /\ \E joined \in BOOLEAN :
          /\ (joined => app.coordinator = "down") /\ (~joined => close[k].expired)
          /\ close' = [close EXCEPT ![k].at = "unplug", ![k].err = ~joined]
    /\ UNCHANGED start

ClosePlugins(k) ==
    /\ close[k].at = "unplug"
    /\ \/ app.managerClosed /\ UNCHANGED app /\ close' = [close EXCEPT ![k].at = "finish"]
       \/ /\ ~app.managerClosed
          /\ app' = [app EXCEPT !.manager = "down"]
          /\ close' = [close EXCEPT ![k].at = "finish"]
       \/ /\ ~app.managerClosed /\ close[k].expired
          /\ app' = [app EXCEPT !.manager = IF @ = "down" THEN @ ELSE "closing"]
          /\ close' = [close EXCEPT ![k].at = "finish", ![k].err = TRUE]
    /\ UNCHANGED start

FinishClose(k) ==
    /\ close[k].at = "finish"
    /\ app' = [app EXCEPT !.managerClosed = TRUE, !.life = "closed", !.status = "closed", !.closeErr = close[k].err, !.token = TRUE]
    /\ close' = [close EXCEPT ![k].at = "done"]
    /\ UNCHANGED start

(***************************************************************************)
(* The parts.                                                              *)
(***************************************************************************)

CoordinatorEnds ==
    /\ app.coordinator = "up" /\ RunEnded
    /\ app' = [app EXCEPT !.coordinator = "down"]
    /\ UNCHANGED <<start, close>>

ManagerEnds ==
    /\ app.manager = "closing"
    /\ app' = [app EXCEPT !.manager = "down"]
    /\ UNCHANGED <<start, close>>

\* lifecycleForStatus: the coordinator reports errors, and their end.
ReportErrors ==
    /\ app.coordinator = "up" /\ app.status \in {"running", "degraded"}
    /\ app' = [app EXCEPT !.status = IF @ = "running" THEN "degraded" ELSE "running"]
    /\ UNCHANGED <<start, close>>

StartStep ==
    \/ AcquireStart \/ StartPlugins \/ StartCoordinator \/ AwaitReady \/ StartOSC \/ StartEnds
    \/ Rollback \/ RollbackJoins \/ RollbackPlugins \/ FailStart

CloseStep(k) == AcquireClose(k) \/ CloseOSC(k) \/ CloseJoins(k) \/ ClosePlugins(k) \/ FinishClose(k)

AppStep == StartStep \/ CoordinatorEnds \/ ManagerEnds \/ \E k \in Closer : CloseStep(k) \/ Expire(k)

(***************************************************************************)
(* Properties.                                                             *)
(***************************************************************************)

PartsDown == app.manager # "up" /\ app.coordinator # "up" /\ app.osc # "up"

\* Between Start and the calls of Close, one cleans up.  Once a failed Start and
\* every Close have returned nothing runs, unless one of them gave up waiting;
\* and once Close has ended without an error nothing runs, whatever happened
\* before (finishStartFailure, finishClose).
NothingLeftRunning ==
    /\ /\ start.at = "done" /\ ~start.ok /\ ~start.gaveUp /\ app.run # "none"
       /\ \A k \in Closer : close[k].at \in {"idle", "done"} /\ ~close[k].expired
       => PartsDown
    /\ app.life = "closed" /\ ~app.closeErr => PartsDown /\ app.manager # "closing" /\ app.run # "live"

=============================================================================
