---------------------------- MODULE DesktopAppProofs ----------------------------
(***************************************************************************)
(* Proofs about DesktopApp and Application, for any set of callers of      *)
(* Close, plugins, commands and saves, and any scenario; and about the     *)
(* store of the user's settings, which the desktop owns, for any number of *)
(* callers, candidates, revisions and files.                               *)
(***************************************************************************)
EXTENDS DesktopApp, SettingsStore, TLAPS

-----------------------------------------------------------------------------
(* The application. *)

Lives    == {"created", "starting", "running", "failed", "closing", "closed"}
Managers == {"new", "up", "failed", "closing", "down"}
Parts    == {"new", "up", "down"}
Runs     == {"none", "live", "ended"}
StartAt  == {"idle", "acquire", "plugins", "coordinator", "ready", "osc", "end", "rollback", "join", "unplug",
             "fail", "done"}
CloseAt  == {"idle", "acquire", "osc", "join", "unplug", "finish", "done"}

AppType ==
    [life : Lives, token : BOOLEAN, run : Runs, manager : Managers, managerClosed : BOOLEAN, coordinator : Parts,
     coordinatorStarted : BOOLEAN, osc : Parts, oscClosed : BOOLEAN, status : Statuses, closeErr : BOOLEAN]

StartType == [at : StartAt, ok : BOOLEAN, ended : BOOLEAN, gaveUp : BOOLEAN]
CloseType == [at : CloseAt, err : BOOLEAN, expired : BOOLEAN]

AppTypes == app \in AppType /\ start \in StartType /\ close \in [Closer -> CloseType]

\* What the steps of the desktop are to the application.
EndStart == start' = [start EXCEPT !.ended = TRUE] /\ UNCHANGED <<app, close>>

AppNext ==
    \/ AppStep \/ CallStart \/ EndStart \/ ReportErrors
    \/ \E k \in Closer : CallClose(k)
    \/ UNCHANGED appVars

LEMMA FirstCloser == (CHOOSE k \in Closer : TRUE) \in Closer
  BY CloserAssumption

LEMMA NextIsAppNext == [Next]_vars => AppNext
<1> SUFFICES ASSUME [Next]_vars PROVE AppNext
  OBVIOUS
<1> USE DEF AppNext
<1>1. CASE Direct
  BY <1>1, Zenon DEF Direct, EndStart
<1>2. CASE Backend
  BY <1>2, Zenon DEF Backend
<1>3. CASE CoordinatorReports
  BY <1>3, Zenon DEF CoordinatorReports
<1>4. CASE Startup
  BY <1>4, Zenon DEF Startup
<1>5. CASE StartupStep
  BY <1>5, Zenon DEF StartupStep, PublishStarting, StartForwarders, LoadFails, LoadForStartup, SettingsInvalid,
     NewBackend, StartBackend, BackendStarted, AttachStatus, Attach, AttachPublishes, SubscribePlugins,
     SubscribeStatus, Run
<1>6. CASE Shutdown
  BY <1>6, Zenon DEF Shutdown, EndStart
<1>7. CASE ShutdownStep
  BY <1>7, FirstCloser, Zenon DEF ShutdownStep, AwaitStartup, JoinCommands, JoinForwarders, AwaitSave, BackendClosed,
     ShutdownEnds, CloseBackend
<1>8. CASE \E p \in Plugin : PluginChanges(p) \/ \E c \in Cmd, kind \in {"enable", "disable", "config"} : Call(c, p, kind)
  BY <1>8, Zenon DEF PluginChanges, Call
<1>9. CASE WatchStep \/ Tick
  BY <1>9, Zenon DEF WatchStep, ConsumeStatus, SetStatusTaken, WatchStops, Tick
<1>10. CASE Work
  BY <1>10, Zenon DEF Work, ConsumerStep, ListAgain, ConsumeSnapshots, PublishTaken, ConsumerStops, CmdStep, Admit,
     Read, PublishEqual, CallBackend, RefreshBackend, SaveStep, SaveFile, PublishSaved, ForwardStep, Forward,
     ForwarderStops
<1>11. CASE \E s \in Saver : AdmitSave(s)
  BY <1>11, Zenon DEF AdmitSave
<1>12. CASE UNCHANGED vars
  BY <1>12, Zenon DEF vars
<1> QED
  BY <1>1, <1>2, <1>3, <1>4, <1>5, <1>6, <1>7, <1>8, <1>9, <1>10, <1>11, <1>12, Zenon DEF Next

LEMMA Members ==
    /\ "created" \in Lives /\ "starting" \in Lives /\ "running" \in Lives
    /\ "failed" \in Lives /\ "closing" \in Lives /\ "closed" \in Lives
    /\ "created" \in Statuses /\ "starting" \in Statuses /\ "running" \in Statuses
    /\ "degraded" \in Statuses /\ "closing" \in Statuses /\ "closed" \in Statuses
    /\ "new" \in Managers /\ "up" \in Managers /\ "failed" \in Managers
    /\ "closing" \in Managers /\ "down" \in Managers
    /\ "new" \in Parts /\ "up" \in Parts /\ "down" \in Parts
    /\ "none" \in Runs /\ "live" \in Runs /\ "ended" \in Runs
  BY DEF Lives, Statuses, Managers, Parts, Runs

LEMMA Stages ==
    /\ "acquire" \in StartAt /\ "plugins" \in StartAt /\ "coordinator" \in StartAt
    /\ "ready" \in StartAt /\ "osc" \in StartAt /\ "end" \in StartAt
    /\ "rollback" \in StartAt /\ "join" \in StartAt /\ "unplug" \in StartAt
    /\ "fail" \in StartAt /\ "done" \in StartAt
    /\ "acquire" \in CloseAt /\ "osc" \in CloseAt /\ "join" \in CloseAt
    /\ "unplug" \in CloseAt /\ "finish" \in CloseAt /\ "done" \in CloseAt
  BY DEF StartAt, CloseAt

LEMMA AppTypesInit == Init => AppTypes
  BY Members DEF Init, StartAt, CloseAt, AppInit, NewApp, AppTypes, AppType, StartType, CloseType

\* A call of Close gets on, with or without an error.
LEMMA CloseMoves ==
    ASSUME AppTypes, NEW k \in Closer, NEW at \in CloseAt,
           close' = [close EXCEPT ![k].at = at]
    PROVE  /\ close' \in [Closer -> CloseType] /\ \A j \in Closer \ {k} : close'[j] = close[j]
           /\ close'[k].at = at /\ close'[k].err = close[k].err /\ close'[k].expired = close[k].expired
  BY DEF AppTypes, CloseType

LEMMA CloseFails ==
    ASSUME AppTypes, NEW k \in Closer, NEW at \in CloseAt,
           NEW err \in BOOLEAN, close' = [close EXCEPT ![k].at = at, ![k].err = err]
    PROVE  /\ close' \in [Closer -> CloseType] /\ \A j \in Closer \ {k} : close'[j] = close[j]
           /\ close'[k].at = at /\ close'[k].err = err /\ close'[k].expired = close[k].expired
<1> DEFINE mid == [close EXCEPT ![k].at = at]
<1>1. /\ mid \in [Closer -> CloseType] /\ \A j \in Closer \ {k} : mid[j] = close[j]
      /\ mid[k].at = at /\ mid[k].expired = close[k].expired
  BY DEF AppTypes, CloseType
<1> HIDE DEF mid
<1> DEFINE call == [mid[k] EXCEPT !.err = err]
<1>2. call \in CloseType /\ call.err = err /\ call.at = at /\ call.expired = close[k].expired
  BY <1>1 DEF CloseType
<1>3. close' = [mid EXCEPT ![k] = call]
  BY DEF mid
<1> HIDE DEF call
<1> QED BY <1>1, <1>2, <1>3

LEMMA CloseExpired ==
    ASSUME AppTypes, NEW k \in Closer, close' = [close EXCEPT ![k].expired = TRUE]
    PROVE  /\ close' \in [Closer -> CloseType] /\ \A j \in Closer \ {k} : close'[j] = close[j]
           /\ close'[k].at = close[k].at /\ close'[k].err = close[k].err /\ close'[k].expired
  BY DEF AppTypes, CloseType

LEMMA StartTypes ==
    ASSUME AppTypes, StartStep PROVE AppTypes'
<1> USE Members, Stages DEF AppTypes, AppType, StartType, StartReturns
<1>1. CASE AcquireStart
  BY ZenonT(60), <1>1 DEF AcquireStart
<1>2. CASE StartPlugins
  BY ZenonT(60), <1>2 DEF StartPlugins
<1>3. CASE StartCoordinator
  BY ZenonT(60), <1>3 DEF StartCoordinator, FinishStartFailure
<1>4. CASE AwaitReady
  BY <1>4 DEF AwaitReady, FinishStartFailure
<1>5. CASE StartOSC
  BY <1>5 DEF StartOSC, FinishStartFailure
<1>6. CASE StartEnds
  BY ZenonT(60), <1>6 DEF StartEnds
<1>7. CASE Rollback
  BY <1>7 DEF Rollback
<1>8. CASE RollbackJoins
  BY ZenonT(60), <1>8 DEF RollbackJoins
<1>9. CASE RollbackPlugins
  BY ZenonT(60), <1>9 DEF RollbackPlugins
<1>10. CASE FailStart
  BY <1>10 DEF FailStart
<1> QED BY <1>1, <1>2, <1>3, <1>4, <1>5, <1>6, <1>7, <1>8, <1>9, <1>10 DEF StartStep

\* What each step of Close does to the call, in terms of its fields.
Moves(k, at) ==
    /\ close' \in [Closer -> CloseType] /\ \A j \in Closer \ {k} : close'[j] = close[j]
    /\ close'[k].at = at /\ close'[k].expired = close[k].expired

LEMMA CloseSteps ==
    ASSUME AppTypes, NEW k \in Closer, CallClose(k) \/ CloseStep(k) \/ Expire(k)
    PROVE  /\ start' = start
           /\ \/ /\ close[k].at = "idle" /\ app.life = "closed" /\ app' = app
                 /\ Moves(k, "done")
              \/ /\ close[k].at = "idle" /\ app.life # "closed"
                 /\ app' = [app EXCEPT !.life = "closing", !.status = "closing"]
                 /\ Moves(k, "acquire") /\ close'[k].err = close[k].err
              \/ /\ close[k].at = "acquire" /\ app' = app
                 /\ close[k].expired \/ (app.token /\ app.life = "closed")
                 /\ Moves(k, "done")
              \/ /\ close[k].at = "acquire" /\ app.token /\ app.life # "closed"
                 /\ app' = [app EXCEPT !.token = FALSE]
                 /\ Moves(k, "osc") /\ close'[k].err = close[k].err
              \/ CloseOSC(k) /\ Moves(k, IF app.coordinatorStarted THEN "join" ELSE "unplug") /\ close'[k].err = close[k].err
              \/ /\ close[k].at = "join"
                 /\ app' = [app EXCEPT !.coordinatorStarted = FALSE]
                 /\ Moves(k, "unplug")
                 /\ (app.coordinator = "down" /\ ~close'[k].err) \/ (close[k].expired /\ close'[k].err)
              \/ /\ close[k].at = "unplug" /\ Moves(k, "finish")
                 /\ \/ app.managerClosed /\ app' = app /\ close'[k].err = close[k].err
                    \/ app' = [app EXCEPT !.manager = "down"] /\ close'[k].err = close[k].err
                    \/ /\ ~app.managerClosed /\ close[k].expired /\ close'[k].err
                       /\ app' = [app EXCEPT !.manager = IF @ = "down" THEN @ ELSE "closing"]
              \/ FinishClose(k) /\ Moves(k, "done") /\ close'[k].err = close[k].err
              \/ /\ Expire(k) /\ app' = app
                 /\ close' \in [Closer -> CloseType] /\ \A j \in Closer \ {k} : close'[j] = close[j]
                 /\ close'[k].at = close[k].at /\ close'[k].err = close[k].err /\ close'[k].expired
<1> USE Stages DEF Moves
<1>0. app.closeErr \in BOOLEAN /\ TRUE \in BOOLEAN
  BY DEF AppTypes, AppType
<1>1. CASE CallClose(k)
  <2>1. CASE app.life = "closed"
    <3>1. close[k].at = "idle" /\ close' = [close EXCEPT ![k].at = "done", ![k].err = app.closeErr] /\ UNCHANGED <<app, start>>
      BY <1>1, <2>1, Zenon DEF CallClose
    <3>2. Moves(k, "done")
      BY <1>0, <3>1, CloseFails
    <3> QED BY <2>1, <3>1, <3>2, Zenon
  <2>2. CASE app.life # "closed"
    <3>1. /\ close[k].at = "idle" /\ close' = [close EXCEPT ![k].at = "acquire"]
          /\ app' = [app EXCEPT !.life = "closing", !.status = "closing"] /\ UNCHANGED start
      BY <1>1, <2>2, Zenon DEF CallClose
    <3>2. Moves(k, "acquire") /\ close'[k].err = close[k].err
      BY <3>1, CloseMoves
    <3> QED BY <2>2, <3>1, <3>2, Zenon
  <2> QED BY <2>1, <2>2
<1>2. CASE AcquireClose(k)
  <2>1. CASE \E err \in BOOLEAN :
               /\ close' = [close EXCEPT ![k].at = "done", ![k].err = err] /\ UNCHANGED <<app, start>>
               /\ close[k].at = "acquire" /\ (close[k].expired \/ (app.token /\ app.life = "closed"))
    <3>1. Moves(k, "done")
      BY <2>1, CloseFails
    <3> QED BY <2>1, <3>1, Zenon
  <2>2. CASE /\ close[k].at = "acquire" /\ app.token /\ app.life # "closed" /\ close' = [close EXCEPT ![k].at = "osc"]
             /\ app' = [app EXCEPT !.token = FALSE] /\ UNCHANGED start
    <3>1. Moves(k, "osc") /\ close'[k].err = close[k].err
      BY <2>2, CloseMoves
    <3> QED BY <2>2, <3>1, Zenon
  <2> QED BY <1>0, <1>2, <2>1, <2>2, Zenon DEF AcquireClose
<1>3. CASE CloseOSC(k)
  <2> DEFINE at == IF app.coordinatorStarted THEN "join" ELSE "unplug"
  <2>1. close' = [close EXCEPT ![k].at = at] /\ UNCHANGED start
    BY <1>3, Zenon DEF CloseOSC
  <2>2. at \in CloseAt
    OBVIOUS
  <2>3. Moves(k, at) /\ close'[k].err = close[k].err
    <3> HIDE DEF at
    <3> QED BY <2>1, <2>2, CloseMoves
  <2> QED BY <1>3, <2>1, <2>3, Zenon
<1>4. CASE CloseJoins(k)
  <2>1. PICK joined \in BOOLEAN :
           /\ (joined => app.coordinator = "down") /\ (~joined => close[k].expired)
           /\ close' = [close EXCEPT ![k].at = "unplug", ![k].err = ~joined]
    BY <1>4, Zenon DEF CloseJoins
  <2> DEFINE err == ~joined
  <2>2. err \in BOOLEAN /\ close' = [close EXCEPT ![k].at = "unplug", ![k].err = err]
    BY <2>1, Zenon
  <2>3. (app.coordinator = "down" /\ ~err) \/ (close[k].expired /\ err)
    BY <2>1, Zenon
  <2> HIDE DEF err
  <2>4. Moves(k, "unplug") /\ close'[k].err = err
    BY <2>2, CloseFails
  <2> QED BY <1>4, <2>3, <2>4, Zenon DEF CloseJoins
<1>5. CASE ClosePlugins(k)
  <2>1. CASE /\ close[k].at = "unplug" /\ close' = [close EXCEPT ![k].at = "finish"] /\ UNCHANGED start
             /\ (app.managerClosed /\ app' = app) \/ app' = [app EXCEPT !.manager = "down"]
    <3>1. Moves(k, "finish") /\ close'[k].err = close[k].err
      BY <2>1, CloseMoves
    <3> QED BY <2>1, <3>1, Zenon
  <2>2. CASE /\ close[k].at = "unplug" /\ close' = [close EXCEPT ![k].at = "finish", ![k].err = TRUE] /\ UNCHANGED start
             /\ ~app.managerClosed /\ close[k].expired
             /\ app' = [app EXCEPT !.manager = IF @ = "down" THEN @ ELSE "closing"]
    <3>1. Moves(k, "finish") /\ close'[k].err = TRUE
      BY <1>0, <2>2, CloseFails
    <3> QED BY <2>2, <3>1, Zenon
  <2> QED BY <1>5, <2>1, <2>2, Zenon DEF ClosePlugins
<1>6. CASE FinishClose(k)
  <2>1. close' = [close EXCEPT ![k].at = "done"] /\ UNCHANGED start
    BY <1>6, Zenon DEF FinishClose
  <2>2. Moves(k, "done") /\ close'[k].err = close[k].err
    BY <2>1, CloseMoves
  <2> QED BY <1>6, <2>1, <2>2, Zenon
<1>7. CASE Expire(k)
  <2>1. close' = [close EXCEPT ![k].expired = TRUE] /\ UNCHANGED <<app, start>>
    BY <1>7, Zenon DEF Expire
  <2> QED BY <1>7, <2>1, CloseExpired
<1> QED BY <1>1, <1>2, <1>3, <1>4, <1>5, <1>6, <1>7, Zenon DEF CloseStep

LEMMA CloseTypes ==
    ASSUME AppTypes, NEW k \in Closer, CallClose(k) \/ CloseStep(k) \/ Expire(k) PROVE AppTypes'
<1>1. close' \in [Closer -> CloseType]
  BY CloseSteps, Zenon DEF Moves
<1>2. start' \in StartType
  BY CloseSteps DEF AppTypes
<1>3. app' \in AppType
  <2> USE Members DEF AppTypes, AppType
  <2>1. CASE CallClose(k)
    BY <2>1 DEF CallClose
  <2>2. CASE AcquireClose(k)
    BY <2>2 DEF AcquireClose
  <2>3. CASE CloseOSC(k)
    BY <2>3 DEF CloseOSC
  <2>4. CASE CloseJoins(k)
    BY <2>4 DEF CloseJoins
  <2>5. CASE ClosePlugins(k)
    BY <2>5 DEF ClosePlugins
  <2>6. CASE FinishClose(k)
    BY <2>6 DEF FinishClose, CloseType
  <2>7. CASE Expire(k)
    BY <2>7 DEF Expire
  <2> QED BY <2>1, <2>2, <2>3, <2>4, <2>5, <2>6, <2>7 DEF CloseStep
<1> QED BY <1>1, <1>2, <1>3 DEF AppTypes

LEMMA AppTypesStep == AppTypes /\ AppNext => AppTypes'
<1> SUFFICES ASSUME AppTypes, AppNext PROVE AppTypes'
  OBVIOUS
<1>1. CASE CallStart \/ EndStart
  BY <1>1, Stages DEF CallStart, EndStart, AppTypes, StartType
<1>2. CASE CoordinatorEnds \/ ManagerEnds \/ ReportErrors
  BY <1>2, Members DEF CoordinatorEnds, ManagerEnds, ReportErrors, AppTypes, AppType
<1>3. CASE UNCHANGED appVars
  BY <1>3 DEF appVars, AppTypes
<1> QED BY <1>1, <1>2, <1>3, StartTypes, CloseTypes DEF AppNext, AppStep

-----------------------------------------------------------------------------
(* Who holds the application, and what it has taken down. *)

\* Start, or a call of Close, is at work and holds the token.
Starting   == start.at \notin {"idle", "acquire", "done"}
Closing(k) == close[k].at \in {"osc", "join", "unplug", "finish"}

\* One at a time.
TokenInv ==
    /\ app.token <=> ~Starting /\ \A k \in Closer : ~Closing(k)
    /\ Starting => \A k \in Closer : ~Closing(k)
    /\ \A j, k \in Closer : Closing(j) /\ Closing(k) => j = k

\* How far Start is, and what it has brought up by then.
StartInv ==
    /\ app.life = "created" =>
          /\ ~Starting /\ app.run = "none" /\ \A k \in Closer : close[k].at = "idle"
          /\ app.manager = "new" /\ app.coordinator = "new" /\ app.osc = "new" /\ ~app.coordinatorStarted
    /\ start.at \in {"idle", "acquire"} =>
          app.life \in {"created", "closing", "closed"} /\ app.coordinator = "new" /\ ~app.coordinatorStarted
    /\ app.run # "none" => start.at \notin {"idle", "acquire"}
    /\ Starting => app.life \in {"starting", "closing"}
    /\ app.life = "starting" => Starting
    /\ app.life = "running" => start.at = "done" /\ start.ok
    /\ app.life = "failed" => start.at = "done" /\ (PartsDown \/ start.gaveUp)
    /\ start.at = "plugins" => app.manager = "new"
    /\ Starting /\ start.at # "fail" => ~app.managerClosed
    /\ start.at \in {"plugins", "coordinator"} => app.coordinator = "new"
    /\ app.osc = "up" => start.at \in {"end", "done"}
    /\ start.at = "unplug" => app.coordinator # "up" \/ start.gaveUp
    /\ start.at = "fail" => CloseRequested \/ PartsDown \/ start.gaveUp

\* What the parts are when somebody holds them for closed.
PartsInv ==
    /\ ~app.coordinatorStarted /\ app.coordinator = "up" =>
          app.life = "closed" \/ \E k \in Closer : close[k].at \in {"unplug", "finish"}
    /\ app.managerClosed => app.life = "closed" \/ app.manager = "down"
    /\ app.life = "closed" =>
          /\ app.osc = "down" /\ app.run # "live" /\ app.status = "closed"
          /\ app.closeErr \/ (app.coordinator # "up" /\ app.manager = "down")

\* How far a call of Close is, and what it has taken down by then.
CloseInv ==
    \A k \in Closer :
       /\ close[k].at # "idle" => CloseRequested
       /\ Closing(k) => app.life = "closing"
       /\ close[k].at \in {"join", "unplug", "finish"} => app.osc = "down" /\ app.run # "live"
       /\ close[k].at \in {"unplug", "finish"} => app.coordinator # "up" \/ close[k].err
       /\ close[k].at = "finish" => app.manager = "down" \/ close[k].err
       /\ close[k].at # "done" /\ close[k].err => close[k].expired

\* Somebody is closing, or gave up.
AbandonedInv ==
    /\ app.life = "closing" => \E k \in Closer : close[k].at \notin {"idle", "done"} \/ close[k].expired
    /\ app.closeErr => \E k \in Closer : close[k].expired

AppInv == TokenInv /\ StartInv /\ PartsInv /\ CloseInv /\ AbandonedInv

LEMMA AppInvInit == Init => AppInv
  BY CloserAssumption DEF Init, AppInit, NewApp, AppInv, TokenInv, StartInv, PartsInv, CloseInv, AbandonedInv, Starting, Closing, PartsDown,
     CloseRequested

\* The fields after a step.
AppIs(life, token, run, manager, managerClosed, coordinator, coordinatorStarted, osc, status, closeErr) ==
    /\ app'.life = life /\ app'.token = token /\ app'.run = run /\ app'.manager = manager
    /\ app'.managerClosed = managerClosed /\ app'.coordinator = coordinator
    /\ app'.coordinatorStarted = coordinatorStarted /\ app'.osc = osc /\ app'.status = status /\ app'.closeErr = closeErr

StartIs(at, ok, gaveUp) == start'.at = at /\ start'.ok = ok /\ start'.gaveUp = gaveUp

LEMMA StartKeeps ==
    ASSUME AppTypes, AppInv, StartStep PROVE AppInv'
<1>1. CASE AcquireStart
  <2>1. /\ start.at = "acquire" /\ close' = close
        /\ \/ /\ AppIs(app.life, app.token, app.run, app.manager, app.managerClosed, app.coordinator,
                       app.coordinatorStarted, app.osc, app.status, app.closeErr)
              /\ StartIs("done", FALSE, start.gaveUp)
           \/ /\ app.token /\ app.life = "created"
              /\ AppIs("starting", FALSE, "live", app.manager, app.managerClosed, app.coordinator,
                       app.coordinatorStarted, app.osc, "starting", app.closeErr)
              /\ StartIs("plugins", start.ok, start.gaveUp)
    BY ZenonT(60), <1>1 DEF AcquireStart, StartReturns, FinishStartFailure, AppIs, StartIs, AppTypes, AppType, StartType
  <2> QED
    BY <2>1 DEF AppIs, StartIs, AppInv, TokenInv, StartInv, PartsInv, CloseInv, AbandonedInv, Starting, Closing,
       PartsDown, CloseRequested
<1>2. CASE StartPlugins
  <2>1. /\ start.at = "plugins" /\ close' = close
        /\ \/ /\ AppIs(app.life, app.token, app.run, "up", app.managerClosed, app.coordinator,
                       app.coordinatorStarted, app.osc, app.status, app.closeErr)
              /\ StartIs("coordinator", start.ok, start.gaveUp)
           \/ /\ AppIs(app.life, app.token, IF CloseRequested THEN app.run ELSE "ended", "failed",
                       app.managerClosed, app.coordinator, app.coordinatorStarted, app.osc, app.status, app.closeErr)
              /\ StartIs("fail", start.ok, start.gaveUp)
    BY <1>2 DEF StartPlugins, StartReturns, FinishStartFailure, AppIs, StartIs, AppTypes, AppType, StartType
  <2> QED
    BY <2>1 DEF AppIs, StartIs, AppInv, TokenInv, StartInv, PartsInv, CloseInv, AbandonedInv, Starting, Closing,
       PartsDown, CloseRequested
<1>3. CASE StartCoordinator
  <2>1. /\ start.at = "coordinator" /\ close' = close
        /\ \/ /\ AppIs(app.life, app.token, app.run, app.manager, app.managerClosed, app.coordinator,
                       app.coordinatorStarted, app.osc, app.status, app.closeErr)
              /\ StartIs(IF CloseRequested THEN "fail" ELSE "rollback", start.ok, start.gaveUp)
           \/ /\ AppIs(app.life, app.token, app.run, app.manager, app.managerClosed, "up", TRUE, app.osc,
                       app.status, app.closeErr)
              /\ StartIs("ready", start.ok, start.gaveUp)
    BY ZenonT(60), <1>3 DEF StartCoordinator, StartReturns, FinishStartFailure, AppIs, StartIs, AppTypes, AppType, StartType
  <2> QED
    BY <2>1 DEF AppIs, StartIs, AppInv, TokenInv, StartInv, PartsInv, CloseInv, AbandonedInv, Starting, Closing,
       PartsDown, CloseRequested
<1>4. CASE AwaitReady
  <2>1. /\ start.at = "ready" /\ close' = close
        /\ AppIs(app.life, app.token, app.run, app.manager, app.managerClosed, app.coordinator,
                 app.coordinatorStarted, app.osc, app.status, app.closeErr)
        /\ start'.at \in {"fail", "rollback", "osc"}
        /\ StartIs(start'.at, start.ok, start.gaveUp)
        /\ start'.at = "fail" => CloseRequested
    BY <1>4 DEF AwaitReady, StartReturns, FinishStartFailure, AppIs, StartIs, AppTypes, AppType, StartType
  <2> QED
    BY <2>1 DEF AppIs, StartIs, AppInv, TokenInv, StartInv, PartsInv, CloseInv, AbandonedInv, Starting, Closing,
       PartsDown, CloseRequested
<1>5. CASE StartOSC
  <2>1. /\ start.at = "osc" /\ close' = close
        /\ \/ /\ AppIs(app.life, app.token, app.run, app.manager, app.managerClosed, app.coordinator,
                       app.coordinatorStarted, "up", app.status, app.closeErr)
              /\ StartIs("end", start.ok, start.gaveUp)
           \/ /\ AppIs(app.life, app.token, app.run, app.manager, app.managerClosed, app.coordinator,
                       app.coordinatorStarted, app.osc, app.status, app.closeErr)
              /\ StartIs(IF CloseRequested THEN "fail" ELSE "rollback", start.ok, start.gaveUp)
    BY <1>5 DEF StartOSC, StartReturns, FinishStartFailure, AppIs, StartIs, AppTypes, AppType, StartType
  <2> QED
    BY <2>1 DEF AppIs, StartIs, AppInv, TokenInv, StartInv, PartsInv, CloseInv, AbandonedInv, Starting, Closing,
       PartsDown, CloseRequested
<1>6. CASE StartEnds
  <2>1. /\ start.at = "end" /\ close' = close
        /\ \/ /\ app.life = "starting"
              /\ AppIs("running", TRUE, app.run, app.manager, app.managerClosed, app.coordinator,
                       app.coordinatorStarted, app.osc, "running", app.closeErr)
              /\ StartIs("done", TRUE, start.gaveUp)
           \/ /\ app.life # "starting"
              /\ AppIs(app.life, TRUE, app.run, app.manager, app.managerClosed, app.coordinator,
                       app.coordinatorStarted, app.osc, app.status, app.closeErr)
              /\ StartIs("done", FALSE, start.gaveUp)
    BY ZenonT(60), <1>6 DEF StartEnds, StartReturns, FinishStartFailure, AppIs, StartIs, AppTypes, AppType, StartType
  <2> QED
    BY <2>1 DEF AppIs, StartIs, AppInv, TokenInv, StartInv, PartsInv, CloseInv, AbandonedInv, Starting, Closing,
       PartsDown, CloseRequested
<1>7. CASE Rollback
  <2>1. /\ start.at = "rollback" /\ close' = close
        /\ AppIs(app.life, app.token, "ended", app.manager, app.managerClosed, app.coordinator,
                 app.coordinatorStarted, app.osc, app.status, app.closeErr)
        /\ StartIs(IF app.coordinatorStarted THEN "join" ELSE "unplug", start.ok, start.gaveUp)
    BY <1>7 DEF Rollback, StartReturns, FinishStartFailure, AppIs, StartIs, AppTypes, AppType, StartType
  <2> QED
    BY <2>1 DEF AppIs, StartIs, AppInv, TokenInv, StartInv, PartsInv, CloseInv, AbandonedInv, Starting, Closing,
       PartsDown, CloseRequested
<1>8. CASE RollbackJoins
  <2>1. /\ start.at = "join" /\ close' = close
        /\ \/ /\ app.coordinator = "down"
              /\ AppIs(app.life, app.token, app.run, app.manager, app.managerClosed, app.coordinator, FALSE,
                       app.osc, app.status, app.closeErr)
              /\ StartIs("unplug", start.ok, start.gaveUp)
           \/ /\ AppIs(app.life, app.token, app.run, app.manager, app.managerClosed, app.coordinator,
                       app.coordinatorStarted, app.osc, app.status, app.closeErr)
              /\ StartIs("unplug", start.ok, TRUE)
    BY ZenonT(60), <1>8 DEF RollbackJoins, StartReturns, FinishStartFailure, AppIs, StartIs, AppTypes, AppType, StartType
  <2> QED
    BY <2>1 DEF AppIs, StartIs, AppInv, TokenInv, StartInv, PartsInv, CloseInv, AbandonedInv, Starting, Closing,
       PartsDown, CloseRequested
<1>9. CASE RollbackPlugins
  <2>1. /\ start.at = "unplug" /\ close' = close
        /\ \/ /\ AppIs(app.life, app.token, app.run, "down", TRUE, app.coordinator, app.coordinatorStarted,
                       app.osc, app.status, app.closeErr)
              /\ StartIs("fail", start.ok, start.gaveUp)
           \/ /\ AppIs(app.life, app.token, app.run, "closing", app.managerClosed, app.coordinator,
                       app.coordinatorStarted, app.osc, app.status, app.closeErr)
              /\ StartIs("fail", start.ok, TRUE)
    BY ZenonT(60), <1>9 DEF RollbackPlugins, StartReturns, FinishStartFailure, AppIs, StartIs, AppTypes, AppType, StartType
  <2> QED
    BY <2>1 DEF AppIs, StartIs, AppInv, TokenInv, StartInv, PartsInv, CloseInv, AbandonedInv, Starting, Closing,
       PartsDown, CloseRequested
<1>10. CASE FailStart
  <2>1. /\ start.at = "fail" /\ close' = close
        /\ AppIs(IF app.life = "starting" THEN "failed" ELSE app.life, TRUE, app.run, app.manager,
                 app.managerClosed, app.coordinator, app.coordinatorStarted, app.osc,
                 IF app.life = "starting" THEN "degraded" ELSE app.status, app.closeErr)
        /\ StartIs("done", FALSE, start.gaveUp)
    BY <1>10 DEF FailStart, StartReturns, FinishStartFailure, AppIs, StartIs, AppTypes, AppType, StartType
  <2> QED
    BY <2>1 DEF AppIs, StartIs, AppInv, TokenInv, StartInv, PartsInv, CloseInv, AbandonedInv, Starting, Closing,
       PartsDown, CloseRequested
<1> QED BY <1>1, <1>2, <1>3, <1>4, <1>5, <1>6, <1>7, <1>8, <1>9, <1>10 DEF StartStep

LEMMA CloseKeeps ==
    ASSUME AppTypes, AppInv, NEW k \in Closer, CallClose(k) \/ CloseStep(k) \/ Expire(k) PROVE AppInv'
<1>0. start' = start /\ app \in AppType
  BY CloseSteps DEF AppTypes
<1> DEFINE Only(at) == /\ \A j \in Closer \ {k} : close'[j] = close[j]
                       /\ close'[k].at = at /\ close'[k].expired = close[k].expired
           Err == close'[k].err = close[k].err
<1>1. CASE close[k].at = "idle" /\ app.life = "closed" /\ app' = app /\ Moves(k, "done")
  <2>1. /\ Only("done")
        /\ AppIs(app.life, app.token, app.run, app.manager, app.managerClosed, app.coordinator,
                 app.coordinatorStarted, app.osc, app.status, app.closeErr)
    BY <1>0, <1>1 DEF AppIs, AppType, Moves
  <2>2. StartInv' /\ TokenInv'
    BY <1>0, <1>1, <2>1 DEF AppIs, AppInv, TokenInv, StartInv, CloseInv, Starting, Closing, PartsDown, CloseRequested
  <2>3. CloseInv'
    BY <1>0, <1>1, <2>1 DEF AppIs, AppInv, TokenInv, CloseInv, PartsInv, Closing, CloseRequested
  <2>4. AbandonedInv'
    BY <1>0, <1>1, <2>1 DEF AppIs, AppInv, CloseInv, AbandonedInv, Closing, CloseRequested
  <2>5. PartsInv'
    BY <1>0, <1>1, <2>1 DEF AppIs, AppInv, StartInv, TokenInv, PartsInv, CloseInv, Starting, Closing, CloseRequested
  <2> QED BY <2>2, <2>3, <2>4, <2>5 DEF AppInv
<1>2. CASE /\ close[k].at = "idle" /\ app.life # "closed" /\ Moves(k, "acquire") /\ Err
           /\ app' = [app EXCEPT !.life = "closing", !.status = "closing"]
  <2>1. /\ Only("acquire") /\ Err
        /\ AppIs("closing", app.token, app.run, app.manager, app.managerClosed, app.coordinator,
                 app.coordinatorStarted, app.osc, "closing", app.closeErr)
    BY <1>0, <1>2 DEF AppIs, AppType, Moves
  <2>2. StartInv' /\ TokenInv'
    BY <1>0, <1>2, <2>1 DEF AppIs, AppInv, TokenInv, StartInv, CloseInv, Starting, Closing, PartsDown, CloseRequested
  <2>3. CloseInv'
    BY <1>0, <1>2, <2>1 DEF AppIs, AppInv, TokenInv, CloseInv, PartsInv, Closing, CloseRequested
  <2>4. AbandonedInv'
    BY <1>0, <1>2, <2>1 DEF AppIs, AppInv, CloseInv, AbandonedInv, Closing, CloseRequested
  <2>5. PartsInv'
    BY <1>0, <1>2, <2>1 DEF AppIs, AppInv, StartInv, TokenInv, PartsInv, CloseInv, Starting, Closing, CloseRequested
  <2> QED BY <2>2, <2>3, <2>4, <2>5 DEF AppInv
<1>3. CASE /\ close[k].at = "acquire" /\ app' = app /\ Moves(k, "done")
           /\ close[k].expired \/ (app.token /\ app.life = "closed")
  <2>1. /\ Only("done")
        /\ AppIs(app.life, app.token, app.run, app.manager, app.managerClosed, app.coordinator,
                 app.coordinatorStarted, app.osc, app.status, app.closeErr)
    BY <1>0, <1>3 DEF AppIs, AppType, Moves
  <2>2. StartInv' /\ TokenInv'
    BY <1>0, <1>3, <2>1 DEF AppIs, AppInv, TokenInv, StartInv, CloseInv, Starting, Closing, PartsDown, CloseRequested
  <2>3. CloseInv'
    BY <1>0, <1>3, <2>1 DEF AppIs, AppInv, TokenInv, CloseInv, PartsInv, Closing, CloseRequested
  <2>4. AbandonedInv'
    BY <1>0, <1>3, <2>1 DEF AppIs, AppInv, CloseInv, AbandonedInv, Closing, CloseRequested
  <2>5. PartsInv'
    BY <1>0, <1>3, <2>1 DEF AppIs, AppInv, StartInv, TokenInv, PartsInv, CloseInv, Starting, Closing, CloseRequested
  <2> QED BY <2>2, <2>3, <2>4, <2>5 DEF AppInv
<1>4. CASE /\ close[k].at = "acquire" /\ app.token /\ app.life # "closed" /\ Moves(k, "osc") /\ Err
           /\ app' = [app EXCEPT !.token = FALSE]
  <2>1. /\ Only("osc") /\ Err
        /\ AppIs(app.life, FALSE, app.run, app.manager, app.managerClosed, app.coordinator, app.coordinatorStarted,
                 app.osc, app.status, app.closeErr)
    BY <1>0, <1>4 DEF AppIs, AppType, Moves
  <2>2. StartInv' /\ TokenInv'
    BY <1>0, <1>4, <2>1 DEF AppIs, AppInv, TokenInv, StartInv, CloseInv, Starting, Closing, PartsDown, CloseRequested
  <2>3. CloseInv'
    BY <1>0, <1>4, <2>1 DEF AppIs, AppInv, TokenInv, CloseInv, PartsInv, Closing, CloseRequested
  <2>4. AbandonedInv'
    BY <1>0, <1>4, <2>1 DEF AppIs, AppInv, CloseInv, AbandonedInv, Closing, CloseRequested
  <2>5. PartsInv'
    BY <1>0, <1>4, <2>1 DEF AppIs, AppInv, StartInv, TokenInv, PartsInv, CloseInv, Starting, Closing, CloseRequested
  <2> QED BY <2>2, <2>3, <2>4, <2>5 DEF AppInv
<1>5. CASE CloseOSC(k) /\ Moves(k, IF app.coordinatorStarted THEN "join" ELSE "unplug") /\ Err
  <2>1. /\ Only(IF app.coordinatorStarted THEN "join" ELSE "unplug") /\ Err /\ close[k].at = "osc"
        /\ AppIs(app.life, app.token, IF app.run = "none" THEN "none" ELSE "ended", app.manager, app.managerClosed,
                 app.coordinator, app.coordinatorStarted, "down", app.status, app.closeErr)
    BY <1>0, <1>5 DEF AppIs, AppType, Moves, CloseOSC
  <2>2. StartInv' /\ TokenInv'
    BY <1>0, <1>5, <2>1 DEF AppIs, AppInv, TokenInv, StartInv, CloseInv, Starting, Closing, PartsDown, CloseRequested
  <2>3. CloseInv'
    BY <1>0, <1>5, <2>1 DEF AppIs, AppInv, TokenInv, CloseInv, PartsInv, Closing, CloseRequested
  <2>4. AbandonedInv'
    BY <1>0, <1>5, <2>1 DEF AppIs, AppInv, CloseInv, AbandonedInv, Closing, CloseRequested
  <2>5. PartsInv'
    BY <1>0, <1>5, <2>1 DEF AppIs, AppInv, StartInv, TokenInv, PartsInv, CloseInv, Starting, Closing, CloseRequested
  <2> QED BY <2>2, <2>3, <2>4, <2>5 DEF AppInv
<1>6. CASE /\ close[k].at = "join" /\ Moves(k, "unplug")
           /\ app' = [app EXCEPT !.coordinatorStarted = FALSE]
           /\ (app.coordinator = "down" /\ ~close'[k].err) \/ (close[k].expired /\ close'[k].err)
  <2>1. /\ Only("unplug")
        /\ AppIs(app.life, app.token, app.run, app.manager, app.managerClosed, app.coordinator, FALSE, app.osc,
                 app.status, app.closeErr)
    BY <1>0, <1>6 DEF AppIs, AppType, Moves
  <2>2. StartInv' /\ TokenInv'
    BY <1>0, <1>6, <2>1 DEF AppIs, AppInv, TokenInv, StartInv, CloseInv, Starting, Closing, PartsDown, CloseRequested
  <2>3. CloseInv'
    BY <1>0, <1>6, <2>1 DEF AppIs, AppInv, TokenInv, CloseInv, PartsInv, Closing, CloseRequested
  <2>4. AbandonedInv'
    BY <1>0, <1>6, <2>1 DEF AppIs, AppInv, CloseInv, AbandonedInv, Closing, CloseRequested
  <2>5. PartsInv'
    BY <1>0, <1>6, <2>1 DEF AppIs, AppInv, StartInv, TokenInv, PartsInv, CloseInv, Starting, Closing, CloseRequested
  <2> QED BY <2>2, <2>3, <2>4, <2>5 DEF AppInv
<1>7. CASE close[k].at = "unplug" /\ Moves(k, "finish") /\ app.managerClosed /\ app' = app /\ Err
  <2>1. /\ Only("finish")
        /\ AppIs(app.life, app.token, app.run, app.manager, app.managerClosed, app.coordinator,
                 app.coordinatorStarted, app.osc, app.status, app.closeErr)
    BY <1>0, <1>7 DEF AppIs, AppType, Moves
  <2>2. StartInv' /\ TokenInv'
    BY <1>0, <1>7, <2>1 DEF AppIs, AppInv, TokenInv, StartInv, CloseInv, Starting, Closing, PartsDown, CloseRequested
  <2>3. CloseInv'
    BY <1>0, <1>7, <2>1 DEF AppIs, AppInv, TokenInv, CloseInv, PartsInv, Closing, CloseRequested
  <2>4. AbandonedInv'
    BY <1>0, <1>7, <2>1 DEF AppIs, AppInv, CloseInv, AbandonedInv, Closing, CloseRequested
  <2>5. PartsInv'
    BY <1>0, <1>7, <2>1 DEF AppIs, AppInv, StartInv, TokenInv, PartsInv, CloseInv, Starting, Closing, CloseRequested
  <2> QED BY <2>2, <2>3, <2>4, <2>5 DEF AppInv
<1>8. CASE close[k].at = "unplug" /\ Moves(k, "finish") /\ app' = [app EXCEPT !.manager = "down"] /\ Err
  <2>1. /\ Only("finish")
        /\ AppIs(app.life, app.token, app.run, "down", app.managerClosed, app.coordinator, app.coordinatorStarted,
                 app.osc, app.status, app.closeErr)
    BY <1>0, <1>8 DEF AppIs, AppType, Moves
  <2>2. StartInv' /\ TokenInv'
    BY <1>0, <1>8, <2>1 DEF AppIs, AppInv, TokenInv, StartInv, CloseInv, Starting, Closing, PartsDown, CloseRequested
  <2>3. CloseInv'
    BY <1>0, <1>8, <2>1 DEF AppIs, AppInv, TokenInv, CloseInv, PartsInv, Closing, CloseRequested
  <2>4. AbandonedInv'
    BY <1>0, <1>8, <2>1 DEF AppIs, AppInv, CloseInv, AbandonedInv, Closing, CloseRequested
  <2>5. PartsInv'
    BY <1>0, <1>8, <2>1 DEF AppIs, AppInv, StartInv, TokenInv, PartsInv, CloseInv, Starting, Closing, CloseRequested
  <2> QED BY <2>2, <2>3, <2>4, <2>5 DEF AppInv
<1>9. CASE /\ close[k].at = "unplug" /\ Moves(k, "finish") /\ ~app.managerClosed /\ close[k].expired /\ close'[k].err
           /\ app' = [app EXCEPT !.manager = IF @ = "down" THEN @ ELSE "closing"]
  <2>1. /\ Only("finish")
        /\ AppIs(app.life, app.token, app.run, IF app.manager = "down" THEN app.manager ELSE "closing",
                 app.managerClosed, app.coordinator, app.coordinatorStarted, app.osc, app.status, app.closeErr)
    BY <1>0, <1>9 DEF AppIs, AppType, Moves
  <2>2. StartInv' /\ TokenInv'
    BY <1>0, <1>9, <2>1 DEF AppIs, AppInv, TokenInv, StartInv, CloseInv, Starting, Closing, PartsDown, CloseRequested
  <2>3. CloseInv'
    <3>1. \A j \in Closer \ {k} : close'[j].at \notin {"osc", "join", "unplug", "finish"}
      BY <1>9, <2>1 DEF AppInv, TokenInv, Closing
    <3>2. /\ app'.life = app.life /\ app'.coordinator = app.coordinator /\ app'.osc = app.osc /\ app'.run = app.run
          /\ app.life = "closing" /\ app.osc = "down" /\ app.run # "live"
      BY <1>9, <2>1 DEF AppIs, AppInv, CloseInv, Closing
    <3> QED
      BY <1>9, <2>1, <3>1, <3>2 DEF AppInv, CloseInv, Closing, CloseRequested
  <2>4. AbandonedInv'
    BY <1>0, <1>9, <2>1 DEF AppIs, AppInv, CloseInv, AbandonedInv, Closing, CloseRequested
  <2>5. PartsInv'
    BY <1>0, <1>9, <2>1 DEF AppIs, AppInv, StartInv, TokenInv, PartsInv, CloseInv, Starting, Closing, CloseRequested
  <2> QED BY <2>2, <2>3, <2>4, <2>5 DEF AppInv
<1>10. CASE FinishClose(k) /\ Moves(k, "done") /\ Err
  <2>1. /\ Only("done") /\ close[k].at = "finish"
        /\ AppIs("closed", TRUE, app.run, app.manager, TRUE, app.coordinator, app.coordinatorStarted, app.osc,
                 "closed", close[k].err)
    BY <1>0, <1>10 DEF AppIs, AppType, Moves, FinishClose
  <2>2. StartInv' /\ TokenInv'
    BY <1>0, <1>10, <2>1 DEF AppIs, AppInv, TokenInv, StartInv, CloseInv, Starting, Closing, PartsDown, CloseRequested
  <2>3. CloseInv'
    BY <1>0, <1>10, <2>1 DEF AppIs, AppInv, TokenInv, CloseInv, PartsInv, Closing, CloseRequested
  <2>4. AbandonedInv'
    BY <1>0, <1>10, <2>1 DEF AppIs, AppInv, CloseInv, AbandonedInv, Closing, CloseRequested
  <2>5. PartsInv'
    BY <1>0, <1>10, <2>1 DEF AppIs, AppInv, StartInv, TokenInv, PartsInv, CloseInv, Starting, Closing, CloseRequested
  <2> QED BY <2>2, <2>3, <2>4, <2>5 DEF AppInv
<1>11. CASE /\ Expire(k) /\ app' = app
            /\ \A j \in Closer \ {k} : close'[j] = close[j]
            /\ close'[k].at = close[k].at /\ Err /\ close'[k].expired
  BY <1>0, <1>11 DEF AppInv, TokenInv, StartInv, PartsInv, CloseInv, AbandonedInv, Starting, Closing, PartsDown, CloseRequested
<1> QED
  BY CloseSteps, <1>1, <1>2, <1>3, <1>4, <1>5, <1>6, <1>7, <1>8, <1>9, <1>10, <1>11

LEMMA AppInvStep == AppTypes /\ AppInv /\ AppNext => AppInv'
<1> SUFFICES ASSUME AppTypes, AppInv, AppNext PROVE AppInv'
  OBVIOUS
<1> USE DEF AppInv, TokenInv, StartInv, PartsInv, CloseInv, AbandonedInv, Starting, Closing, PartsDown, CloseRequested
<1>1. CASE CallStart
  <2>1. /\ start.at = "idle" /\ start'.at = "acquire" /\ start'.ok = start.ok /\ start'.gaveUp = start.gaveUp
        /\ app' = app /\ close' = close
    BY <1>1 DEF CallStart, AppTypes, StartType
  <2> QED BY <2>1
<1>2. CASE EndStart
  <2>1. /\ start'.at = start.at /\ start'.ok = start.ok /\ start'.gaveUp = start.gaveUp
        /\ app' = app /\ close' = close
    BY <1>2 DEF EndStart, AppTypes, StartType
  <2> QED BY <2>1
<1>3. CASE CoordinatorEnds
  <2>1. /\ AppIs(app.life, app.token, app.run, app.manager, app.managerClosed, "down", app.coordinatorStarted, app.osc,
                 app.status, app.closeErr)
        /\ start' = start /\ close' = close /\ app.coordinator = "up"
    BY <1>3 DEF CoordinatorEnds, AppIs, AppTypes, AppType
  <2> QED BY <2>1 DEF AppIs
<1>4. CASE ManagerEnds
  <2>1. /\ AppIs(app.life, app.token, app.run, "down", app.managerClosed, app.coordinator, app.coordinatorStarted,
                 app.osc, app.status, app.closeErr)
        /\ start' = start /\ close' = close /\ app.manager = "closing"
    BY <1>4 DEF ManagerEnds, AppIs, AppTypes, AppType
  <2> QED BY <2>1 DEF AppIs
<1>5. CASE ReportErrors
  <2>1. /\ app.status # "closed" /\ start' = start /\ close' = close
        /\ AppIs(app.life, app.token, app.run, app.manager, app.managerClosed, app.coordinator,
                 app.coordinatorStarted, app.osc, app'.status, app.closeErr)
    BY <1>5 DEF ReportErrors, AppIs, AppTypes, AppType
  <2> QED BY <2>1 DEF AppIs
<1>6. CASE UNCHANGED appVars
  BY <1>6 DEF appVars
<1> QED BY <1>1, <1>2, <1>3, <1>4, <1>5, <1>6, StartKeeps, CloseKeeps DEF AppNext, AppStep

LEMMA AppIsInvariant == Spec => [](AppTypes /\ AppInv)
  BY AppTypesInit, AppTypesStep, AppInvInit, AppInvStep, NextIsAppNext, PTL DEF Spec

\* However Start and the calls of Close overlap, nothing is left running that
\* nobody is going to close.
THEOREM NothingStaysUp == Spec => []NothingLeftRunning
<1>1. AppTypes /\ AppInv => NothingLeftRunning
  <2> SUFFICES ASSUME AppTypes, AppInv PROVE NothingLeftRunning
    OBVIOUS
  <2> USE DEF AppInv, PartsInv, StartInv, AbandonedInv, CloseRequested, PartsDown
  <2>1. app.life = "closed" /\ ~app.closeErr => PartsDown /\ app.manager # "closing" /\ app.run # "live"
    OBVIOUS
  <2>2. ASSUME start.at = "done", ~start.ok, ~start.gaveUp, app.run # "none",
               \A k \in Closer : close[k].at \in {"idle", "done"} /\ ~close[k].expired
        PROVE  PartsDown
    BY <2>1, <2>2 DEF AppTypes, AppType, Lives, Starting
  <2> QED BY <2>1, <2>2 DEF NothingLeftRunning
<1> QED BY <1>1, AppIsInvariant, PTL

-----------------------------------------------------------------------------
(* The desktop. *)

\* The records and functions have their fields.
Shapes ==
    /\ DOMAIN root = {"life", "backend", "built"}
    /\ DOMAIN lists = {"accepting", "closed", "on", "next", "taken", "equal"}
    /\ DOMAIN watch = {"on", "seen", "taken"}
    /\ DOMAIN saves = {"closed", "loaded", "gate", "file", "call"} /\ DOMAIN saves.call = Saver
    /\ DOMAIN store = Module /\ DOMAIN store["runtime"] = {"phase", "status"}
    /\ DOMAIN fwd = Module /\ \A m \in Module : DOMAIN fwd[m] = {"at", "sent", "pending"}

LEMMA ShapesInit == Init => Shapes
  BY DEF Init, Shapes, Module

\* A snapshot is kept whether it is new or not.
LEMMA Kept ==
    ASSUME Shapes
    PROVE  /\ \A m \in Module : \A value : Update(m, value) =>
                 /\ DOMAIN store' = Module /\ store'[m] = value /\ \A n \in Module \ {m} : store'[n] = store[n]
                 /\ fwd' = fwd
           /\ \A value : SetRuntime(value) =>
                 /\ DOMAIN store' = Module /\ store'["runtime"] = value
                 /\ \A n \in Module \ {"runtime"} : store'[n] = store[n]
                 /\ fwd' = fwd
<1>1. ASSUME NEW m \in Module, NEW value, Update(m, value)
      PROVE  /\ DOMAIN store' = Module /\ store'[m] = value /\ \A n \in Module \ {m} : store'[n] = store[n]
             /\ fwd' = fwd
  BY <1>1 DEF Shapes, Update
<1>2. ASSUME NEW value, SetRuntime(value)
      PROVE  /\ DOMAIN store' = Module /\ store'["runtime"] = value
             /\ \A n \in Module \ {"runtime"} : store'[n] = store[n]
             /\ fwd' = fwd
  <2>1. CASE value = store["runtime"]
    BY <1>2, <2>1 DEF SetRuntime, uiVars, Shapes
  <2>2. CASE value # store["runtime"]
    BY <1>1, <1>2, <2>2 DEF SetRuntime, Module
  <2> QED BY <2>1, <2>2
<1> QED BY <1>1, <1>2

\* The runtime module has a phase and a status.
LEMMA RuntimeSet ==
    ASSUME Shapes
    PROVE  /\ \A phase : SetRootState(phase) =>
                 /\ DOMAIN store' = Module /\ DOMAIN store'["runtime"] = {"phase", "status"} /\ fwd' = fwd
                 /\ store'["runtime"].phase = phase /\ store'["runtime"].status = store["runtime"].status
                 /\ store'["settings"] = store["settings"]
           /\ \A status : SetApplicationStatus(status) =>
                 /\ DOMAIN store' = Module /\ DOMAIN store'["runtime"] = {"phase", "status"} /\ fwd' = fwd
                 /\ store'["runtime"].phase = store["runtime"].phase /\ store'["runtime"].status = status
                 /\ store'["settings"] = store["settings"]
           /\ \A status : SetRuntime([phase |-> "diagnostic", status |-> status]) =>
                 /\ DOMAIN store' = Module /\ DOMAIN store'["runtime"] = {"phase", "status"} /\ fwd' = fwd
                 /\ store'["settings"] = store["settings"]
<1>1. ASSUME NEW phase, SetRootState(phase)
      PROVE  /\ DOMAIN store' = Module /\ DOMAIN store'["runtime"] = {"phase", "status"} /\ fwd' = fwd
             /\ store'["runtime"].phase = phase /\ store'["runtime"].status = store["runtime"].status
             /\ store'["settings"] = store["settings"]
  <2> DEFINE value == [store["runtime"] EXCEPT !.phase = phase]
  <2>1. DOMAIN value = {"phase", "status"} /\ value.phase = phase /\ value.status = store["runtime"].status
    BY DEF Shapes
  <2>2. SetRuntime(value)
    BY <1>1, Zenon DEF SetRootState
  <2> HIDE DEF value
  <2> QED BY <2>1, <2>2, Kept DEF Module
<1>2. ASSUME NEW status, SetApplicationStatus(status)
      PROVE  /\ DOMAIN store' = Module /\ DOMAIN store'["runtime"] = {"phase", "status"} /\ fwd' = fwd
             /\ store'["runtime"].phase = store["runtime"].phase /\ store'["runtime"].status = status
             /\ store'["settings"] = store["settings"]
  <2> DEFINE value == [store["runtime"] EXCEPT !.status = status]
  <2>1. DOMAIN value = {"phase", "status"} /\ value.phase = store["runtime"].phase /\ value.status = status
    BY DEF Shapes
  <2>2. SetRuntime(value)
    BY <1>2, Zenon DEF SetApplicationStatus
  <2> HIDE DEF value
  <2> QED BY <2>1, <2>2, Kept DEF Module
<1>3. ASSUME NEW status, SetRuntime([phase |-> "diagnostic", status |-> status])
      PROVE  /\ DOMAIN store' = Module /\ DOMAIN store'["runtime"] = {"phase", "status"} /\ fwd' = fwd
             /\ store'["settings"] = store["settings"]
  <2> DEFINE value == [phase |-> "diagnostic", status |-> status]
  <2>1. DOMAIN value = {"phase", "status"}
    OBVIOUS
  <2> HIDE DEF value
  <2>2. SetRuntime(value)
    BY <1>3 DEF value
  <2> QED BY <2>1, <2>2, Kept DEF Module
<1> QED BY <1>1, <1>2, <1>3, Zenon

LEMMA StartupShapes ==
    ASSUME Shapes, StartupStep PROVE Shapes'
<1>0. "runtime" \in Module /\ "settings" \in Module /\ "plugins" \in Module /\ "runtime" # "settings" /\ "runtime" # "plugins"
  BY DEF Module
<1>1. ASSUME NEW status, EnterDiagnostic(status), UNCHANGED <<lists, watch, saves>> PROVE Shapes'
  <2>1. CASE root.life = "starting"
    <3>1. /\ root' = [root EXCEPT !.life = "diagnostic"]
          /\ SetRuntime([phase |-> "diagnostic", status |-> status])
      BY <1>1, <2>1, Zenon DEF EnterDiagnostic
    <3> QED BY <1>1, <3>1, RuntimeSet DEF Shapes
  <2>2. CASE root.life # "starting"
    BY <1>1, <2>2 DEF EnterDiagnostic, Shapes, uiVars
  <2> QED BY <2>1, <2>2
<1>2. CASE PublishStarting
  BY <1>2, RuntimeSet DEF PublishStarting, Shapes, pluginVars
<1>3. CASE StartForwarders
  BY <1>3 DEF StartForwarders, Shapes, pluginVars, Module
<1>4. CASE LoadFails
  <2>1. UNCHANGED <<lists, watch, saves>> /\ (EnterDiagnostic(None) \/ UNCHANGED <<root, uiVars>>)
    BY <1>4, Zenon DEF LoadFails, pluginVars
  <2> QED BY <1>1, <2>1 DEF Shapes, uiVars
<1>5. CASE LoadForStartup
  <2>1. UNCHANGED <<root, lists, watch>>
    BY <1>5, Zenon DEF LoadForStartup, pluginVars
  <2>2. CASE start.ended
    BY <1>5, <2>1, <2>2 DEF LoadForStartup, Shapes, uiVars
  <2>3. CASE ~start.ended
    <3>1. Update("settings", saves.file) /\ saves' = [saves EXCEPT !.loaded = TRUE]
      BY <1>5, <2>3, Zenon DEF LoadForStartup
    <3> QED BY <1>0, <2>1, <3>1, Kept DEF Shapes
  <2> QED BY <2>2, <2>3
<1>6. CASE SettingsInvalid
  BY <1>1, <1>6, Zenon DEF SettingsInvalid, pluginVars
<1>7. CASE NewBackend
  <2>1. /\ UNCHANGED <<lists, watch, saves>>
        /\ \/ EnterDiagnostic(None)
           \/ UNCHANGED <<root, uiVars>>
           \/ root' = [root EXCEPT !.backend = TRUE, !.built = TRUE] /\ UNCHANGED uiVars
    BY <1>7, Zenon DEF NewBackend, pluginVars
  <2> QED BY <1>1, <2>1 DEF Shapes, uiVars
<1>8. CASE StartBackend
  BY <1>8 DEF StartBackend, Shapes, pluginVars, uiVars
<1>9. CASE BackendStarted
  <2>1. UNCHANGED <<lists, watch, saves>> /\ (EnterDiagnostic(app.status) \/ UNCHANGED <<root, uiVars>>)
    BY <1>9, Zenon DEF BackendStarted, pluginVars
  <2> QED BY <1>1, <2>1 DEF Shapes, uiVars
<1>10. CASE AttachStatus
  BY <1>10, RuntimeSet DEF AttachStatus, Shapes, pluginVars
<1>11. CASE Attach
  <2> DEFINE on == ~start.ended
  <2>1. lists' = [lists EXCEPT !.accepting = on] /\ UNCHANGED <<root, watch, saves, uiVars>>
    BY <1>11, Zenon DEF Attach
  <2> HIDE DEF on
  <2> QED BY <2>1 DEF Shapes, uiVars
<1>12. CASE AttachPublishes
  <2>1. UNCHANGED <<root, lists, watch, saves>> /\ (Update("plugins", TheList) \/ UNCHANGED uiVars)
    BY <1>12, Zenon DEF AttachPublishes, pluginVars
  <2> QED BY <1>0, <2>1, Kept DEF Shapes, uiVars
<1>13. CASE SubscribePlugins
  <2>1. UNCHANGED <<root, watch, saves, uiVars>>
    BY <1>13, Zenon DEF SubscribePlugins
  <2> QED BY <1>13, <2>1 DEF SubscribePlugins, Shapes, uiVars
<1>14. CASE SubscribeStatus
  BY <1>14 DEF SubscribeStatus, Shapes, pluginVars, uiVars
<1>15. CASE Run
  <2>1. UNCHANGED <<lists, watch, saves>>
    BY <1>15, Zenon DEF Run, pluginVars
  <2>2. \/ root' = [root EXCEPT !.life = "running"] /\ SetRootState("running")
        \/ UNCHANGED <<root, uiVars>>
    BY <1>15, Zenon DEF Run
  <2> QED BY <2>1, <2>2, RuntimeSet DEF Shapes, uiVars
<1> QED
  BY <1>2, <1>3, <1>4, <1>5, <1>6, <1>7, <1>8, <1>9, <1>10, <1>11, <1>12, <1>13, <1>14, <1>15, Zenon DEF StartupStep

LEMMA WorkShapes ==
    ASSUME Shapes, Work PROVE Shapes'
<1>0. "settings" \in Module /\ "plugins" \in Module /\ "runtime" # "settings" /\ "runtime" # "plugins" /\ "runtime" \in Module
  BY DEF Module
<1>1. CASE ListAgain \/ ConsumeSnapshots \/ ConsumerStops
  <2>1. UNCHANGED <<root, watch, saves, uiVars>>
    BY <1>1, Zenon DEF ListAgain, ConsumeSnapshots, ConsumerStops
  <2> QED BY <1>1, <2>1 DEF ListAgain, ConsumeSnapshots, ConsumerStops, Shapes, uiVars
<1>2. CASE PublishTaken
  <2>1. /\ UNCHANGED <<root, watch, saves>>
        /\ \/ UNCHANGED uiVars /\ lists' = [lists EXCEPT !.taken = None]
           \/ Update("plugins", lists.taken) /\ lists' = [lists EXCEPT !.taken = None, !.equal = FALSE]
    BY <1>2, Zenon DEF PublishTaken
  <2>2. ASSUME Update("plugins", lists.taken)
        PROVE  DOMAIN store' = Module /\ store'["runtime"] = store["runtime"] /\ fwd' = fwd
    BY <1>0, <2>2, Kept
  <2> QED BY <2>1, <2>2 DEF Shapes, uiVars
<1>3. ASSUME NEW list, NEW equal, Publish(list, equal), UNCHANGED <<root, watch, saves>> PROVE Shapes'
  <2>1. \/ UNCHANGED <<uiVars, lists>>
        \/ Update("plugins", list) /\ lists' = [lists EXCEPT !.equal = equal]
    BY <1>3, Zenon DEF Publish
  <2> QED BY <1>0, <1>3, <2>1, Kept DEF Shapes, uiVars
<1>4. ASSUME NEW c \in Cmd, CmdStep(c) PROVE Shapes'
  <2>1. \/ UNCHANGED <<root, lists, watch, saves, uiVars>>
        \/ \E list, equal : Publish(list, equal) /\ UNCHANGED <<root, watch, saves>>
    BY <1>4, Zenon DEF CmdStep, Admit, Read, PublishEqual, CallBackend, RefreshBackend
  <2> QED BY <1>3, <2>1 DEF Shapes, uiVars
<1>5. ASSUME NEW s \in Saver, SaveFile(s) PROVE Shapes'
  BY <1>5 DEF SaveFile, Shapes, pluginVars, uiVars
<1>6. ASSUME NEW s \in Saver, PublishSaved(s) PROVE Shapes'
  BY <1>0, <1>6, Kept DEF PublishSaved, Shapes, pluginVars
<1>7. ASSUME NEW m \in Module, Forward(m) PROVE Shapes'
  BY <1>7 DEF Forward, Emit, Shapes, pluginVars
<1>8. ASSUME NEW m \in Module, ForwarderStops(m) PROVE Shapes'
  BY <1>8 DEF ForwarderStops, Shapes, pluginVars
<1> QED
  BY <1>1, <1>2, <1>4, <1>5, <1>6, <1>7, <1>8, Zenon DEF Work, ConsumerStep, SaveStep, ForwardStep

LEMMA ShapesStep == Shapes /\ [Next]_vars => Shapes'
<1> SUFFICES ASSUME Shapes, [Next]_vars PROVE Shapes'
  OBVIOUS
<1>1. CASE \/ Direct \/ Backend \/ CoordinatorReports \/ UNCHANGED vars
           \/ \E p \in Plugin : PluginChanges(p) \/ \E c \in Cmd, kind \in {"enable", "disable", "config"} : Call(c, p, kind)
  <2>1. UNCHANGED <<root, lists, watch, saves, uiVars>>
    BY <1>1, Zenon DEF Direct, Backend, CoordinatorReports, PluginChanges, Call, pluginVars, vars
  <2> QED BY <2>1 DEF Shapes, uiVars
<1>2. CASE Startup \/ Shutdown
  <2>1. /\ UNCHANGED <<lists, watch, saves, uiVars>>
        /\ \E life : root' = [root EXCEPT !.life = life]
    BY <1>2, Zenon DEF Startup, Shutdown, pluginVars
  <2> QED BY <2>1 DEF Shapes, uiVars
<1>3. CASE ShutdownStep
  <2>1. CASE AwaitStartup
    BY <2>1 DEF AwaitStartup, Shapes, uiVars
  <2>2. CASE JoinCommands
    BY <2>2 DEF JoinCommands, Shapes, pluginVars
  <2>3. CASE JoinForwarders
    BY <2>3 DEF JoinForwarders, Shapes, pluginVars, uiVars
  <2>4. CASE AwaitSave \/ BackendClosed \/ ShutdownEnds
    <3>1. /\ UNCHANGED <<lists, watch, saves>>
          /\ root' = root \/ root' = [root EXCEPT !.life = "closed"]
          /\ \/ \E phase : SetRootState(phase)
             \/ \E status : SetApplicationStatus(status)
      BY <2>4, Zenon DEF AwaitSave, BackendClosed, ShutdownEnds, pluginVars
    <3> QED BY <3>1, RuntimeSet DEF Shapes
  <2>5. ASSUME NEW k, CloseBackend(k) PROVE Shapes'
    BY <2>5 DEF CloseBackend, Shapes, pluginVars, uiVars
  <2> QED BY <1>3, <2>1, <2>2, <2>3, <2>4, <2>5, Zenon DEF ShutdownStep
<1>4. CASE WatchStep
  <2>1. CASE ConsumeStatus \/ WatchStops
    BY <2>1 DEF ConsumeStatus, WatchStops, Shapes, pluginVars, uiVars
  <2>2. CASE SetStatusTaken
    <3>1. /\ UNCHANGED <<root, lists, saves>> /\ watch' = [watch EXCEPT !.taken = None]
          /\ \E status : SetApplicationStatus(status)
      BY <2>2, Zenon DEF SetStatusTaken, pluginVars
    <3> QED BY <3>1, RuntimeSet DEF Shapes
  <2> QED BY <1>4, <2>1, <2>2 DEF WatchStep
<1>5. CASE Tick
  BY <1>5 DEF Tick, Emit, Shapes, pluginVars
<1>6. CASE \E s \in Saver : AdmitSave(s)
  BY <1>6 DEF AdmitSave, Shapes, pluginVars, uiVars
<1> QED
  BY <1>1, <1>2, <1>3, <1>4, <1>5, <1>6, StartupShapes, WorkShapes, Zenon DEF Next

\* The stages of shutdown after the commands and the consumers have ended.
Joined == {"forwarders", "settings", "close", "closing", "phase", "done"}

\* Startup and shutdown exclude each other from AwaitStartup on.
RootInv ==
    /\ su # "idle" => scenario.driver = "root" /\ root.life # "created"
    /\ sd # "idle" => scenario.driver = "root" /\ start.ended /\ root.life \in {"closing", "closed"}
    /\ root.life = "closed" => sd = "done"
    /\ sd \notin {"idle", "await"} => su \in {"idle", "done"} /\ lists.closed

LEMMA EndedStays ==
    ASSUME AppTypes, AppNext, start.ended PROVE start'.ended
<1> USE DEF AppTypes, StartType
<1>1. CASE StartStep
  <2>1. \/ start' = start \/ \E at : start' = [start EXCEPT !.at = at]
        \/ \E at : start' = [start EXCEPT !.at = at, !.gaveUp = TRUE]
        \/ \E ok : start' = [start EXCEPT !.at = "done", !.ok = ok]
    BY <1>1, Zenon DEF StartStep, AcquireStart, StartPlugins, StartCoordinator, AwaitReady, StartOSC, StartEnds, Rollback,
       RollbackJoins, RollbackPlugins, FailStart, StartReturns
  <2> QED BY <2>1
<1>2. CASE CallStart \/ EndStart
  BY <1>2 DEF CallStart, EndStart
<1>3. CASE CoordinatorEnds \/ ManagerEnds \/ ReportErrors \/ UNCHANGED appVars
  BY <1>3 DEF CoordinatorEnds, ManagerEnds, ReportErrors, appVars
<1>4. ASSUME NEW k \in Closer, CallClose(k) \/ CloseStep(k) \/ Expire(k) PROVE start'.ended
  BY <1>4, CloseSteps
<1> QED BY <1>1, <1>2, <1>3, <1>4 DEF AppNext, AppStep

\* What every step of startup has in common.
LEMMA StartupRoot ==
    ASSUME Shapes, StartupStep
    PROVE  /\ su \notin {"idle", "done"} /\ su' # "idle"
           /\ UNCHANGED <<sd, scenario, world, cmd>>
           /\ root'.life = root.life \/ (root.life = "starting" /\ root'.life \in {"diagnostic", "running"})
           /\ lists'.closed = lists.closed /\ lists'.taken = lists.taken
           /\ saves'.closed = saves.closed /\ saves'.gate = saves.gate /\ saves'.call = saves.call
           /\ watch'.taken = watch.taken /\ (watch.on => watch'.on)
<1>1. /\ su \notin {"idle", "done"} /\ su' # "idle"
      /\ UNCHANGED <<sd, scenario, world, cmd>>
  BY DEF StartupStep, PublishStarting, StartForwarders, LoadFails, LoadForStartup, SettingsInvalid, NewBackend, StartBackend,
     BackendStarted, AttachStatus, Attach, AttachPublishes, SubscribePlugins, SubscribeStatus, Run, EnterDiagnostic, Then,
     pluginVars
<1>2. \/ root' = root
      \/ \E life \in {"diagnostic", "running"} : root.life = "starting" /\ root' = [root EXCEPT !.life = life]
      \/ root' = [root EXCEPT !.backend = TRUE, !.built = TRUE]
  BY Zenon DEF StartupStep, PublishStarting, StartForwarders, LoadFails, LoadForStartup, SettingsInvalid, NewBackend,
     StartBackend, BackendStarted, AttachStatus, Attach, AttachPublishes, SubscribePlugins, SubscribeStatus, Run,
     EnterDiagnostic, Active
<1>3. root'.life = root.life \/ (root.life = "starting" /\ root'.life \in {"diagnostic", "running"})
  BY <1>2 DEF Shapes
<1>4. \/ UNCHANGED lists
      \/ \E on : lists' = [lists EXCEPT !.accepting = on]
      \/ lists' = [lists EXCEPT !.on = TRUE, !.next = TheList]
  BY Zenon DEF StartupStep, PublishStarting, StartForwarders, LoadFails, LoadForStartup, SettingsInvalid, NewBackend,
     StartBackend, BackendStarted, AttachStatus, Attach, AttachPublishes, SubscribePlugins, SubscribeStatus, Run,
     pluginVars
<1>5. lists'.closed = lists.closed /\ lists'.taken = lists.taken
  BY <1>4 DEF Shapes
<1>6. /\ saves' = saves \/ saves' = [saves EXCEPT !.loaded = TRUE]
      /\ watch' = watch \/ watch' = [watch EXCEPT !.on = TRUE]
  BY Zenon DEF StartupStep, PublishStarting, StartForwarders, LoadFails, LoadForStartup, SettingsInvalid, NewBackend,
     StartBackend, BackendStarted, AttachStatus, Attach, AttachPublishes, SubscribePlugins, SubscribeStatus, Run
<1>7. /\ saves'.closed = saves.closed /\ saves'.gate = saves.gate /\ saves'.call = saves.call
      /\ watch'.taken = watch.taken /\ (watch.on => watch'.on)
  BY <1>6 DEF Shapes
<1> QED BY <1>1, <1>3, <1>5, <1>7

\* What the work of the modules leaves alone.
LEMMA WorkRoot ==
    ASSUME Shapes, Work
    PROVE  UNCHANGED <<appVars, scenario, root, su, sd, watch>> /\ lists'.closed = lists.closed
<1>1. UNCHANGED <<appVars, scenario, root, su, sd, watch>>
  BY Zenon DEF Work, ConsumerStep, ListAgain, ConsumeSnapshots, PublishTaken, ConsumerStops, CmdStep, Admit, Read,
     PublishEqual, CallBackend, RefreshBackend, SaveStep, SaveFile, PublishSaved, ForwardStep, Forward, ForwarderStops
<1>2. \/ lists' = lists
      \/ \E list : lists' = [lists EXCEPT !.next = list]
      \/ \E next, taken : lists' = [lists EXCEPT !.next = next, !.taken = taken]
      \/ lists' = [lists EXCEPT !.taken = None]
      \/ lists' = [lists EXCEPT !.taken = None, !.equal = FALSE]
      \/ lists' = [lists EXCEPT !.on = FALSE, !.next = None]
      \/ \E equal : lists' = [lists EXCEPT !.equal = equal]
  BY Zenon DEF Work, ConsumerStep, ListAgain, ConsumeSnapshots, PublishTaken, ConsumerStops, CmdStep, Admit, Read,
     PublishEqual, CallBackend, RefreshBackend, Publish, SaveStep, SaveFile, PublishSaved, ForwardStep, Forward,
     ForwarderStops, pluginVars
<1>3. lists'.closed = lists.closed
  BY <1>2 DEF Shapes
<1> QED BY <1>1, <1>3

LEMMA RootInit == Init => RootInv
  BY DEF Init, RootInv, AppInit

LEMMA RootStep == AppTypes /\ Shapes /\ RootInv /\ [Next]_vars => RootInv'
<1> SUFFICES ASSUME AppTypes, Shapes, RootInv, [Next]_vars PROVE RootInv'
  OBVIOUS
<1>0. start.ended => start'.ended
  BY EndedStays, NextIsAppNext
<1>1. CASE Startup
  BY <1>1 DEF Startup, RootInv, Shapes, pluginVars, appVars
<1>2. CASE StartupStep
  BY <1>0, <1>2, StartupRoot DEF RootInv
<1>3. CASE Shutdown
  BY <1>3 DEF Shutdown, RootInv, Shapes, pluginVars, AppTypes, StartType
<1>4. CASE AwaitStartup
  BY <1>4 DEF AwaitStartup, RootInv, Shapes, appVars
<1>5. CASE JoinCommands \/ JoinForwarders \/ AwaitSave \/ BackendClosed \/ \E k : CloseBackend(k)
  <2>1. sd \notin {"idle", "await"} /\ sd' \notin {"idle", "await"} /\ sd # "done" /\ UNCHANGED <<scenario, root, su, lists>>
    BY <1>5 DEF JoinCommands, JoinForwarders, AwaitSave, BackendClosed, CloseBackend, pluginVars
  <2> QED BY <1>0, <2>1 DEF RootInv
<1>6. CASE ShutdownEnds
  BY <1>0, <1>6 DEF ShutdownEnds, RootInv, Shapes, pluginVars
<1>7. ASSUME UNCHANGED <<scenario, root, su, sd>>, lists'.closed = lists.closed PROVE RootInv'
  BY <1>0, <1>7 DEF RootInv
<1>8. CASE \/ Direct \/ Backend \/ CoordinatorReports \/ WatchStep \/ Tick \/ \E s \in Saver : AdmitSave(s)
           \/ \E p \in Plugin : PluginChanges(p) \/ \E c \in Cmd, kind \in {"enable", "disable", "config"} : Call(c, p, kind)
           \/ UNCHANGED vars
  <2>1. UNCHANGED <<scenario, root, su, sd, lists>>
    BY <1>8, Zenon DEF Direct, Backend, CoordinatorReports, WatchStep, ConsumeStatus, SetStatusTaken, WatchStops, Tick,
       AdmitSave, PluginChanges, Call, pluginVars, vars
  <2> QED BY <1>7, <2>1
<1>9. CASE Work
  BY <1>7, <1>9, WorkRoot
<1> QED
  BY <1>1, <1>2, <1>3, <1>4, <1>5, <1>6, <1>8, <1>9, Zenon DEF Next, ShutdownStep

\* From each stage of shutdown on what it awaited stays ended.
JoinInv ==
    /\ ~watch.on => watch.taken = None
    /\ sd \in Joined => (\A c \in Cmd : cmd[c].at = "idle") /\ ~lists.on /\ lists.taken = None /\ ~watch.on
    /\ sd \in Joined \ {"forwarders"} => saves.closed /\ \A m \in Module : fwd[m].at \in {"off", "done"}
    /\ sd \in Joined \ {"forwarders", "settings"} => saves.gate = None

LEMMA JoinInit == Init => JoinInv
  BY DEF Init, JoinInv, Joined

\* After the join nothing but saves and, until these are joined, forwarders work.
LEMMA JoinedWork ==
    ASSUME Shapes, RootInv, JoinInv, Work
    PROVE  JoinInv'
<1>1. UNCHANGED <<sd, watch>>
  BY WorkRoot
<1>2. CASE sd \notin Joined
  BY <1>1, <1>2 DEF JoinInv, Joined
<1>3. CASE sd \in Joined
  <2>0. (\A c \in Cmd : cmd[c].at = "idle") /\ ~lists.on /\ lists.taken = None
    BY <1>3 DEF JoinInv
  <2>1. ~ConsumerStep
    BY <2>0, Zenon DEF ConsumerStep, ListAgain, ConsumeSnapshots, PublishTaken, ConsumerStops
  <2>2. \A c \in Cmd : ~CmdStep(c)
    BY <2>0 DEF CmdStep, Admit, Read, PublishEqual, CallBackend, RefreshBackend
  <2>3. ASSUME NEW s \in Saver, SaveStep(s) PROVE JoinInv'
    <3>1. UNCHANGED <<cmd, lists, fwd>>
      BY <2>3 DEF SaveStep, SaveFile, PublishSaved, Update, pluginVars, uiVars
    <3>2. saves'.closed = saves.closed /\ (saves'.gate = saves.gate \/ saves'.gate = None)
      BY <2>3 DEF SaveStep, SaveFile, PublishSaved, Shapes
    <3> QED BY <1>1, <3>1, <3>2 DEF JoinInv, Joined
  <2>4. ASSUME NEW m \in Module, ForwardStep(m) PROVE JoinInv'
    <3>1. UNCHANGED <<cmd, lists, saves>>
      BY <2>4, Zenon DEF ForwardStep, Forward, ForwarderStops, pluginVars
    <3>2. fwd[m].at \in {"on", "stopping"}
      BY <2>4 DEF ForwardStep, Forward, ForwarderStops
    <3>3. sd = "forwarders"
      BY <1>3, <3>2 DEF JoinInv, Joined
    <3> QED BY <1>1, <3>1, <3>3 DEF JoinInv, Joined
  <2> QED BY <2>1, <2>2, <2>3, <2>4, Zenon DEF Work
<1> QED BY <1>2, <1>3

LEMMA JoinStep == Shapes /\ RootInv /\ JoinInv /\ [Next]_vars => JoinInv'
<1> SUFFICES ASSUME Shapes, RootInv, JoinInv, [Next]_vars PROVE JoinInv'
  OBVIOUS
<1>1. ASSUME UNCHANGED <<sd, cmd, lists, watch, fwd, saves>> PROVE JoinInv'
  BY <1>1 DEF JoinInv
<1>2. CASE Direct \/ Backend \/ CoordinatorReports \/ Startup \/ (\E p \in Plugin : PluginChanges(p)) \/ UNCHANGED vars
  <2>1. UNCHANGED <<sd, cmd, lists, watch, fwd, saves>>
    BY <1>2, Zenon DEF Direct, Backend, CoordinatorReports, Startup, PluginChanges, pluginVars, uiVars, vars
  <2> QED BY <1>1, <2>1
<1>3. CASE StartupStep
  <2>1. sd' = sd /\ sd \notin Joined
    BY <1>3, StartupRoot DEF RootInv, Joined
  <2>2. ~watch'.on => watch'.taken = None
    BY <1>3, StartupRoot DEF JoinInv
  <2> QED BY <2>1, <2>2 DEF JoinInv, Joined
<1>4. CASE Shutdown \/ AwaitStartup
  <2>1. sd' \notin Joined /\ UNCHANGED watch
    BY <1>4 DEF Shutdown, AwaitStartup, Joined
  <2> QED BY <2>1 DEF JoinInv, Joined
<1>5. CASE JoinCommands
  BY <1>5 DEF JoinCommands, JoinInv, Joined, pluginVars
<1>6. CASE JoinForwarders
  <2>1. saves'.closed /\ saves'.gate = saves.gate
    BY <1>6 DEF JoinForwarders, Shapes
  <2> QED BY <1>6, <2>1 DEF JoinForwarders, JoinInv, Joined, pluginVars, uiVars
<1>7. CASE AwaitSave
  <2>1. fwd' = fwd
    BY <1>7, RuntimeSet DEF AwaitSave
  <2> QED BY <1>7, <2>1 DEF AwaitSave, JoinInv, Joined, pluginVars
<1>8. CASE BackendClosed \/ ShutdownEnds \/ \E k : CloseBackend(k)
  <2>1. fwd' = fwd
    BY <1>8, RuntimeSet DEF BackendClosed, ShutdownEnds, CloseBackend, uiVars
  <2>2. UNCHANGED <<cmd, lists, watch, saves>>
    BY <1>8, Zenon DEF BackendClosed, ShutdownEnds, CloseBackend, pluginVars
  <2>3. {sd, sd'} \subseteq {"close", "closing", "phase", "done"}
    BY <1>8 DEF BackendClosed, ShutdownEnds, CloseBackend
  <2> QED BY <2>1, <2>2, <2>3 DEF JoinInv, Joined
<1>9. ASSUME NEW p, NEW c, NEW kind, Call(c, p, kind) PROVE JoinInv'
  <2>1. sd \notin Joined /\ sd' = sd /\ watch' = watch
    BY <1>9 DEF Call, Available, RootInv, Joined
  <2> QED BY <2>1 DEF JoinInv, Joined
<1>10. CASE WatchStep
  <2>1. UNCHANGED <<sd, cmd, lists, saves>>
    BY <1>10, Zenon DEF WatchStep, ConsumeStatus, SetStatusTaken, WatchStops, pluginVars
  <2>2. fwd' = fwd
    BY <1>10, RuntimeSet DEF WatchStep, ConsumeStatus, SetStatusTaken, WatchStops, uiVars
  <2>3. (~watch'.on => watch'.taken = None) /\ (watch'.on => watch.on)
    BY <1>10 DEF WatchStep, ConsumeStatus, SetStatusTaken, WatchStops, Shapes, JoinInv
  <2> QED BY <2>1, <2>2, <2>3 DEF JoinInv
<1>11. CASE Tick
  <2>1. fwd["plugins"].at = "on" /\ UNCHANGED <<sd, cmd, lists, watch, saves>>
    BY <1>11, Zenon DEF Tick, pluginVars
  <2>2. sd \notin Joined \/ sd = "forwarders"
    BY <2>1 DEF JoinInv, Joined, Module
  <2> QED BY <2>1, <2>2 DEF JoinInv, Joined
<1>12. ASSUME NEW s, AdmitSave(s) PROVE JoinInv'
  <2>1. ~saves.closed /\ UNCHANGED <<sd, cmd, lists, watch, fwd>>
    BY <1>12, Zenon DEF AdmitSave, pluginVars, uiVars
  <2>2. sd \notin Joined \/ sd = "forwarders"
    BY <2>1 DEF JoinInv, Joined
  <2> QED BY <2>1, <2>2 DEF JoinInv, Joined
<1> QED
  BY <1>2, <1>3, <1>4, <1>5, <1>6, <1>7, <1>8, <1>9, <1>10, <1>11, <1>12, JoinedWork, Zenon DEF Next, ShutdownStep

LEMMA DesktopIsInvariant == Spec => [](Shapes /\ RootInv /\ JoinInv)
  BY AppIsInvariant, ShapesInit, ShapesStep, RootInit, RootStep, JoinInit, JoinStep, PTL DEF Spec

\* When shutdown comes to the backend, no command is in it and no consumer
\* publishes what it says.
THEOREM CommandsEnd == Spec => []CommandsBeforeClose
<1>1. JoinInv => CommandsBeforeClose
  BY DEF JoinInv, Joined, CommandsBeforeClose
<1> QED BY <1>1, DesktopIsInvariant, PTL

\* A save holds the gate; what was loaded or saved is shown, or will be.
SaveInv ==
    /\ \A s \in Saver : saves.call[s] \in {"save", "publish"} => saves.gate = s
    /\ saves.loaded => store["settings"] = saves.file \/ \E s \in Saver : saves.call[s] = "publish"

LEMMA SaveInit == Init => SaveInv
  BY DEF Init, SaveInv

LEMMA SaveKept ==
    ASSUME SaveInv, store'["settings"] = store["settings"], saves'.call = saves.call, saves'.gate = saves.gate,
           saves'.loaded = saves.loaded, saves'.file = saves.file
    PROVE  SaveInv'
  BY DEF SaveInv

\* Lists and the status do not touch the settings.
LEMMA SettingsKept ==
    ASSUME Shapes
    PROVE  /\ \A value : Update("plugins", value) => store'["settings"] = store["settings"]
           /\ \A value : SetRuntime(value) => store'["settings"] = store["settings"]
           /\ \A status : SetApplicationStatus(status) => store'["settings"] = store["settings"]
           /\ \A phase : SetRootState(phase) => store'["settings"] = store["settings"]
           /\ \A status : EnterDiagnostic(status) => store'["settings"] = store["settings"]
           /\ \A list, equal : Publish(list, equal) => store'["settings"] = store["settings"]
<1>1. "plugins" \in Module /\ "settings" \in Module /\ "runtime" # "settings" /\ "plugins" # "settings"
  BY DEF Module
<1>2. ASSUME NEW value, Update("plugins", value) PROVE store'["settings"] = store["settings"]
  BY <1>1, <1>2, Kept
<1>3. ASSUME NEW value, SetRuntime(value) PROVE store'["settings"] = store["settings"]
  BY <1>1, <1>3, Kept
<1>4. ASSUME NEW status, EnterDiagnostic(status) PROVE store'["settings"] = store["settings"]
  <2>1. (\E value : SetRuntime(value)) \/ UNCHANGED uiVars
    BY <1>4, Zenon DEF EnterDiagnostic
  <2> QED BY <1>3, <2>1 DEF uiVars
<1>5. ASSUME NEW list, NEW equal, Publish(list, equal) PROVE store'["settings"] = store["settings"]
  <2>1. Update("plugins", list) \/ UNCHANGED uiVars
    BY <1>5, Zenon DEF Publish
  <2> QED BY <1>2, <2>1 DEF uiVars
<1>6. /\ \A status : SetApplicationStatus(status) => store'["settings"] = store["settings"]
      /\ \A phase : SetRootState(phase) => store'["settings"] = store["settings"]
  BY RuntimeSet
<1> QED BY <1>2, <1>3, <1>4, <1>5, <1>6, Zenon

LEMMA SaveSteps ==
    ASSUME Shapes, SaveInv, NEW s \in Saver, AdmitSave(s) \/ SaveFile(s) \/ PublishSaved(s)
    PROVE  SaveInv'
<1> USE DesktopAssumption DEF SaveInv, Shapes
<1>1. CASE AdmitSave(s)
  <2>1. /\ saves.gate = None /\ saves'.gate = s /\ saves'.call[s] = "save" /\ saves.call[s] = "idle"
        /\ \A r \in Saver \ {s} : saves'.call[r] = saves.call[r]
        /\ saves'.loaded = saves.loaded /\ saves'.file = saves.file
        /\ store' = store
    BY <1>1 DEF AdmitSave, uiVars
  <2> QED BY <2>1
<1>2. CASE SaveFile(s)
  <2>1. /\ saves.call[s] = "save" /\ saves'.loaded = saves.loaded /\ store' = store
        /\ \A r \in Saver \ {s} : saves'.call[r] = saves.call[r]
        /\ \/ saves'.call[s] = "publish" /\ saves'.gate = saves.gate
           \/ saves'.call[s] = "done" /\ saves'.gate = None /\ saves'.file = saves.file
    BY <1>2 DEF SaveFile, uiVars
  <2> QED BY <2>1
<1>3. CASE PublishSaved(s)
  <2>1. /\ saves.call[s] = "publish" /\ saves'.loaded = saves.loaded /\ saves'.file = saves.file
        /\ \A r \in Saver \ {s} : saves'.call[r] = saves.call[r]
        /\ saves'.call[s] = "done" /\ saves'.gate = None
    BY <1>3 DEF PublishSaved
  <2>2. store'["settings"] = saves.file
    BY <1>3, Kept DEF PublishSaved, Module
  <2> QED BY <2>1, <2>2
<1> QED BY <1>1, <1>2, <1>3

LEMMA SaveStepKeeps == Shapes /\ SaveInv /\ [Next]_vars => SaveInv'
<1> SUFFICES ASSUME Shapes, SaveInv, [Next]_vars PROVE SaveInv'
  OBVIOUS
<1>1. CASE LoadForStartup
  <2>1. CASE start.ended
    BY <1>1, <2>1, SaveKept DEF LoadForStartup, uiVars
  <2>2. CASE ~start.ended
    <3>1. Update("settings", saves.file) /\ saves' = [saves EXCEPT !.loaded = TRUE] /\ saves.gate = None
      BY <1>1, <2>2, Zenon DEF LoadForStartup
    <3>2. store'["settings"] = saves.file
      BY <3>1, Kept DEF Module
    <3>3. saves'.call = saves.call /\ saves'.gate = saves.gate /\ saves'.file = saves.file
      BY <3>1 DEF Shapes
    <3> QED BY <3>2, <3>3 DEF SaveInv
  <2> QED BY <2>1, <2>2
<1>2. CASE JoinForwarders
  <2>1. /\ saves'.call = saves.call /\ saves'.gate = saves.gate /\ saves'.loaded = saves.loaded
        /\ saves'.file = saves.file /\ store' = store
    BY <1>2 DEF JoinForwarders, Shapes, uiVars
  <2> QED BY <2>1, SaveKept
<1>3. ASSUME UNCHANGED saves, store'["settings"] = store["settings"] PROVE SaveInv'
  BY <1>3, SaveKept
<1>4. CASE StartupStep /\ ~LoadForStartup
  <2>1. UNCHANGED saves
    BY <1>4, Zenon DEF StartupStep, PublishStarting, StartForwarders, LoadFails, SettingsInvalid, NewBackend, StartBackend,
       BackendStarted, AttachStatus, Attach, AttachPublishes, SubscribePlugins, SubscribeStatus, Run
  <2>2. \/ store' = store
        \/ \E value : Update("plugins", value)
        \/ \E phase : SetRootState(phase)
        \/ \E status : SetApplicationStatus(status) \/ EnterDiagnostic(status)
    BY <1>4, Zenon DEF StartupStep, PublishStarting, StartForwarders, LoadFails, SettingsInvalid, NewBackend, StartBackend,
       BackendStarted, AttachStatus, Attach, AttachPublishes, SubscribePlugins, SubscribeStatus, Run, uiVars
  <2> QED BY <1>3, <2>1, <2>2, SettingsKept
<1>5. CASE Startup \/ Shutdown \/ Direct \/ Backend \/ CoordinatorReports \/ UNCHANGED vars \/ Tick
           \/ \E p \in Plugin : PluginChanges(p) \/ \E c \in Cmd, kind \in {"enable", "disable", "config"} : Call(c, p, kind)
  <2>1. UNCHANGED <<saves, store>>
    BY <1>5, Zenon DEF Startup, Shutdown, Direct, Backend, CoordinatorReports, Tick, PluginChanges, Call, uiVars, vars
  <2> QED BY <1>3, <2>1
<1>6. CASE ShutdownStep /\ ~JoinForwarders
  <2>1. /\ UNCHANGED saves
        /\ \/ store' = store
           \/ \E phase : SetRootState(phase)
           \/ \E status : SetApplicationStatus(status)
    BY <1>6, Zenon DEF ShutdownStep, AwaitStartup, JoinCommands, AwaitSave, BackendClosed, ShutdownEnds, CloseBackend,
       uiVars
  <2> QED BY <1>3, <2>1, SettingsKept
<1>7. CASE WatchStep
  <2>1. UNCHANGED saves /\ (store' = store \/ \E status : SetApplicationStatus(status))
    BY <1>7, Zenon DEF WatchStep, ConsumeStatus, SetStatusTaken, WatchStops, uiVars
  <2> QED BY <1>3, <2>1, SettingsKept
<1>8. CASE ConsumerStep \/ (\E c \in Cmd : CmdStep(c)) \/ (\E m \in Module : ForwardStep(m))
  <2>1. /\ UNCHANGED saves
        /\ \/ store' = store
           \/ \E value : Update("plugins", value)
           \/ \E list, equal : Publish(list, equal)
    BY <1>8, Zenon DEF ConsumerStep, ListAgain, ConsumeSnapshots, PublishTaken, ConsumerStops, CmdStep, Admit, Read,
       PublishEqual, CallBackend, RefreshBackend, ForwardStep, Forward, ForwarderStops, uiVars
  <2> QED BY <1>3, <2>1, SettingsKept
<1> QED
  BY <1>1, <1>2, <1>4, <1>5, <1>6, <1>7, <1>8, SaveSteps, Zenon DEF Next, Work, SaveStep

\* The caller of Close that shutdown is.
First == CHOOSE k \in Closer : TRUE

\* The root keeps the backend it built, starts it at most once, and closes it
\* by one call that nothing can abandon.
CallInv ==
    /\ root.built => root.backend
    /\ su = "start" => root.backend
    /\ scenario.driver = "root" =>
          /\ start.at # "idle" => root.backend
          /\ start.at \in {"idle", "done"} \/ su = "started"
          /\ \A k \in Closer :
                /\ close[k].at # "idle" => k = First /\ sd \in {"closing", "phase", "done"}
                /\ close[k].at \in {"idle", "acquire"} => ~close[k].expired
                /\ close[k].at = "done" => app.life = "closed"

\* What the runtime module shows at the end.
EndInv ==
    /\ sd \in {"phase", "done"} /\ root.backend => app.life = "closed" /\ store["runtime"].status = "closed"
    /\ sd = "done" /\ root.backend => store["runtime"] = [phase |-> "closed", status |-> "closed"]

LEMMA CallInit == Init => CallInv /\ EndInv
  BY DEF Init, AppInit, CallInv, EndInv

LEMMA ClosedStays ==
    ASSUME AppTypes, AppInv, AppNext, app.life = "closed" PROVE app'.life = "closed"
<1> USE DEF AppTypes, AppType
<1>1. CASE StartStep
  <2>1. \/ app'.life = app.life
        \/ start.at = "acquire" /\ app.life = "created"
        \/ start.at = "end" /\ app.life = "starting"
        \/ start.at = "fail"
    BY <1>1 DEF StartStep, AcquireStart, StartPlugins, StartCoordinator, AwaitReady, StartOSC, StartEnds, Rollback,
       RollbackJoins, RollbackPlugins, FailStart
  <2>2. start.at # "fail"
    BY DEF AppInv, StartInv, Starting
  <2> QED BY <2>1, <2>2
<1>2. CASE CallStart \/ EndStart \/ CoordinatorEnds \/ ManagerEnds \/ ReportErrors \/ UNCHANGED appVars
  BY <1>2 DEF CallStart, EndStart, CoordinatorEnds, ManagerEnds, ReportErrors, appVars
<1>3. ASSUME NEW k \in Closer, CallClose(k) \/ CloseStep(k) \/ Expire(k) PROVE app'.life = "closed"
  BY <1>3, CloseSteps DEF CloseOSC, FinishClose
<1> QED BY <1>1, <1>2, <1>3, Zenon DEF AppNext, AppStep

\* Lists and saves do not touch what the runtime module shows.
LEMMA WorkRuntime ==
    ASSUME Shapes, Work PROVE store'["runtime"] = store["runtime"]
<1>1. "runtime" \in Module \ {"plugins", "settings"} /\ "plugins" \in Module /\ "settings" \in Module
  BY DEF Module
<1>2. store' = store \/ (\E value : Update("plugins", value) \/ Update("settings", value))
  BY Zenon DEF Work, ConsumerStep, ListAgain, ConsumeSnapshots, PublishTaken, ConsumerStops, CmdStep, Admit, Read,
     PublishEqual, CallBackend, RefreshBackend, Publish, SaveStep, SaveFile, PublishSaved, ForwardStep, Forward,
     ForwarderStops, uiVars
<1> QED BY <1>1, <1>2, Kept

\* A step of Start is startup's; a step of Close is shutdown's, and since startup
\* is over the token is free for it.
LEMMA BackendCalls ==
    ASSUME AppTypes, AppInv, RootInv, CallInv, EndInv, Backend
    PROVE  CallInv' /\ EndInv'
<1>0. UNCHANGED <<scenario, root, su, sd, store>> /\ AppStep
  BY Zenon DEF Backend, uiVars
<1>1. app.life = "closed" => app'.life = "closed"
  BY <1>0, ClosedStays, Zenon DEF AppNext
<1>2. EndInv'
  BY <1>0, <1>1 DEF EndInv
<1>3. CASE scenario.driver # "root"
  BY <1>0, <1>2, <1>3 DEF CallInv
<1>4. ASSUME scenario.driver = "root", StartStep PROVE CallInv'
  <2>1. start.at \notin {"idle", "done"} /\ start'.at # "idle" /\ close' = close
    BY <1>4 DEF StartStep, AcquireStart, StartPlugins, StartCoordinator, AwaitReady, StartOSC, StartEnds, Rollback,
       RollbackJoins, RollbackPlugins, FailStart, StartReturns, FinishStartFailure, AppTypes, StartType
  <2> QED BY <1>0, <1>1, <1>4, <2>1 DEF CallInv
<1>5. ASSUME CoordinatorEnds \/ ManagerEnds PROVE CallInv'
  <2>1. UNCHANGED <<start, close>>
    BY <1>5, Zenon DEF CoordinatorEnds, ManagerEnds
  <2> QED BY <1>0, <1>1, <2>1 DEF CallInv
<1>6. ASSUME scenario.driver = "root", NEW k \in Closer, CloseStep(k) \/ Expire(k) PROVE CallInv'
  <2>1. close[k].at \notin {"idle", "done"}
    BY <1>6 DEF CloseStep, AcquireClose, CloseOSC, CloseJoins, ClosePlugins, FinishClose, Expire
  <2>2. k = First /\ sd \in {"closing", "phase", "done"}
    BY <1>6, <2>1 DEF CallInv
  <2>3. close[k].at = "acquire" => app.token /\ ~close[k].expired
    <3>1. start.at \in {"idle", "done"}
      BY <1>6, <2>2 DEF CallInv, RootInv
    <3>2. \A j \in Closer : j # k => close[j].at = "idle"
      BY <1>6, <2>2 DEF CallInv
    <3> QED BY <1>6, <3>1, <3>2 DEF CallInv, AppInv, TokenInv, Starting, Closing
  <2>4. start' = start /\ \A j \in Closer \ {k} : close'[j] = close[j]
    BY <1>6, CloseSteps, Zenon DEF Moves
  <2>5. close'[k].at \notin {"idle", "acquire"} /\ (close'[k].at = "done" => app'.life = "closed")
    <3>1. ~(Expire(k) /\ close[k].at = "acquire")
      BY <2>3, Zenon DEF Expire
    <3>2. FinishClose(k) => app'.life = "closed"
      BY DEF FinishClose, AppTypes, AppType
    <3> QED BY <1>6, <2>1, <2>3, <3>1, <3>2, CloseSteps DEF Moves
  <2> QED BY <1>0, <1>1, <1>6, <2>2, <2>4, <2>5 DEF CallInv
<1> QED BY <1>0, <1>2, <1>3, <1>4, <1>5, <1>6, Zenon DEF AppStep

LEMMA StartupCalls ==
    ASSUME AppTypes, Shapes, RootInv, CallInv, EndInv, StartupStep
    PROVE  CallInv' /\ EndInv'
<1>0. /\ UNCHANGED <<scenario, sd>> /\ su \notin {"idle", "done"}
      /\ (scenario.driver = "root" /\ sd \in {"idle", "await"}) \/ sd \notin {"closing", "phase", "done"}
  BY StartupRoot DEF RootInv
<1>1. scenario.driver = "root" /\ sd \notin {"closing", "phase", "done"}
  BY <1>0 DEF RootInv
<1>2. EndInv'
  BY <1>0, <1>1 DEF EndInv
<1>3. CASE StartBackend
  <2>1. /\ su = "start" /\ su' = "started" /\ root' = root /\ close' = close
        /\ start' = [start EXCEPT !.at = "acquire"] /\ app' = app
    BY <1>3, Zenon DEF StartBackend, CallStart
  <2> QED BY <1>0, <1>1, <1>2, <2>1 DEF CallInv
<1>4. CASE BackendStarted
  <2>1. /\ su' # "start" /\ start.at = "done" /\ UNCHANGED <<app, start, close>>
    BY <1>4 DEF BackendStarted, Then, EnterDiagnostic, appVars
  <2>2. root' = root \/ root' = [root EXCEPT !.life = "diagnostic"]
    BY <1>4, Zenon DEF BackendStarted, EnterDiagnostic
  <2>3. root'.built = root.built /\ root'.backend = root.backend
    BY <2>2 DEF Shapes
  <2> QED BY <1>0, <1>1, <1>2, <2>1, <2>3 DEF CallInv
<1>5. CASE NewBackend
  <2>1. su # "started" /\ UNCHANGED <<app, start, close>>
    BY <1>5 DEF NewBackend, appVars
  <2>2. \/ root' = [root EXCEPT !.backend = TRUE, !.built = TRUE]
        \/ su' = "done" /\ (root' = root \/ root' = [root EXCEPT !.life = "diagnostic"])
    BY <1>5, Zenon DEF NewBackend, EnterDiagnostic
  <2>3. \/ root'.built /\ root'.backend
        \/ su' = "done" /\ root'.built = root.built /\ root'.backend = root.backend
    BY <2>2 DEF Shapes
  <2> QED BY <1>0, <1>1, <1>2, <2>1, <2>3 DEF CallInv
<1>6. CASE StartupStep /\ ~StartBackend /\ ~BackendStarted /\ ~NewBackend
  <2>1. su' # "start" /\ su # "started" /\ UNCHANGED <<app, start, close>>
    BY <1>6 DEF StartupStep, PublishStarting, StartForwarders, LoadFails, LoadForStartup, SettingsInvalid, AttachStatus,
       Attach, AttachPublishes, SubscribePlugins, SubscribeStatus, Run, Then, EnterDiagnostic, appVars
  <2>2. root' = root \/ \E life : root' = [root EXCEPT !.life = life]
    BY <1>6, Zenon DEF StartupStep, PublishStarting, StartForwarders, LoadFails, LoadForStartup, SettingsInvalid,
       AttachStatus, Attach, AttachPublishes, SubscribePlugins, SubscribeStatus, Run, EnterDiagnostic
  <2>3. root'.built = root.built /\ root'.backend = root.backend
    BY <2>2 DEF Shapes
  <2> QED BY <1>0, <1>1, <1>2, <2>1, <2>3 DEF CallInv
<1> QED BY <1>2, <1>3, <1>4, <1>5, <1>6

LEMMA ShutdownCalls ==
    ASSUME AppTypes, AppInv, Shapes, RootInv, CallInv, EndInv, ShutdownStep
    PROVE  CallInv' /\ EndInv'
<1>0. scenario' = scenario /\ su' = su /\ sd # "idle"
  BY Zenon DEF ShutdownStep, AwaitStartup, JoinCommands, JoinForwarders, AwaitSave, CloseBackend, BackendClosed, ShutdownEnds
<1>1. scenario.driver = "root"
  BY <1>0 DEF RootInv
<1>2. CASE AwaitStartup \/ JoinCommands \/ JoinForwarders \/ AwaitSave
  <2>1. /\ UNCHANGED <<appVars, root>> /\ sd \notin {"closing", "phase", "done"}
        /\ sd' \notin {"closing", "done"} /\ (sd' = "phase" => ~root.backend)
    BY <1>2 DEF AwaitStartup, JoinCommands, JoinForwarders, AwaitSave
  <2> QED BY <1>0, <1>1, <2>1 DEF CallInv, EndInv, appVars
<1>3. CASE CloseBackend(First)
  <2>0. First \in Closer
    BY CloserAssumption DEF First
  <2>1. /\ CallClose(First) /\ sd = "close" /\ sd' = "closing" /\ root' = root
        /\ start' = start /\ (app.life = "closed" => app'.life = "closed")
    BY <1>3, CloseSteps, <2>0, ClosedStays DEF CloseBackend, AppNext
  <2>2. \A k \in Closer : close[k].at = "idle" /\ ~close[k].expired
    BY <1>1, <2>1 DEF CallInv
  <2>3. /\ \A k \in Closer \ {First} : close'[k] = close[k]
        /\ ~close'[First].expired /\ (close'[First].at = "done" => app'.life = "closed")
    BY <2>0, <2>1, <2>2, CloseSteps DEF Moves, CloseOSC, FinishClose, Expire
  <2> QED BY <1>0, <1>1, <2>1, <2>2, <2>3 DEF CallInv, EndInv
<1>4. CASE BackendClosed
  <2>1. /\ sd = "closing" /\ sd' = "phase" /\ UNCHANGED <<appVars, root>>
        /\ \E k \in Closer : close[k].at = "done"
        /\ SetApplicationStatus(app.status)
    BY <1>4, Zenon DEF BackendClosed
  <2>2. app.life = "closed" /\ app.status = "closed"
    BY <1>1, <2>1 DEF CallInv, AppInv, PartsInv
  <2>3. store'["runtime"].status = "closed"
    BY <2>1, <2>2, RuntimeSet
  <2> QED BY <1>0, <1>1, <2>1, <2>2, <2>3 DEF CallInv, EndInv, appVars
<1>5. CASE ShutdownEnds
  <2>1. /\ sd = "phase" /\ sd' = "done" /\ UNCHANGED appVars
        /\ SetRootState("closed") /\ root' = [root EXCEPT !.life = "closed"]
    BY <1>5, Zenon DEF ShutdownEnds
  <2>2. store'["runtime"] = [store["runtime"] EXCEPT !.phase = "closed"]
    BY <2>1, Kept, Zenon DEF SetRootState
  <2>3. root.backend => store'["runtime"] = [phase |-> "closed", status |-> "closed"]
    BY <2>1, <2>2 DEF Shapes, EndInv
  <2>4. root'.built = root.built /\ root'.backend = root.backend
    BY <2>1 DEF Shapes
  <2>5. sd' = "done" /\ root'.backend => app'.life = "closed" /\ store'["runtime"].status = "closed"
    BY <2>1, <2>3, <2>4 DEF EndInv, appVars
  <2> QED BY <1>0, <1>1, <2>1, <2>3, <2>4, <2>5 DEF CallInv, EndInv, appVars
<1> QED BY <1>2, <1>3, <1>4, <1>5, Zenon DEF ShutdownStep, First

LEMMA CallStep ==
    AppTypes /\ AppInv /\ Shapes /\ RootInv /\ JoinInv /\ CallInv /\ EndInv /\ [Next]_vars => CallInv' /\ EndInv'
<1> SUFFICES ASSUME AppTypes, AppInv, Shapes, RootInv, JoinInv, CallInv, EndInv, [Next]_vars
             PROVE  CallInv' /\ EndInv'
  OBVIOUS
<1>1. CASE Direct
  <2>1. scenario.driver = "direct" /\ UNCHANGED <<scenario, root, su, sd>>
    BY <1>1, Zenon DEF Direct
  <2> QED BY <2>1 DEF CallInv, EndInv, RootInv
<1>2. CASE CoordinatorReports
  <2>1. UNCHANGED <<scenario, root, su, sd, store, start, close>> /\ ReportErrors
    BY <1>2, Zenon DEF CoordinatorReports, ReportErrors, uiVars
  <2>2. app.life = "closed" => app'.life = "closed"
    BY <2>1, ClosedStays DEF AppNext
  <2> QED BY <2>1, <2>2 DEF CallInv, EndInv
<1>3. CASE Startup
  <2>1. /\ su = "idle" /\ su' = "phase" /\ root' = [root EXCEPT !.life = "starting"]
        /\ UNCHANGED <<scenario, sd, store, app, start, close>>
    BY <1>3, Zenon DEF Startup, uiVars, appVars
  <2>2. root'.built = root.built /\ root'.backend = root.backend
    BY <2>1 DEF Shapes
  <2> QED BY <2>1, <2>2 DEF CallInv, EndInv
<1>4. CASE Shutdown
  <2>1. /\ sd = "idle" /\ sd' = "await" /\ root' = [root EXCEPT !.life = "closing"]
        /\ start' = [start EXCEPT !.ended = TRUE] /\ UNCHANGED <<scenario, su, app, close>>
    BY <1>4, Zenon DEF Shutdown
  <2>2. root'.built = root.built /\ root'.backend = root.backend
    BY <2>1 DEF Shapes
  <2>3. start'.at = start.at
    BY <2>1 DEF AppTypes, StartType
  <2> QED BY <2>1, <2>2, <2>3 DEF CallInv, EndInv
<1>5. ASSUME UNCHANGED <<scenario, root, su, sd, app, start, close>>,
             sd \in {"phase", "done"} => store'["runtime"] = store["runtime"]
      PROVE  CallInv' /\ EndInv'
  BY <1>5 DEF CallInv, EndInv
<1>6. CASE WatchStep
  <2>1. UNCHANGED <<scenario, root, su, sd, app, start, close>>
    BY <1>6, Zenon DEF WatchStep, ConsumeStatus, SetStatusTaken, WatchStops, appVars
  <2>2. watch.on \/ watch.taken # None
    BY <1>6, Zenon DEF WatchStep, ConsumeStatus, SetStatusTaken, WatchStops
  <2>3. sd \notin {"phase", "done"}
    BY <2>2 DEF JoinInv, Joined
  <2> QED BY <1>5, <2>1, <2>3
<1>7. CASE \/ Tick \/ UNCHANGED vars \/ \E s \in Saver : AdmitSave(s)
           \/ \E p \in Plugin : PluginChanges(p) \/ \E c \in Cmd, kind \in {"enable", "disable", "config"} : Call(c, p, kind)
  <2>1. UNCHANGED <<scenario, root, su, sd, app, start, close, store>>
    BY <1>7, Zenon DEF Tick, AdmitSave, PluginChanges, Call, vars, appVars, uiVars
  <2> QED BY <1>5, <2>1
<1>8. CASE Work
  <2>1. UNCHANGED <<scenario, root, su, sd, app, start, close>>
    BY <1>8, WorkRoot DEF appVars
  <2> QED BY <1>5, <1>8, <2>1, WorkRuntime
<1> QED
  BY <1>1, <1>2, <1>3, <1>4, <1>6, <1>7, <1>8, BackendCalls, StartupCalls, ShutdownCalls, Zenon DEF Next

LEMMA EndIsInvariant == Spec => [](SaveInv /\ CallInv /\ EndInv)
  BY AppIsInvariant, DesktopIsInvariant, SaveInit, SaveStepKeeps, CallInit, CallStep, PTL DEF Spec

\* A shutdown that overtakes startup forgets neither the backend nor a saved
\* setting, and the last thing the runtime module shows is the end.
THEOREM ShutdownCompletes == Spec => []ShutdownIsComplete
<1>1. AppTypes /\ AppInv /\ Shapes /\ RootInv /\ JoinInv /\ SaveInv /\ CallInv /\ EndInv => ShutdownIsComplete
  <2> SUFFICES ASSUME AppTypes, AppInv, Shapes, RootInv, JoinInv, SaveInv, CallInv, EndInv, root.life = "closed"
               PROVE  /\ su \in {"idle", "done"}
                      /\ app.run # "none" \/ root.built =>
                            app.life = "closed" /\ store["runtime"] = [phase |-> "closed", status |-> "closed"]
                      /\ saves.loaded => store["settings"] = saves.file
    BY Zenon DEF ShutdownIsComplete
  <2>1. sd = "done" /\ scenario.driver = "root" /\ su \in {"idle", "done"}
    BY DEF RootInv
  <2>2. ASSUME app.run # "none" \/ root.built
        PROVE  app.life = "closed" /\ store["runtime"] = [phase |-> "closed", status |-> "closed"]
    <3>1. root.backend
      BY <2>1, <2>2 DEF CallInv, AppInv, StartInv
    <3> QED BY <2>1, <3>1 DEF EndInv
  <2>3. ASSUME saves.loaded PROVE store["settings"] = saves.file
    <3>1. saves.gate = None
      BY <2>1 DEF JoinInv, Joined
    <3> QED BY <2>3, <3>1, DesktopAssumption DEF SaveInv
  <2> QED BY <2>1, <2>2, <2>3
<1> QED BY <1>1, AppIsInvariant, DesktopIsInvariant, EndIsInvariant, PTL

-----------------------------------------------------------------------------
(* What the user interface is shown. *)

Snapshots(m) == CASE m = "runtime" -> RuntimeSnapshots [] m = "plugins" -> PluginLists [] OTHER -> Revisions

States == [enabled : BOOLEAN, config : 0 .. MaxConfig, rate : Rates]

\* The values the variables take.
Values ==
    /\ scenario \in Scenario /\ world \in [Plugin -> States]
    /\ lists.next \in PluginLists \cup {None} /\ lists.taken \in PluginLists \cup {None}
    /\ watch.seen \in Statuses \cup {None} /\ watch.taken \in Statuses \cup {None}
    /\ saves.file \in Revisions
    /\ \A m \in Module : store[m] \in Snapshots(m)

\* What a command has read.
CmdValues ==
    /\ DOMAIN cmd = Cmd
    /\ \A c \in Cmd :
          /\ DOMAIN cmd[c] = {"at", "plugin", "kind", "seen"}
          /\ cmd[c].at # "idle" => cmd[c].plugin \in Plugin
          /\ cmd[c].at = "equal" => cmd[c].seen \in PluginLists
          /\ cmd[c].at = "call" /\ cmd[c].kind = "config" => cmd[c].seen \in 0 .. (MaxConfig - 1)

Loaded == {"backend", "start", "started", "status", "attach", "publish", "consume", "watch", "run"}

\* How far startup is, and what it has done by then.
StageInv ==
    /\ sd = "idle" /\ scenario.driver = "root" => ~start.ended
    /\ sd = "idle" /\ su \notin {"idle", "done"} => root.life = "starting"
    /\ root.life = "running" => su = "done" /\ saves.loaded /\ store["runtime"].phase = "running" 
    /\ sd = "idle" /\ su \in Loaded => saves.loaded
    /\ sd = "idle" => ~lists.closed
    /\ sd = "idle" /\ (su \in {"publish", "consume"} \/ lists.on) => lists.accepting
    /\ sd = "idle" /\ (su \in {"watch", "run"} \/ root.life = "running") => lists.on
    /\ watch.on => su \in {"run", "done"}
    /\ lists.on => su \in {"watch", "run", "done"}
    /\ ~watch.on => watch.seen = None /\ watch.taken = None

WatchInv ==
    IF watch.taken # None THEN watch.taken = watch.seen
    ELSE watch.seen # None => store["runtime"].status = watch.seen

\* Unless an event waits, the newest list is on its way or published.
ListInv ==
    sd = "idle" /\ lists.on /\ ~event =>
       IF lists.next # None THEN lists.next = TheList
       ELSE IF lists.taken # None THEN lists.taken = TheList
       ELSE store["plugins"] = TheList \/ lists.equal

Responses(m) ==
    IF m = "plugins" THEN {[list |-> store[m], available |-> available] : available \in BOOLEAN} ELSE {store[m]}

\* The newest snapshot is on its way to the user interface, or was sent.
ForwardInv ==
    /\ DOMAIN src = Module
    /\ \A m \in Module : fwd[m].at = "on" =>
       \/ src[m] = store[m]
       \/ src[m] = None /\ m = "plugins" /\ fwd[m].pending = store[m]
       \/ src[m] = None /\ fwd[m].pending = None /\ fwd[m].sent \in Responses(m)

Steady == sd = "idle" /\ (su \in {"consume", "watch", "run"} \/ root.life = "running")

AnswerInv ==
    Steady /\ fwd["plugins"].at = "on" /\ src["plugins"] = None /\ fwd["plugins"].pending = None =>
       fwd["plugins"].sent.available = TRUE

LEMMA TheListIs == Values => TheList \in PluginLists
  BY DEF Values, States, TheList, PluginLists

\* A module gets a new snapshot.
Renews == \E m \in Module : \E value \in Snapshots(m) : Update(m, value)

LEMMA Renewals ==
    ASSUME Values
    PROVE  /\ \A value \in RuntimeSnapshots : SetRuntime(value) => UNCHANGED uiVars \/ Renews
           /\ \A phase \in RootPhases : SetRootState(phase) => UNCHANGED uiVars \/ Renews
           /\ \A status \in Statuses : SetApplicationStatus(status) => UNCHANGED uiVars \/ Renews
           /\ \A status \in Statuses \cup {None} : EnterDiagnostic(status) => UNCHANGED uiVars \/ Renews
           /\ \A list \in PluginLists : Update("plugins", list) => Renews
           /\ \A list \in PluginLists : \A equal : Publish(list, equal) => UNCHANGED uiVars \/ Renews
           /\ \A file \in Revisions : Update("settings", file) => Renews
<1>0. /\ "runtime" \in Module /\ "plugins" \in Module /\ "settings" \in Module
      /\ Snapshots("runtime") = RuntimeSnapshots /\ Snapshots("plugins") = PluginLists /\ Snapshots("settings") = Revisions
  BY DEF Module, Snapshots
<1>1. store["runtime"] \in RuntimeSnapshots
  BY <1>0 DEF Values
<1>2. ASSUME NEW value \in RuntimeSnapshots, SetRuntime(value) PROVE UNCHANGED uiVars \/ Renews
  BY <1>0, <1>2, Zenon DEF SetRuntime, Renews
<1>3. ASSUME NEW phase \in RootPhases, SetRootState(phase) PROVE UNCHANGED uiVars \/ Renews
  <2>1. [store["runtime"] EXCEPT !.phase = phase] \in RuntimeSnapshots
    BY <1>1 DEF RuntimeSnapshots
  <2> QED BY <1>2, <1>3, <2>1, Zenon DEF SetRootState
<1>4. ASSUME NEW status \in Statuses, SetApplicationStatus(status) PROVE UNCHANGED uiVars \/ Renews
  <2>1. [store["runtime"] EXCEPT !.status = status] \in RuntimeSnapshots
    BY <1>1 DEF RuntimeSnapshots
  <2> QED BY <1>2, <1>4, <2>1, Zenon DEF SetApplicationStatus
<1>5. ASSUME NEW status \in Statuses \cup {None}, EnterDiagnostic(status) PROVE UNCHANGED uiVars \/ Renews
  <2>1. [phase |-> "diagnostic", status |-> status] \in RuntimeSnapshots
    BY DEF RuntimeSnapshots, RootPhases
  <2>2. SetRuntime([phase |-> "diagnostic", status |-> status]) \/ UNCHANGED uiVars
    BY <1>5, Zenon DEF EnterDiagnostic
  <2> QED BY <1>2, <2>1, <2>2, Zenon
<1>6. ASSUME NEW list \in PluginLists, Update("plugins", list) PROVE Renews
  BY <1>0, <1>6, Zenon DEF Renews
<1>7. ASSUME NEW list \in PluginLists, NEW equal, Publish(list, equal) PROVE UNCHANGED uiVars \/ Renews
  <2>1. UNCHANGED uiVars \/ Update("plugins", list)
    BY <1>7, Zenon DEF Publish, uiVars
  <2> QED BY <1>6, <2>1
<1>8. ASSUME NEW file \in Revisions, Update("settings", file) PROVE Renews
  BY <1>0, <1>8, Zenon DEF Renews
<1> QED BY <1>2, <1>3, <1>4, <1>5, <1>6, <1>7, <1>8, Zenon

\* What the forwarders do by themselves.
Forwarding == StartForwarders \/ JoinCommands \/ Tick \/ \E m \in Module : ForwardStep(m)

LEMMA StoreMoves ==
    ASSUME AppTypes, Values, CmdValues, [Next]_vars PROVE UNCHANGED uiVars \/ Renews \/ Forwarding
<1>0. /\ app.status \in Statuses
      /\ {"starting", "running", "closing", "closed"} \subseteq RootPhases
      /\ TheList \in PluginLists /\ saves.file \in Revisions
  BY TheListIs DEF AppTypes, AppType, RootPhases, Values
<1>1. CASE StartupStep
  <2>1. \/ UNCHANGED uiVars \/ StartForwarders
        \/ SetRootState("starting") \/ SetRootState("running") \/ SetApplicationStatus(app.status)
        \/ \E status \in {None, app.status} : EnterDiagnostic(status)
        \/ Update("plugins", TheList) \/ Update("settings", saves.file)
    BY <1>1, Zenon DEF StartupStep, PublishStarting, LoadFails, LoadForStartup, SettingsInvalid, NewBackend, StartBackend,
       BackendStarted, AttachStatus, Attach, AttachPublishes, SubscribePlugins, SubscribeStatus, Run, uiVars
  <2> QED BY <1>0, <2>1, Renewals DEF Forwarding
<1>2. CASE ShutdownStep
  <2>1. \/ UNCHANGED uiVars \/ JoinCommands
        \/ SetRootState("closing") \/ SetRootState("closed") \/ SetApplicationStatus(app.status)
    BY <1>2, Zenon DEF ShutdownStep, AwaitStartup, JoinForwarders, AwaitSave, CloseBackend, BackendClosed, ShutdownEnds
  <2> QED BY <1>0, <2>1, Renewals DEF Forwarding
<1>3. CASE WatchStep
  <2>1. UNCHANGED uiVars \/ (watch.taken # None /\ SetApplicationStatus(watch.taken))
    BY <1>3, Zenon DEF WatchStep, ConsumeStatus, SetStatusTaken, WatchStops
  <2>2. watch.taken # None => watch.taken \in Statuses
    BY DEF Values
  <2> QED BY <2>1, <2>2, Renewals
<1>4. CASE ConsumerStep
  <2>1. UNCHANGED uiVars \/ (lists.taken # None /\ Update("plugins", lists.taken))
    BY <1>4, Zenon DEF ConsumerStep, ListAgain, ConsumeSnapshots, PublishTaken, ConsumerStops
  <2>2. lists.taken # None => lists.taken \in PluginLists
    BY DEF Values
  <2> QED BY <2>1, <2>2, Renewals
<1>5. ASSUME NEW c \in Cmd, CmdStep(c) PROVE UNCHANGED uiVars \/ Renews
  <2>1. \/ UNCHANGED uiVars \/ Publish(TheList, FALSE)
        \/ cmd[c].at = "equal" /\ Publish(cmd[c].seen, TRUE)
    BY <1>5, Zenon DEF CmdStep, Admit, Read, PublishEqual, CallBackend, RefreshBackend
  <2>2. cmd[c].at = "equal" => cmd[c].seen \in PluginLists
    BY DEF CmdValues
  <2> QED BY <1>0, <2>1, <2>2, Renewals
<1>6. ASSUME NEW s \in Saver, SaveStep(s) PROVE UNCHANGED uiVars \/ Renews
  <2>1. UNCHANGED uiVars \/ Update("settings", saves.file)
    BY <1>6, Zenon DEF SaveStep, SaveFile, PublishSaved
  <2> QED BY <1>0, <2>1, Renewals
<1>7. CASE Work
  BY <1>4, <1>5, <1>6, <1>7, Zenon DEF Work, Forwarding
<1>8. CASE \/ Direct \/ Backend \/ CoordinatorReports \/ Startup \/ Shutdown \/ UNCHANGED vars
           \/ \E p \in Plugin : PluginChanges(p) \/ \E c \in Cmd, kind \in {"enable", "disable", "config"} : Call(c, p, kind)
           \/ \E s \in Saver : AdmitSave(s)
  BY <1>8, Zenon DEF Direct, Backend, CoordinatorReports, Startup, Shutdown, PluginChanges, Call, AdmitSave, vars
<1>9. CASE Tick
  BY <1>9 DEF Forwarding
<1> QED
  BY <1>1, <1>2, <1>3, <1>7, <1>8, <1>9, Zenon DEF Next

LEMMA StoreValues ==
    ASSUME Shapes, Values, Renews PROVE \A m \in Module : store'[m] \in Snapshots(m)
<1>1. PICK m \in Module : \E value \in Snapshots(m) : Update(m, value)
  BY Zenon DEF Renews
<1>2. PICK value \in Snapshots(m) : Update(m, value)
  BY <1>1
<1>3. store'[m] = value /\ \A n \in Module \ {m} : store'[n] = store[n]
  BY <1>2, Kept
<1> QED BY <1>3 DEF Values

LEMMA WorldSteps ==
    ASSUME Values, CmdValues, [Next]_vars PROVE world' \in [Plugin -> States]
<1> USE DEF Values
<1>1. ASSUME NEW p \in Plugin, PluginChanges(p) PROVE world' \in [Plugin -> States]
  <2>1. world[p] \in States /\ world[p].rate \in Rates /\ scenario.changes \in Nat
    BY BoundAssumption DEF States
  <2>2. world[p].rate \in Nat
    BY <2>1, BoundAssumption DEF Rates
  <2>3. world[p].rate + 1 \in Rates
    BY <1>1, <2>1, <2>2 DEF PluginChanges, Rates
  <2> QED BY <1>1, <2>1, <2>3 DEF PluginChanges, States
<1>2. ASSUME NEW c \in Cmd, CallBackend(c) PROVE world' \in [Plugin -> States]
  <2> DEFINE p == cmd[c].plugin
             on == cmd[c].kind = "enable"
  <2>1. \/ world' = world
        \/ world' = [world EXCEPT ![p].enabled = on]
        \/ cmd[c].kind = "config" /\ cmd[c].at = "call" /\ world' = [world EXCEPT ![p].config = cmd[c].seen + 1]
    BY <1>2 DEF CallBackend
  <2>2. ASSUME NEW enabled \in BOOLEAN, world' = [world EXCEPT ![p].enabled = enabled]
        PROVE  world' \in [Plugin -> States]
    BY <2>2 DEF States
  <2>3. cmd[c].kind = "config" /\ cmd[c].at = "call" => cmd[c].seen + 1 \in 0 .. MaxConfig
    BY BoundAssumption DEF CmdValues
  <2>4. ASSUME NEW config \in 0 .. MaxConfig, world' = [world EXCEPT ![p].config = config]
        PROVE  world' \in [Plugin -> States]
    BY <2>4 DEF States
  <2>5. on \in BOOLEAN
    OBVIOUS
  <2> HIDE DEF on
  <2> QED BY <2>1, <2>2, <2>3, <2>4, <2>5
<1>3. \/ world' = world
      \/ \E p \in Plugin : PluginChanges(p)
      \/ \E c \in Cmd : CallBackend(c)
  BY Zenon DEF Next, Direct, Backend, CoordinatorReports, Startup, StartupStep, PublishStarting, StartForwarders, LoadFails,
     LoadForStartup, SettingsInvalid, NewBackend, StartBackend, BackendStarted, AttachStatus, Attach, AttachPublishes,
     SubscribePlugins, SubscribeStatus, Run, Shutdown, ShutdownStep, AwaitStartup, JoinCommands, JoinForwarders, AwaitSave,
     CloseBackend, BackendClosed, ShutdownEnds, Call, WatchStep, ConsumeStatus, SetStatusTaken, WatchStops, Tick, Work,
     ConsumerStep, ListAgain, ConsumeSnapshots, PublishTaken, ConsumerStops, CmdStep, Admit, Read, PublishEqual,
     RefreshBackend, SaveStep, SaveFile, PublishSaved, AdmitSave, ForwardStep, Forward, ForwarderStops, pluginVars, vars
<1> QED BY <1>1, <1>2, <1>3

LEMMA CmdSteps ==
    ASSUME Values, CmdValues, [Next]_vars PROVE CmdValues'
<1>1. ASSUME NEW c \in Cmd, NEW command, cmd' = [cmd EXCEPT ![c] = command],
             DOMAIN command = {"at", "plugin", "kind", "seen"}, command.at # "idle" => command.plugin \in Plugin,
             command.at = "equal" => command.seen \in PluginLists,
             command.at = "call" /\ command.kind = "config" => command.seen \in 0 .. (MaxConfig - 1)
      PROVE  CmdValues'
  BY <1>1 DEF CmdValues
<1>2. ASSUME NEW c \in Cmd, Release(c) PROVE CmdValues'
  BY <1>1, <1>2 DEF Release, Idle
<1>3. ASSUME NEW c \in Cmd, NEW p \in Plugin, NEW kind, Call(c, p, kind) PROVE CmdValues'
  <2> DEFINE command == [Idle EXCEPT !.at = "gate", !.plugin = p, !.kind = kind]
  <2>1. DOMAIN command = {"at", "plugin", "kind", "seen"} /\ command.at = "gate" /\ command.plugin = p
    BY DEF Idle
  <2>2. cmd' = [cmd EXCEPT ![c] = command]
    BY <1>3, Zenon DEF Call
  <2> HIDE DEF command
  <2> QED BY <1>1, <2>1, <2>2
<1>4. ASSUME NEW c \in Cmd, Admit(c) PROVE CmdValues'
  <2> DEFINE command == [cmd[c] EXCEPT !.at = "read"]
  <2>1. DOMAIN command = {"at", "plugin", "kind", "seen"} /\ command.at = "read" /\ command.plugin \in Plugin
    BY <1>4 DEF Admit, CmdValues
  <2>2. Release(c) \/ cmd' = [cmd EXCEPT ![c] = command]
    BY <1>4, Zenon DEF Admit
  <2> HIDE DEF command
  <2> QED BY <1>1, <1>2, <2>1, <2>2
<1>5. ASSUME NEW c \in Cmd, Read(c) PROVE CmdValues'
  <2> DEFINE w == world[cmd[c].plugin]
             command(at, value) == [cmd[c] EXCEPT !.at = at, !.seen = value]
  <2>1. \A at, value : /\ DOMAIN command(at, value) = {"at", "plugin", "kind", "seen"}
                      /\ command(at, value).at = at /\ command(at, value).seen = value /\ command(at, value).kind = cmd[c].kind
                      /\ command(at, value).plugin = cmd[c].plugin
    BY DEF CmdValues
  <2>2. \/ cmd[c].kind = "config" /\ w.config < MaxConfig /\ cmd' = [cmd EXCEPT ![c] = command("call", w.config)]
        \/ Release(c)
        \/ /\ cmd[c].kind # "config"
           /\ \/ cmd' = [cmd EXCEPT ![c] = command("equal", TheList)]
              \/ cmd' = [cmd EXCEPT ![c] = command("call", TheList)]
    BY <1>5 DEF Read
  <2>3. cmd[c].plugin \in Plugin
    BY <1>5 DEF Read, CmdValues
  <2>4. w.config < MaxConfig => w.config \in 0 .. (MaxConfig - 1)
    BY <2>3, BoundAssumption DEF Values, States
  <2>5. TheList \in PluginLists
    BY TheListIs
  <2> HIDE DEF command, w
  <2>6. CASE cmd[c].kind = "config" /\ w.config < MaxConfig /\ cmd' = [cmd EXCEPT ![c] = command("call", w.config)]
    <3> DEFINE next == command("call", w.config)
    <3>1. /\ DOMAIN next = {"at", "plugin", "kind", "seen"}
          /\ next.at = "call" /\ next.seen = w.config /\ next.kind = cmd[c].kind /\ next.plugin = cmd[c].plugin
      BY <2>1, Zenon
    <3>2. cmd' = [cmd EXCEPT ![c] = next]
      BY <2>6
    <3> HIDE DEF next
    <3> QED BY <1>1, <2>3, <2>4, <2>6, <3>1, <3>2
  <2>7. CASE cmd[c].kind # "config" /\ cmd' = [cmd EXCEPT ![c] = command("equal", TheList)]
    <3> DEFINE next == command("equal", TheList)
    <3>1. /\ DOMAIN next = {"at", "plugin", "kind", "seen"}
          /\ next.at = "equal" /\ next.seen = TheList /\ next.kind = cmd[c].kind /\ next.plugin = cmd[c].plugin
      BY <2>1, Zenon
    <3>2. cmd' = [cmd EXCEPT ![c] = next]
      BY <2>7
    <3> HIDE DEF next
    <3> QED BY <1>1, <2>3, <2>5, <2>7, <3>1, <3>2
  <2>8. CASE cmd[c].kind # "config" /\ cmd' = [cmd EXCEPT ![c] = command("call", TheList)]
    <3> DEFINE next == command("call", TheList)
    <3>1. /\ DOMAIN next = {"at", "plugin", "kind", "seen"}
          /\ next.at = "call" /\ next.seen = TheList /\ next.kind = cmd[c].kind /\ next.plugin = cmd[c].plugin
      BY <2>1, Zenon
    <3>2. cmd' = [cmd EXCEPT ![c] = next]
      BY <2>8
    <3> HIDE DEF next
    <3> QED BY <1>1, <2>3, <2>8, <3>1, <3>2
  <2> QED BY <1>2, <2>2, <2>6, <2>7, <2>8
<1>6. ASSUME NEW c \in Cmd, CallBackend(c) PROVE CmdValues'
  <2> DEFINE command == [cmd[c] EXCEPT !.at = "refresh", !.seen = None]
  <2>1. DOMAIN command = {"at", "plugin", "kind", "seen"} /\ command.at = "refresh" /\ command.plugin \in Plugin
    BY <1>6 DEF CallBackend, CmdValues
  <2>2. Release(c) \/ cmd' = [cmd EXCEPT ![c] = command]
    BY <1>6, Zenon DEF CallBackend, Release
  <2> HIDE DEF command
  <2> QED BY <1>1, <1>2, <2>1, <2>2
<1>7. \/ cmd' = cmd
      \/ \E c \in Cmd : Admit(c) \/ Read(c) \/ CallBackend(c) \/ Release(c)
      \/ \E c \in Cmd : \E p \in Plugin : \E kind : Call(c, p, kind)
  BY Zenon DEF Next, Direct, Backend, CoordinatorReports, Startup, StartupStep, PublishStarting, StartForwarders, LoadFails,
     LoadForStartup, SettingsInvalid, NewBackend, StartBackend, BackendStarted, AttachStatus, Attach, AttachPublishes,
     SubscribePlugins, SubscribeStatus, Run, Shutdown, ShutdownStep, AwaitStartup, JoinCommands, JoinForwarders, AwaitSave,
     CloseBackend, BackendClosed, ShutdownEnds, PluginChanges, WatchStep, ConsumeStatus, SetStatusTaken, WatchStops, Tick, Work,
     ConsumerStep, ListAgain, ConsumeSnapshots, PublishTaken, ConsumerStops, CmdStep, PublishEqual,
     RefreshBackend, SaveStep, SaveFile, PublishSaved, AdmitSave, ForwardStep, Forward, ForwarderStops, pluginVars, vars
<1> QED BY <1>2, <1>3, <1>4, <1>5, <1>6, <1>7 DEF CmdValues

LEMMA ValuesStep ==
    ASSUME AppTypes, Shapes, Values, CmdValues, [Next]_vars PROVE Values'
<1>1. scenario' = scenario
  BY Zenon DEF Next, Direct, Backend, CoordinatorReports, Startup, StartupStep, PublishStarting, StartForwarders, LoadFails,
     LoadForStartup, SettingsInvalid, NewBackend, StartBackend, BackendStarted, AttachStatus, Attach, AttachPublishes,
     SubscribePlugins, SubscribeStatus, Run, Shutdown, ShutdownStep, AwaitStartup, JoinCommands, JoinForwarders, AwaitSave,
     CloseBackend, BackendClosed, ShutdownEnds, PluginChanges, Call, WatchStep, ConsumeStatus, SetStatusTaken, WatchStops,
     Tick, Work, ConsumerStep, ListAgain, ConsumeSnapshots, PublishTaken, ConsumerStops, CmdStep, Admit, Read, PublishEqual,
     CallBackend, RefreshBackend, SaveStep, SaveFile, PublishSaved, AdmitSave, ForwardStep, Forward, ForwarderStops, vars
<1>2. \/ lists' = lists
      \/ \E accepting, closed : lists' = [lists EXCEPT !.accepting = accepting, !.closed = closed]
      \/ \E accepting : lists' = [lists EXCEPT !.accepting = accepting]
      \/ \E equal : lists' = [lists EXCEPT !.equal = equal]
      \/ \E on : lists' = [lists EXCEPT !.on = on, !.next = TheList]
      \/ \E on : lists' = [lists EXCEPT !.on = on, !.next = None]
      \/ lists' = [lists EXCEPT !.next = TheList]
      \/ lists' = [lists EXCEPT !.next = None, !.taken = lists.next]
      \/ lists' = [lists EXCEPT !.taken = None]
      \/ \E equal : lists' = [lists EXCEPT !.taken = None, !.equal = equal]
      \/ \E accepting, closed : lists' = [lists EXCEPT !.closed = closed, !.accepting = accepting]
  BY Zenon DEF Next, Direct, Backend, CoordinatorReports, Startup, StartupStep, PublishStarting, StartForwarders, LoadFails,
     LoadForStartup, SettingsInvalid, NewBackend, StartBackend, BackendStarted, AttachStatus, Attach, AttachPublishes,
     SubscribePlugins, SubscribeStatus, Run, Shutdown, ShutdownStep, AwaitStartup, JoinCommands, JoinForwarders, AwaitSave,
     CloseBackend, BackendClosed, ShutdownEnds, PluginChanges, Call, WatchStep, ConsumeStatus, SetStatusTaken, WatchStops,
     Tick, Work, ConsumerStep, ListAgain, ConsumeSnapshots, PublishTaken, ConsumerStops, CmdStep, Admit, Read, PublishEqual,
     CallBackend, RefreshBackend, Publish, SaveStep, SaveFile, PublishSaved, AdmitSave, ForwardStep, Forward, ForwarderStops,
     pluginVars, vars
<1>3. lists'.next \in PluginLists \cup {None} /\ lists'.taken \in PluginLists \cup {None}
  BY <1>2, TheListIs DEF Values, Shapes
<1>4. \/ watch' = watch
      \/ \E on : watch' = [watch EXCEPT !.on = on]
      \/ watch' = [watch EXCEPT !.seen = app.status, !.taken = app.status]
      \/ watch' = [watch EXCEPT !.taken = None]
      \/ \E on : watch' = [watch EXCEPT !.on = on, !.seen = None]
  BY Zenon DEF Next, Direct, Backend, CoordinatorReports, Startup, StartupStep, PublishStarting, StartForwarders, LoadFails,
     LoadForStartup, SettingsInvalid, NewBackend, StartBackend, BackendStarted, AttachStatus, Attach, AttachPublishes,
     SubscribePlugins, SubscribeStatus, Run, Shutdown, ShutdownStep, AwaitStartup, JoinCommands, JoinForwarders, AwaitSave,
     CloseBackend, BackendClosed, ShutdownEnds, PluginChanges, Call, WatchStep, ConsumeStatus, SetStatusTaken, WatchStops,
     Tick, Work, ConsumerStep, ListAgain, ConsumeSnapshots, PublishTaken, ConsumerStops, CmdStep, Admit, Read, PublishEqual,
     CallBackend, RefreshBackend, Publish, SaveStep, SaveFile, PublishSaved, AdmitSave, ForwardStep, Forward, ForwarderStops,
     vars
<1>5. watch'.seen \in Statuses \cup {None} /\ watch'.taken \in Statuses \cup {None}
  BY <1>4 DEF Values, Shapes, AppTypes, AppType
<1>6. \/ saves' = saves
      \/ \E s \in Saver : SaveFile(s) \/ PublishSaved(s) \/ AdmitSave(s)
      \/ LoadForStartup \/ JoinForwarders
  BY Zenon DEF Next, Direct, Backend, CoordinatorReports, Startup, StartupStep, PublishStarting, StartForwarders, LoadFails,
     SettingsInvalid, NewBackend, StartBackend, BackendStarted, AttachStatus, Attach, AttachPublishes,
     SubscribePlugins, SubscribeStatus, Run, Shutdown, ShutdownStep, AwaitStartup, JoinCommands, AwaitSave,
     CloseBackend, BackendClosed, ShutdownEnds, PluginChanges, Call, WatchStep, ConsumeStatus, SetStatusTaken, WatchStops,
     Tick, Work, ConsumerStep, ListAgain, ConsumeSnapshots, PublishTaken, ConsumerStops, CmdStep, Admit, Read, PublishEqual,
     CallBackend, RefreshBackend, Publish, SaveStep, ForwardStep, Forward, ForwarderStops, vars
<1>7. saves'.file \in Revisions
  <2>1. ASSUME NEW s \in Saver, SaveFile(s) \/ PublishSaved(s) \/ AdmitSave(s)
        PROVE  saves'.file = saves.file \/ saves'.file = saves.file + 1
    BY <2>1 DEF SaveFile, PublishSaved, AdmitSave, Shapes
  <2>2. ASSUME LoadForStartup \/ JoinForwarders PROVE saves'.file = saves.file
    BY <2>2 DEF LoadForStartup, JoinForwarders, Shapes
  <2> QED BY <1>6, <2>1, <2>2 DEF Values, Revisions
<1>8. \A m \in Module : store'[m] \in Snapshots(m)
  <2>1. CASE UNCHANGED uiVars \/ Forwarding
    <3>1. store' = store
      BY <2>1, Zenon DEF Forwarding, StartForwarders, JoinCommands, Tick, ForwardStep, Forward, ForwarderStops, uiVars
    <3> QED BY <3>1 DEF Values
  <2>2. CASE Renews
    BY <2>2, StoreValues
  <2> QED BY <2>1, <2>2, StoreMoves
<1> QED BY <1>1, <1>3, <1>5, <1>7, <1>8, WorldSteps DEF Values

LEMMA ValuesInit == Init => Values /\ CmdValues
<1> SUFFICES ASSUME Init PROVE Values /\ CmdValues
  OBVIOUS
<1>1. store["runtime"] \in RuntimeSnapshots /\ store["plugins"] \in PluginLists /\ store["settings"] \in Revisions
  BY DEF Init, Module, RuntimeSnapshots, RootPhases, PluginLists, Revisions
<1>2. scenario \in Scenario /\ world \in [Plugin -> States]
  BY BoundAssumption DEF Init, States, Rates
<1>3. lists.next = None /\ lists.taken = None /\ watch.seen = None /\ watch.taken = None /\ saves.file = 1
  BY DEF Init
<1>4. CmdValues
  BY DEF Init, CmdValues, Idle
<1> QED BY <1>1, <1>2, <1>3, <1>4 DEF Values, Snapshots, Module, Revisions

LEMMA ValuesAreInvariant == Spec => [](Values /\ CmdValues)
<1>1. AppTypes /\ Shapes /\ Values /\ CmdValues /\ [Next]_vars => Values' /\ CmdValues'
  BY ValuesStep, CmdSteps
<1> QED BY <1>1, ValuesInit, AppIsInvariant, DesktopIsInvariant, PTL DEF Spec

LEMMA StageInit == Init => StageInv
  BY DEF Init, AppInit, StageInv, Loaded

\* Only shutdown, or who drives the application alone, ends the context of Start.
LEMMA EndedKept ==
    ASSUME AppTypes, AppStep \/ CallStart \/ ReportErrors PROVE start'.ended = start.ended
<1> USE DEF AppTypes, StartType
<1>1. CASE StartStep
  <2>1. \/ start' = start \/ \E at : start' = [start EXCEPT !.at = at]
        \/ \E at : start' = [start EXCEPT !.at = at, !.gaveUp = TRUE]
        \/ \E ok : start' = [start EXCEPT !.at = "done", !.ok = ok]
    BY <1>1, Zenon DEF StartStep, AcquireStart, StartPlugins, StartCoordinator, AwaitReady, StartOSC, StartEnds, Rollback,
       RollbackJoins, RollbackPlugins, FailStart, StartReturns
  <2> QED BY <2>1
<1>2. CASE CallStart
  BY <1>2 DEF CallStart
<1>3. CASE CoordinatorEnds \/ ManagerEnds \/ ReportErrors
  BY <1>3 DEF CoordinatorEnds, ManagerEnds, ReportErrors
<1>4. ASSUME NEW k \in Closer, CloseStep(k) \/ Expire(k) PROVE start'.ended = start.ended
  BY <1>4, CloseSteps
<1> QED BY <1>1, <1>2, <1>3, <1>4 DEF AppStep

LEMMA StartupStages ==
    ASSUME AppTypes, Shapes, RootInv, StageInv, StartupStep PROVE StageInv'
<1>0. /\ su \notin {"idle", "done"} /\ UNCHANGED <<sd, scenario>> /\ scenario.driver = "root"
      /\ root'.life = root.life \/ (root.life = "starting" /\ root'.life \in {"diagnostic", "running"})
      /\ lists'.closed = lists.closed
  BY StartupRoot DEF RootInv
<1>1. start'.ended = start.ended
  <2>1. start' = start \/ CallStart
    BY Zenon DEF StartupStep, PublishStarting, StartForwarders, LoadFails, LoadForStartup, SettingsInvalid, NewBackend,
       StartBackend, BackendStarted, AttachStatus, Attach, AttachPublishes, SubscribePlugins, SubscribeStatus, Run, appVars
  <2> QED BY <2>1, EndedKept
<1>2. root.life # "running"
  BY <1>0 DEF StageInv
<1>3. sd = "idle" => Active
  BY <1>0 DEF StageInv, Active
\* What becomes of a step that leaves lists, saves and the status consumer alone.
<1>4. ASSUME UNCHANGED <<lists, watch, saves>>, root'.life = root.life, Then(su'), su' # "idle",
             su \in Loaded \/ su' \notin Loaded,
             su' \in {"publish", "consume"} => su \in {"publish", "consume"}, su' \notin {"watch", "run"}, su \notin {"watch", "run"}
      PROVE  StageInv'
  BY <1>0, <1>1, <1>2, <1>3, <1>4 DEF StageInv, Then
<1>5. ASSUME UNCHANGED <<lists, watch, saves>>, root'.life = root.life \/ root'.life = "diagnostic", su' = "done", su \notin {"watch", "run"}
      PROVE  StageInv'
  BY <1>0, <1>1, <1>2, <1>5 DEF StageInv, Loaded
<1> USE DEF Loaded
<1>6. ASSUME NEW status, EnterDiagnostic(status), UNCHANGED <<lists, watch, saves>>, su \notin {"watch", "run"} PROVE StageInv'
  <2>1. root'.life = root.life \/ root'.life = "diagnostic"
    BY <1>6 DEF EnterDiagnostic, Shapes
  <2> QED BY <1>5, <1>6, <2>1 DEF EnterDiagnostic
<1>10. CASE PublishStarting
  BY <1>4, <1>10 DEF PublishStarting, Then, pluginVars
<1>11. CASE StartForwarders
  BY <1>4, <1>11 DEF StartForwarders, Then, pluginVars
<1>12. CASE LoadFails \/ SettingsInvalid
  <2>1. /\ EnterDiagnostic(None) \/ (su' = "done" /\ UNCHANGED <<root, uiVars>>)
        /\ UNCHANGED <<lists, watch, saves>> /\ su \in {"settings", "invalid"}
    BY <1>12, Zenon DEF LoadFails, SettingsInvalid, pluginVars
  <2> QED BY <1>5, <1>6, <2>1
<1>13. CASE LoadForStartup
  <2>1. /\ UNCHANGED <<root, lists, watch>> /\ su = "settings"
        /\ su' \in {"backend", "invalid", "done"}
        /\ saves'.loaded = saves.loaded \/ saves'.loaded = TRUE
        /\ ~start.ended => saves'.loaded
        /\ su' # "done" => Active
    BY <1>13 DEF LoadForStartup, Then, Shapes, pluginVars
  <2> QED BY <1>0, <1>1, <1>2, <1>3, <2>1 DEF StageInv, Active
<1>14. CASE NewBackend
  <2>1. /\ UNCHANGED <<lists, watch, saves>> /\ su = "backend"
        /\ \/ EnterDiagnostic(None) \/ (su' = "done" /\ UNCHANGED root)
           \/ root' = [root EXCEPT !.backend = TRUE, !.built = TRUE] /\ Then("start")
    BY <1>14, Zenon DEF NewBackend, pluginVars
  <2>2. CASE root' = [root EXCEPT !.backend = TRUE, !.built = TRUE] /\ Then("start")
    <3>1. root'.life = root.life
      BY <2>2 DEF Shapes
    <3> QED BY <1>4, <2>1, <2>2, <3>1 DEF Then
  <2> QED BY <1>5, <1>6, <2>1, <2>2
<1>15. CASE StartBackend
  <2>1. UNCHANGED <<root, lists, watch, saves>> /\ su = "start" /\ su' = "started"
    BY <1>15, Zenon DEF StartBackend, pluginVars
  <2> QED BY <1>0, <1>1, <1>2, <2>1 DEF StageInv
<1>16. CASE BackendStarted
  <2>1. /\ UNCHANGED <<lists, watch, saves>> /\ su = "started"
        /\ EnterDiagnostic(app.status) \/ (Then("status") /\ UNCHANGED root)
    BY <1>16, Zenon DEF BackendStarted, pluginVars
  <2> QED BY <1>4, <1>6, <2>1 DEF Then
<1>17. CASE AttachStatus
  BY <1>4, <1>17 DEF AttachStatus, Then, pluginVars
<1>18. CASE Attach
  <2>1. /\ UNCHANGED <<root, watch, saves>> /\ su = "attach"
        /\ su' = IF start.ended THEN "done" ELSE "publish"
        /\ lists'.accepting = ~start.ended /\ lists'.on = lists.on
    BY <1>18 DEF Attach, Shapes
  <2> QED BY <1>0, <1>1, <1>2, <1>3, <2>1 DEF StageInv, Active
<1>19. CASE AttachPublishes
  BY <1>4, <1>19 DEF AttachPublishes, Then, pluginVars
<1>20. CASE SubscribePlugins
  <2>1. /\ UNCHANGED <<root, watch, saves>> /\ su = "consume" /\ Then("watch")
        /\ \/ Active /\ lists'.on = TRUE /\ lists'.accepting = lists.accepting
           \/ ~Active /\ lists' = lists
    BY <1>20 DEF SubscribePlugins, Shapes
  <2> QED BY <1>0, <1>1, <1>2, <1>3, <2>1 DEF StageInv, Active, Then
<1>21. CASE SubscribeStatus
  <2>1. /\ UNCHANGED <<root, lists, saves>> /\ su = "watch" /\ Then("run")
        /\ \/ Active /\ watch'.on = TRUE /\ watch'.seen = watch.seen /\ watch'.taken = watch.taken
           \/ ~Active /\ watch' = watch
    BY <1>21 DEF SubscribeStatus, Shapes, pluginVars
  <2> QED BY <1>0, <1>1, <1>2, <1>3, <2>1 DEF StageInv, Active, Then
<1>22. CASE Run
  <2>1. UNCHANGED <<lists, watch, saves>> /\ su = "run" /\ su' = "done"
    BY <1>22, Zenon DEF Run, pluginVars
  <2>2. CASE Active
    <3>1. root'.life = "running" /\ SetRootState("running")
      BY <1>22, <2>2 DEF Run, Shapes
    <3>2. store'["runtime"].phase = "running"
      BY <3>1, RuntimeSet
    <3>3. sd = "idle"
      BY <1>0, <2>2 DEF Active, RootInv
    <3> QED BY <1>0, <1>1, <2>1, <3>1, <3>2, <3>3 DEF StageInv
  <2>3. CASE ~Active
    <3>1. UNCHANGED root /\ sd # "idle"
      BY <1>3, <1>22, <2>3 DEF Run
    <3> QED BY <1>0, <1>1, <1>2, <2>1, <3>1 DEF StageInv
  <2> QED BY <2>2, <2>3
<1> QED
  BY <1>10, <1>11, <1>12, <1>13, <1>14, <1>15, <1>16, <1>17, <1>18, <1>19, <1>20, <1>21, <1>22, Zenon DEF StartupStep

\* What the work of the modules leaves alone of this.
LEMMA WorkStages ==
    ASSUME Shapes, RootInv, StageInv, Work PROVE StageInv'
<1>0. /\ UNCHANGED <<start, scenario, root, su, sd, watch>> /\ lists'.closed = lists.closed
      /\ store'["runtime"] = store["runtime"]
  BY WorkRoot, WorkRuntime DEF appVars
<1>1. \/ lists' = lists
      \/ \E list : lists' = [lists EXCEPT !.next = list]
      \/ \E next, taken : lists' = [lists EXCEPT !.next = next, !.taken = taken]
      \/ lists' = [lists EXCEPT !.taken = None]
      \/ lists' = [lists EXCEPT !.taken = None, !.equal = FALSE]
      \/ lists.on /\ SessionEnded /\ lists' = [lists EXCEPT !.on = FALSE, !.next = None]
      \/ \E equal : lists' = [lists EXCEPT !.equal = equal]
  BY Zenon DEF Work, ConsumerStep, ListAgain, ConsumeSnapshots, PublishTaken, ConsumerStops, CmdStep, Admit, Read,
     PublishEqual, CallBackend, RefreshBackend, Publish, SaveStep, SaveFile, PublishSaved, ForwardStep, Forward,
     ForwarderStops, pluginVars
<1>2. saves'.loaded = saves.loaded
  <2>0. saves' = saves \/ \E s \in Saver : SaveStep(s)
    BY Zenon DEF Work, ConsumerStep, ListAgain, ConsumeSnapshots, PublishTaken, ConsumerStops, CmdStep, Admit, Read,
       PublishEqual, CallBackend, RefreshBackend, ForwardStep, Forward, ForwarderStops
  <2>1. ASSUME NEW s \in Saver, SaveStep(s) PROVE saves'.loaded = saves.loaded
    BY <2>1 DEF SaveStep, SaveFile, PublishSaved, Shapes
  <2> QED BY <2>0, <2>1
<1>3. CASE lists'.on = lists.on /\ lists'.accepting = lists.accepting
  BY <1>0, <1>2, <1>3 DEF StageInv
<1>4. CASE lists.on /\ SessionEnded /\ lists' = [lists EXCEPT !.on = FALSE, !.next = None]
  <2>1. ~lists'.on /\ sd # "idle"
    BY <1>4 DEF StageInv, RootInv, SessionEnded, Shapes
  <2> QED BY <1>0, <1>2, <2>1 DEF StageInv
<1> QED BY <1>1, <1>3, <1>4 DEF Shapes

LEMMA StageStep == AppTypes /\ Shapes /\ RootInv /\ StageInv /\ [Next]_vars => StageInv'
<1> SUFFICES ASSUME AppTypes, Shapes, RootInv, StageInv, [Next]_vars PROVE StageInv'
  OBVIOUS
<1>1. ASSUME UNCHANGED <<scenario, su, sd, lists>>, start'.ended = start.ended, root'.life = root.life, saves'.loaded = saves.loaded,
             store'["runtime"].phase = store["runtime"].phase,
             watch'.on => watch.on, ~watch'.on => watch'.seen = None /\ watch'.taken = None
      PROVE  StageInv'
  BY <1>1 DEF StageInv
<1>2. CASE Direct
  <2>1. scenario.driver = "direct" /\ UNCHANGED <<scenario, root, su, sd, lists, watch, saves, store>>
    BY <1>2, Zenon DEF Direct, pluginVars, uiVars
  <2> QED BY <2>1 DEF StageInv, RootInv
<1>3. CASE Backend \/ CoordinatorReports
  <2>1. UNCHANGED <<scenario, root, su, sd, lists, watch, saves, store>> /\ (AppStep \/ ReportErrors)
    BY <1>3, Zenon DEF Backend, CoordinatorReports, pluginVars, uiVars
  <2> QED BY <1>1, <2>1, EndedKept DEF StageInv
<1>4. CASE \/ UNCHANGED vars \/ Tick
           \/ \E p \in Plugin : PluginChanges(p) \/ \E c \in Cmd, kind \in {"enable", "disable", "config"} : Call(c, p, kind)
  <2>1. UNCHANGED <<scenario, start, root, su, sd, lists, watch, saves, store>>
    BY <1>4, Zenon DEF Tick, PluginChanges, Call, appVars, pluginVars, uiVars, vars
  <2> QED BY <1>1, <2>1 DEF StageInv
<1>5. ASSUME NEW s \in Saver, AdmitSave(s) PROVE StageInv'
  <2>1. UNCHANGED <<scenario, start, root, su, sd, lists, watch, store>> /\ saves'.loaded = saves.loaded
    BY <1>5 DEF AdmitSave, Shapes, appVars, pluginVars, uiVars
  <2> QED BY <1>1, <2>1 DEF StageInv
<1>6. CASE WatchStep
  <2>1. UNCHANGED <<scenario, start, root, su, sd, lists, saves>>
    BY <1>6, Zenon DEF WatchStep, ConsumeStatus, SetStatusTaken, WatchStops, appVars, pluginVars
  <2>2. store' = store \/ \E status : SetApplicationStatus(status)
    BY <1>6, Zenon DEF WatchStep, ConsumeStatus, SetStatusTaken, WatchStops, uiVars
  <2>3. store'["runtime"].phase = store["runtime"].phase
    BY <2>2, RuntimeSet
  <2>4. /\ watch'.on => watch.on
        /\ ~watch'.on => watch'.seen = None /\ watch'.taken = None
    BY <1>6 DEF WatchStep, ConsumeStatus, SetStatusTaken, WatchStops, Shapes, StageInv
  <2> QED BY <1>1, <2>1, <2>3, <2>4
<1>7. CASE Startup
  <2>1. /\ su = "idle" /\ su' = "phase" /\ root'.life = "starting" /\ scenario.driver = "root"
        /\ UNCHANGED <<scenario, start, sd, lists, watch, saves>>
    BY <1>7 DEF Startup, Shapes, appVars, pluginVars
  <2> QED BY <2>1 DEF StageInv, Loaded
<1>8. CASE Shutdown
  <2>1. sd' = "await" /\ root'.life = "closing" /\ UNCHANGED <<scenario, su, lists, watch, saves>>
    BY <1>8 DEF Shutdown, Shapes, pluginVars
  <2> QED BY <2>1 DEF StageInv
<1>9. CASE ShutdownStep
  <2>1. /\ sd # "idle" /\ sd' # "idle" /\ UNCHANGED <<scenario, su, watch>>
        /\ root' = root \/ root' = [root EXCEPT !.life = "closed"]
        /\ lists' = lists \/ lists' = [lists EXCEPT !.closed = TRUE, !.accepting = FALSE]
    BY <1>9 DEF ShutdownStep, AwaitStartup, JoinCommands, JoinForwarders, AwaitSave, CloseBackend, BackendClosed,
       ShutdownEnds, pluginVars
  <2>2. root'.life # "running" /\ lists'.on = lists.on
    BY <2>1 DEF RootInv, Shapes
  <2> QED BY <2>1, <2>2 DEF StageInv
<1> QED
  BY <1>2, <1>3, <1>4, <1>5, <1>6, <1>7, <1>8, <1>9, StartupStages, WorkStages, Zenon DEF Next

LEMMA StageIsInvariant == Spec => []StageInv
<1>1. Init => StageInv
  BY StageInit
<1> QED BY <1>1, StageStep, AppIsInvariant, DesktopIsInvariant, PTL DEF Spec

\* What the status consumer has seen is shown, or will be.
LEMMA WatchStepKeeps == AppTypes /\ Shapes /\ RootInv /\ JoinInv /\ StageInv /\ WatchInv /\ [Next]_vars => WatchInv'
<1> SUFFICES ASSUME AppTypes, Shapes, RootInv, JoinInv, StageInv, WatchInv, [Next]_vars PROVE WatchInv'
  OBVIOUS
<1>1. ASSUME UNCHANGED watch, store'["runtime"].status = store["runtime"].status PROVE WatchInv'
  BY <1>1 DEF WatchInv
<1>2. ASSUME ~watch.on, watch'.seen = watch.seen, watch'.taken = watch.taken PROVE WatchInv'
  BY <1>2 DEF WatchInv, StageInv
<1>3. CASE StartupStep
  <2>1. CASE Run
    <3>1. UNCHANGED watch /\ (UNCHANGED uiVars \/ SetRootState("running"))
      BY <2>1, Zenon DEF Run
    <3>2. store'["runtime"].status = store["runtime"].status
      BY <3>1, RuntimeSet DEF uiVars
    <3> QED BY <1>1, <3>1, <3>2
  <2>2. CASE ~Run
    <3>1. su \notin {"run", "done"}
      BY <1>3, <2>2 DEF StartupStep, PublishStarting, StartForwarders, LoadFails, LoadForStartup, SettingsInvalid, NewBackend,
         StartBackend, BackendStarted, AttachStatus, Attach, AttachPublishes, SubscribePlugins, SubscribeStatus
    <3>2. watch' = watch \/ watch' = [watch EXCEPT !.on = TRUE]
      BY <1>3, Zenon DEF StartupStep, PublishStarting, StartForwarders, LoadFails, LoadForStartup, SettingsInvalid, NewBackend,
         StartBackend, BackendStarted, AttachStatus, Attach, AttachPublishes, SubscribePlugins, SubscribeStatus, Run
    <3> QED BY <1>2, <3>1, <3>2 DEF StageInv, Shapes
  <2> QED BY <2>1, <2>2
<1>4. CASE ShutdownStep
  <2>1. CASE BackendClosed
    <3>1. ~watch.on /\ UNCHANGED watch
      BY <2>1 DEF BackendClosed, JoinInv, Joined
    <3> QED BY <1>2, <3>1
  <2>2. CASE ~BackendClosed
    <3>1. UNCHANGED watch /\ (store' = store \/ \E phase : SetRootState(phase))
      BY <1>4, <2>2, Zenon DEF ShutdownStep, AwaitStartup, JoinCommands, JoinForwarders, AwaitSave, CloseBackend, ShutdownEnds,
         uiVars
    <3> QED BY <1>1, <3>1, RuntimeSet
  <2> QED BY <2>1, <2>2
<1>5. CASE WatchStep
  <2>1. CASE ConsumeStatus
    BY <2>1 DEF ConsumeStatus, WatchInv, Shapes, uiVars
  <2>2. CASE SetStatusTaken
    <3>1. /\ watch.taken # None /\ SetApplicationStatus(watch.taken)
          /\ watch'.seen = watch.seen /\ watch'.taken = None
      BY <2>2 DEF SetStatusTaken, Shapes
    <3>2. store'["runtime"].status = watch.taken
      BY <3>1, RuntimeSet
    <3> QED BY <3>1, <3>2 DEF WatchInv
  <2>3. CASE WatchStops
    BY <2>3 DEF WatchStops, WatchInv, Shapes
  <2> QED BY <1>5, <2>1, <2>2, <2>3 DEF WatchStep
<1>6. CASE Work
  BY <1>1, <1>6, WorkRoot, WorkRuntime
<1>7. CASE \/ Direct \/ Backend \/ CoordinatorReports \/ Startup \/ Shutdown \/ UNCHANGED vars \/ Tick
           \/ \E p \in Plugin : PluginChanges(p) \/ \E c \in Cmd, kind \in {"enable", "disable", "config"} : Call(c, p, kind)
           \/ \E s \in Saver : AdmitSave(s)
  <2>1. UNCHANGED <<watch, store>>
    BY <1>7, Zenon DEF Direct, Backend, CoordinatorReports, Startup, Shutdown, Tick, PluginChanges, Call, AdmitSave, uiVars, vars
  <2> QED BY <1>1, <2>1
<1> QED
  BY <1>3, <1>4, <1>5, <1>6, <1>7, Zenon DEF Next

LEMMA CmdLists ==
    ASSUME AppTypes, Shapes, RootInv, StageInv, Values, CmdValues, ListInv, NEW c \in Cmd, CmdStep(c) PROVE ListInv'
<1>0. UNCHANGED sd
  BY Zenon DEF CmdStep, Admit, Read, PublishEqual, CallBackend, RefreshBackend
<1>1. ASSUME sd = "idle", lists.on PROVE Available
  BY <1>1 DEF StageInv, Available
<1>2. ASSUME world' = world PROVE TheList' = TheList
  BY <1>2 DEF TheList
<1>3. "plugins" \in Module
  BY DEF Module
<1>4. CASE Admit(c) \/ Read(c)
  <2>1. UNCHANGED <<world, event, lists, store>>
    BY <1>4, Zenon DEF Admit, Read, uiVars
  <2> QED BY <1>0, <1>2, <2>1 DEF ListInv
<1>5. ASSUME NEW list, NEW equal \in BOOLEAN, Publish(list, equal), UNCHANGED <<world, event>>, list = TheList \/ equal PROVE ListInv'
  <2>1. CASE ~Available \/ list = store["plugins"]
    <3>1. UNCHANGED <<lists, store>>
      BY <1>5, <2>1 DEF Publish, uiVars
    <3> QED BY <1>0, <1>2, <1>5, <3>1 DEF ListInv
  <2>2. CASE Available /\ list # store["plugins"]
    <3>1. Update("plugins", list) /\ lists' = [lists EXCEPT !.equal = equal]
      BY <1>5, <2>2, Zenon DEF Publish
    <3>2. store'["plugins"] = list
      BY <1>3, <3>1, Kept
    <3>3. lists'.on = lists.on /\ lists'.next = lists.next /\ lists'.taken = lists.taken /\ lists'.equal = equal
      BY <3>1 DEF Shapes
    <3> QED BY <1>0, <1>2, <1>5, <3>2, <3>3 DEF ListInv
  <2> QED BY <2>1, <2>2
<1>6. CASE PublishEqual(c)
  BY <1>5, <1>6 DEF PublishEqual
<1>7. CASE RefreshBackend(c)
  BY <1>5, <1>7 DEF RefreshBackend
<1>8. CASE CallBackend(c)
  <2>0. UNCHANGED <<lists, store>>
    BY <1>8, Zenon DEF CallBackend, uiVars
  <2>1. (world' = world /\ (~event' => ~event)) \/ (lists.on => event')
    <3>1. PICK done \in BOOLEAN, applied \in BOOLEAN :
             /\ ~applied => world' = world
             /\ event' = (event \/ (applied /\ lists.on))
      BY <1>8 DEF CallBackend
    <3> QED BY <3>1, Zenon
  <2> QED BY <1>0, <1>2, <2>0, <2>1 DEF ListInv
<1> QED BY <1>4, <1>6, <1>7, <1>8 DEF CmdStep

LEMMA ListStepKeeps ==
    AppTypes /\ Shapes /\ RootInv /\ StageInv /\ Values /\ CmdValues /\ ListInv /\ [Next]_vars => ListInv'
<1> SUFFICES ASSUME AppTypes, Shapes, RootInv, StageInv, Values, CmdValues, ListInv, [Next]_vars PROVE ListInv'
  OBVIOUS
<1>0. "plugins" \in Module /\ "plugins" # "runtime" /\ "plugins" # "settings" /\ "runtime" \in Module /\ "settings" \in Module
  BY DEF Module
<1>1. ASSUME world' = world PROVE TheList' = TheList
  BY <1>1 DEF TheList
<1>2. TheList # None
  BY TheListIs, NoneAssumption
<1>3. ASSUME UNCHANGED <<world, event, lists>>, sd' = "idle" => sd = "idle", store'["plugins"] = store["plugins"] PROVE ListInv'
  BY <1>1, <1>3 DEF ListInv
<1>4. ASSUME sd' = "idle" => ~lists'.on PROVE ListInv'
  BY <1>4 DEF ListInv
<1>5. CASE StartupStep
  <2>0. UNCHANGED <<sd, world>>
    BY <1>5, StartupRoot
  <2>1. CASE SubscribePlugins
    <3>1. CASE Active
      <4>1. lists'.on /\ lists'.next = TheList
        BY <2>1, <3>1 DEF SubscribePlugins, Shapes
      <4> QED BY <1>1, <1>2, <2>0, <4>1 DEF ListInv
    <3>2. CASE ~Active
      <4>1. UNCHANGED <<event, lists, store>>
        BY <2>1, <3>2 DEF SubscribePlugins, uiVars
      <4> QED BY <1>3, <2>0, <4>1
    <3> QED BY <3>1, <3>2
  <2>2. CASE SubscribeStatus \/ Run
    <3>1. UNCHANGED <<event, lists>> /\ (store' = store \/ SetRootState("running"))
      BY <2>2, Zenon DEF SubscribeStatus, Run, pluginVars, uiVars
    <3>2. ASSUME NEW value, SetRuntime(value) PROVE store'["plugins"] = store["plugins"]
      BY <1>0, <3>2, Kept
    <3>3. store'["plugins"] = store["plugins"]
      BY <3>1, <3>2, Zenon DEF SetRootState
    <3> QED BY <1>3, <2>0, <3>1, <3>3
  <2>3. CASE ~SubscribePlugins /\ ~SubscribeStatus /\ ~Run
    <3>1. su \notin {"watch", "run", "done"}
      BY <1>5, <2>3 DEF StartupStep, PublishStarting, StartForwarders, LoadFails, LoadForStartup, SettingsInvalid, NewBackend,
         StartBackend, BackendStarted, AttachStatus, Attach, AttachPublishes
    <3>2. ~lists.on
      BY <3>1 DEF StageInv
    <3>3. lists' = lists \/ \E on : lists' = [lists EXCEPT !.accepting = on]
      BY <1>5, <2>3, Zenon DEF StartupStep, PublishStarting, StartForwarders, LoadFails, LoadForStartup, SettingsInvalid,
         NewBackend, StartBackend, BackendStarted, AttachStatus, Attach, AttachPublishes, pluginVars
    <3> QED BY <1>4, <3>2, <3>3 DEF Shapes
  <2> QED BY <2>1, <2>2, <2>3
<1>6. CASE ShutdownStep \/ Shutdown
  <2>1. sd' # "idle"
    BY <1>6 DEF ShutdownStep, AwaitStartup, JoinCommands, JoinForwarders, AwaitSave, CloseBackend, BackendClosed, ShutdownEnds,
       Shutdown
  <2> QED BY <1>4, <2>1
<1>7. CASE WatchStep
  <2>1. UNCHANGED <<sd, world, event, lists>> /\ (store' = store \/ \E status : SetApplicationStatus(status))
    BY <1>7, Zenon DEF WatchStep, ConsumeStatus, SetStatusTaken, WatchStops, pluginVars, uiVars
  <2>2. ASSUME NEW value, SetRuntime(value) PROVE store'["plugins"] = store["plugins"]
    BY <1>0, <2>2, Kept
  <2>3. store'["plugins"] = store["plugins"]
    BY <2>1, <2>2, Zenon DEF SetApplicationStatus
  <2> QED BY <1>3, <2>1, <2>3
<1>8. ASSUME NEW p \in Plugin, PluginChanges(p) PROVE ListInv'
  BY <1>8 DEF PluginChanges, ListInv
<1>9. CASE ConsumerStep
  <2>0. UNCHANGED <<sd, world>>
    BY <1>9, Zenon DEF ConsumerStep, ListAgain, ConsumeSnapshots, PublishTaken, ConsumerStops
  <2>1. CASE ListAgain
    <3>1. lists'.next = TheList
      BY <2>1 DEF ListAgain, Shapes
    <3> QED BY <1>1, <1>2, <2>0, <3>1 DEF ListInv
  <2>2. CASE ConsumeSnapshots
    <3>1. /\ lists.next # None /\ lists'.next = None /\ lists'.taken = lists.next /\ lists'.on = lists.on
          /\ event' = event
      BY <2>2 DEF ConsumeSnapshots, Shapes
    <3> QED BY <1>1, <2>0, <3>1 DEF ListInv
  <2>3. CASE PublishTaken
    <3>1. event' = event /\ lists.taken # None
      BY <2>3 DEF PublishTaken
    <3>2. sd = "idle" /\ lists.on => Available
      BY DEF StageInv, Available
    <3>3. CASE ~Available \/ lists.taken = store["plugins"]
      <4>1. /\ store' = store
            /\ lists'.on = lists.on /\ lists'.next = lists.next /\ lists'.taken = None
        BY <2>3, <3>3 DEF PublishTaken, Shapes, uiVars
      <4> QED BY <1>1, <2>0, <3>1, <3>2, <3>3, <4>1 DEF ListInv
    <3>4. CASE ~(~Available \/ lists.taken = store["plugins"])
      <4>1. Update("plugins", lists.taken) /\ lists' = [lists EXCEPT !.taken = None, !.equal = FALSE]
        BY <2>3, <3>4, Zenon DEF PublishTaken
      <4>2. store'["plugins"] = lists.taken
        BY <1>0, <4>1, Kept
      <4>3. lists'.on = lists.on /\ lists'.next = lists.next /\ lists'.taken = None
        BY <4>1 DEF Shapes
      <4> QED BY <1>1, <2>0, <3>1, <4>2, <4>3 DEF ListInv
    <3> QED BY <3>3, <3>4
  <2>4. CASE ConsumerStops
    <3>1. ~lists'.on
      BY <2>4 DEF ConsumerStops, Shapes
    <3> QED BY <1>4, <3>1
  <2> QED BY <1>9, <2>1, <2>2, <2>3, <2>4 DEF ConsumerStep
<1>10. ASSUME NEW s \in Saver, SaveStep(s) PROVE ListInv'
  <2>1. UNCHANGED <<sd, world, event, lists>> /\ (store' = store \/ Update("settings", saves.file))
    BY <1>10, Zenon DEF SaveStep, SaveFile, PublishSaved, pluginVars, uiVars
  <2>2. store'["plugins"] = store["plugins"]
    BY <1>0, <2>1, Kept
  <2> QED BY <1>3, <2>1, <2>2
<1>11. ASSUME NEW m \in Module, ForwardStep(m) PROVE ListInv'
  <2>1. UNCHANGED <<sd, world, event, lists, store>>
    BY <1>11, Zenon DEF ForwardStep, Forward, ForwarderStops, pluginVars
  <2> QED BY <1>3, <2>1
<1>12. CASE Work
  BY <1>9, <1>10, <1>11, <1>12, CmdLists, Zenon DEF Work
<1>13. CASE \/ Direct \/ Backend \/ CoordinatorReports \/ Startup \/ UNCHANGED vars \/ Tick \/ \E s \in Saver : AdmitSave(s)
  <2>1. UNCHANGED <<sd, world, event, lists, store>>
    BY <1>13, Zenon DEF Direct, Backend, CoordinatorReports, Startup, Tick, AdmitSave, pluginVars, uiVars, vars
  <2> QED BY <1>3, <2>1
<1>14. ASSUME NEW p, NEW c, NEW kind, Call(c, p, kind) PROVE ListInv'
  <2>1. UNCHANGED <<sd, world, event, lists, store>>
    BY <1>14, Zenon DEF Call, uiVars
  <2> QED BY <1>3, <2>1
<1> QED
  BY <1>5, <1>6, <1>7, <1>8, <1>12, <1>13, <1>14, Zenon DEF Next

\* A forwarder passes on what it has.
LEMMA ForwardStepKeeps ==
    Shapes /\ ForwardInv /\ (UNCHANGED uiVars \/ Renews \/ Forwarding) => ForwardInv'
<1> SUFFICES ASSUME Shapes, ForwardInv, UNCHANGED uiVars \/ Renews \/ Forwarding PROVE ForwardInv'
  OBVIOUS
<1>0. "plugins" \in Module /\ DOMAIN src = Module /\ DOMAIN fwd = Module /\ \A m \in Module : DOMAIN fwd[m] = {"at", "sent", "pending"}
  BY DEF Module, Shapes, ForwardInv
<1>1. CASE UNCHANGED uiVars
  BY <1>1 DEF ForwardInv, Responses, uiVars
<1>2. CASE Renews
  <2>1. PICK m \in Module : \E value \in Snapshots(m) : Update(m, value)
    BY <1>2, Zenon DEF Renews
  <2>2. PICK value \in Snapshots(m) : Update(m, value)
    BY <2>1
  <2>3. /\ fwd' = fwd /\ store'[m] = value /\ \A n \in Module \ {m} : store'[n] = store[n]
        /\ src' = IF fwd[m].at = "on" THEN [src EXCEPT ![m] = value] ELSE src
    BY <2>2, Kept DEF Update, Subscribed
  <2>4. DOMAIN src' = Module /\ (fwd[m].at = "on" => src'[m] = value) /\ \A n \in Module \ {m} : src'[n] = src[n]
    BY <1>0, <2>3
  <2> QED BY <2>3, <2>4 DEF ForwardInv, Responses
<1>3. CASE StartForwarders
  <2>1. /\ store' = store /\ DOMAIN src' = Module
        /\ \A m \in Module : fwd'[m].at = "on" => src'[m] = store[m]
    BY <1>0, <1>3 DEF StartForwarders
  <2> QED BY <2>1 DEF ForwardInv
<1>4. CASE JoinCommands
  <2>1. src' = src /\ \A m \in Module : fwd'[m].at # "on"
    BY <1>0, <1>4 DEF JoinCommands
  <2> QED BY <1>0, <2>1 DEF ForwardInv
<1>5. CASE Tick
  <2>1. /\ fwd["plugins"].at = "on" /\ fwd["plugins"].pending # None /\ UNCHANGED <<store, src>>
        /\ \A m \in Module \ {"plugins"} : fwd'[m] = fwd[m]
        /\ fwd'["plugins"].pending = None
        /\ fwd'["plugins"].sent = [list |-> fwd["plugins"].pending, available |-> Available]
    BY <1>0, <1>5 DEF Tick, Emit, Response
  <2>2. Available \in BOOLEAN
    BY DEF Available
  <2>3. src["plugins"] = store["plugins"] \/ (src["plugins"] = None /\ fwd["plugins"].pending = store["plugins"])
    BY <1>0, <2>1 DEF ForwardInv
  <2>4. src["plugins"] = store["plugins"] \/ (src["plugins"] = None /\ fwd'["plugins"].sent \in Responses("plugins"))
    BY <2>1, <2>2, <2>3 DEF Responses
  <2>5. Responses("plugins")' = Responses("plugins") /\ \A m \in Module : store'[m] = store[m]
    BY <2>1 DEF Responses
  <2>6. ASSUME NEW m \in Module, fwd'[m].at = "on"
        PROVE  \/ src'[m] = store'[m]
               \/ src'[m] = None /\ m = "plugins" /\ fwd'[m].pending = store'[m]
               \/ src'[m] = None /\ fwd'[m].pending = None /\ fwd'[m].sent \in Responses(m)'
    <3>1. CASE m = "plugins"
      BY <2>1, <2>4, <2>5, <3>1
    <3>2. CASE m # "plugins"
      BY <2>1, <2>6, <3>2 DEF ForwardInv, Responses
    <3> QED BY <3>1, <3>2
  <2> QED BY <1>0, <2>1, <2>6 DEF ForwardInv
<1>6. ASSUME NEW m \in Module, Forward(m) PROVE ForwardInv'
  <2>1. /\ src[m] # None /\ fwd[m].at = "on" /\ store' = store
        /\ DOMAIN src' = Module /\ src'[m] = None
        /\ \A n \in Module \ {m} : src'[n] = src[n] /\ fwd'[n] = fwd[n]
        /\ \/ m = "plugins" /\ fwd'[m].pending = src[m]
           \/ fwd'[m].pending = None /\ fwd'[m].sent = Response(m, src[m])
    BY <1>0, <1>6 DEF Forward, Emit
  <2>2. src[m] = store[m]
    BY <2>1 DEF ForwardInv
  <2>3. Response(m, store[m]) \in Responses(m)
    <3>1. Available \in BOOLEAN
      BY DEF Available
    <3> QED BY <3>1 DEF Response, Responses
  <2>4. \A n \in Module : Responses(n)' = Responses(n) /\ store'[n] = store[n]
    BY <2>1 DEF Responses
  <2>5. ASSUME NEW n \in Module, fwd'[n].at = "on"
        PROVE  \/ src'[n] = store'[n]
               \/ src'[n] = None /\ n = "plugins" /\ fwd'[n].pending = store'[n]
               \/ src'[n] = None /\ fwd'[n].pending = None /\ fwd'[n].sent \in Responses(n)'
    <3>1. CASE n = m
      BY <2>1, <2>2, <2>3, <2>4, <3>1
    <3>2. CASE n # m
      BY <2>1, <2>4, <2>5, <3>2 DEF ForwardInv
    <3> QED BY <3>1, <3>2
  <2> QED BY <2>1, <2>5 DEF ForwardInv
<1>7. ASSUME NEW m \in Module, ForwarderStops(m) PROVE ForwardInv'
  <2>1. /\ store' = store /\ DOMAIN src' = Module /\ fwd'[m].at = "done"
        /\ \A n \in Module \ {m} : src'[n] = src[n] /\ fwd'[n] = fwd[n]
    BY <1>0, <1>7 DEF ForwarderStops
  <2> QED BY <2>1 DEF ForwardInv, Responses
<1> QED BY <1>1, <1>2, <1>3, <1>4, <1>5, <1>6, <1>7 DEF Forwarding, ForwardStep

LEMMA ForwardInit == Init => ForwardInv /\ WatchInv /\ ListInv /\ AnswerInv
  BY DEF Init, AppInit, ForwardInv, WatchInv, ListInv, AnswerInv, Steady

\* When startup comes to the consumers, the list it published is on its way.
LEMMA SteadyBegins ==
    ASSUME Shapes, RootInv, StageInv, Values, [Next]_vars, Steady', ~Steady
    PROVE  AttachPublishes /\ Update("plugins", TheList)
<1>1. CASE StartupStep
  <2>0. UNCHANGED <<sd, scenario>> /\ su \notin {"idle", "done"}
    BY <1>1, StartupRoot
  <2>1. CASE AttachPublishes
    <3>1. sd = "idle" /\ su = "publish"
      BY <2>0, <2>1 DEF Steady, AttachPublishes
    <3>2. Available
      BY <3>1 DEF StageInv, Available
    <3> QED BY <2>1, <3>2 DEF AttachPublishes
  <2>2. CASE ~AttachPublishes
    <3>1. \/ su' \notin {"consume", "watch", "run"} /\ root'.life = root.life
          \/ su \in {"consume", "watch", "run"}
          \/ root'.life \in {root.life, "diagnostic"} /\ su' \notin {"consume", "watch", "run"}
      BY <1>1, <2>2 DEF StartupStep, PublishStarting, StartForwarders, LoadFails, LoadForStartup, SettingsInvalid, NewBackend,
         StartBackend, BackendStarted, AttachStatus, Attach, SubscribePlugins, SubscribeStatus, Run, EnterDiagnostic, Then, Shapes
    <3> QED BY <2>0, <3>1 DEF Steady
  <2> QED BY <2>1, <2>2
<1>2. CASE Startup
  BY <1>2 DEF Startup, Steady, Shapes
<1>3. CASE Shutdown \/ ShutdownStep
  <2>1. sd' # "idle"
    BY <1>3 DEF ShutdownStep, AwaitStartup, JoinCommands, JoinForwarders, AwaitSave, CloseBackend, BackendClosed, ShutdownEnds,
       Shutdown
  <2> QED BY <2>1 DEF Steady
<1>4. CASE Work
  BY <1>4, WorkRoot DEF Steady
<1>5. CASE \/ Direct \/ Backend \/ CoordinatorReports \/ WatchStep \/ Tick \/ UNCHANGED vars
           \/ \E p \in Plugin : PluginChanges(p) \/ \E c \in Cmd, kind \in {"enable", "disable", "config"} : Call(c, p, kind)
           \/ \E s \in Saver : AdmitSave(s)
  <2>1. UNCHANGED <<root, su, sd>>
    BY <1>5, Zenon DEF Direct, Backend, CoordinatorReports, WatchStep, ConsumeStatus, SetStatusTaken, WatchStops, Tick,
       PluginChanges, Call, AdmitSave, vars
  <2> QED BY <2>1 DEF Steady
<1> QED
  BY <1>1, <1>2, <1>3, <1>4, <1>5, Zenon DEF Next

\* From then on the user interface is told that commands are accepted.
LEMMA AnswerStepKeeps ==
    AppTypes /\ Shapes /\ RootInv /\ StageInv /\ Values /\ CmdValues /\ ForwardInv /\ AnswerInv /\ [Next]_vars => AnswerInv'
<1> SUFFICES ASSUME AppTypes, Shapes, RootInv, StageInv, Values, CmdValues, ForwardInv, AnswerInv, [Next]_vars PROVE AnswerInv'
  OBVIOUS
<1>0. "plugins" \in Module /\ DOMAIN src = Module /\ DOMAIN fwd = Module /\ \A m \in Module : DOMAIN fwd[m] = {"at", "sent", "pending"}
  BY DEF Module, Shapes, ForwardInv
<1>1. CASE ~Steady'
  BY <1>1 DEF AnswerInv
<1>2. CASE Steady' /\ ~Steady
  <2>1. Update("plugins", TheList)
    BY <1>2, SteadyBegins
  <2>2. fwd' = fwd /\ (fwd["plugins"].at = "on" => src'["plugins"] = TheList)
    BY <1>0, <2>1 DEF Update, Subscribed
  <2>3. TheList # None
    BY TheListIs, NoneAssumption
  <2> QED BY <2>2, <2>3 DEF AnswerInv
<1>3. CASE Steady' /\ Steady
  <2>0. Available /\ sd = "idle" /\ su # "forward" /\ sd' = "idle"
    BY <1>3 DEF Steady, StageInv, Available
  <2>1. ASSUME src'["plugins"] = src["plugins"], fwd'["plugins"] = fwd["plugins"] PROVE AnswerInv'
    BY <1>3, <2>1 DEF AnswerInv
  <2>2. CASE UNCHANGED uiVars
    BY <2>1, <2>2 DEF uiVars
  <2>3. CASE Renews
    <3>1. PICK m \in Module : \E value \in Snapshots(m) : Update(m, value)
      BY <2>3, Zenon DEF Renews
    <3>2. PICK value \in Snapshots(m) : Update(m, value)
      BY <3>1
    <3>3. fwd' = fwd /\ src' = IF Subscribed(m) THEN [src EXCEPT ![m] = value] ELSE src
      BY <3>2 DEF Update
    <3>4. CASE src'["plugins"] = src["plugins"]
      BY <2>1, <3>3, <3>4
    <3>5. CASE src'["plugins"] # src["plugins"]
      <4>1. m = "plugins" /\ src'["plugins"] = value
        BY <1>0, <3>3, <3>5
      <4>2. value # None
        BY <4>1, NoneAssumption DEF Snapshots
      <4> QED BY <4>1, <4>2 DEF AnswerInv
    <3> QED BY <3>4, <3>5
  <2>4. CASE StartForwarders \/ JoinCommands
    BY <2>0, <2>4 DEF StartForwarders, JoinCommands
  <2>5. CASE Tick
    <3>1. fwd'["plugins"].sent = [list |-> fwd["plugins"].pending, available |-> Available]
      BY <1>0, <2>5 DEF Tick, Emit, Response
    <3> QED BY <2>0, <3>1 DEF AnswerInv
  <2>6. ASSUME NEW m \in Module, Forward(m) PROVE AnswerInv'
    <3>1. /\ src[m] # None
          /\ \A n \in Module \ {m} : src'[n] = src[n] /\ fwd'[n] = fwd[n]
          /\ \/ m = "plugins" /\ fwd'[m].pending = src[m]
             \/ fwd'[m].pending = None /\ fwd'[m].sent = Response(m, src[m])
      BY <1>0, <2>6 DEF Forward, Emit
    <3>2. CASE m = "plugins"
      BY <2>0, <3>1, <3>2 DEF AnswerInv, Response
    <3>3. CASE m # "plugins"
      BY <1>0, <2>1, <3>1, <3>3
    <3> QED BY <3>2, <3>3
  <2>7. ASSUME NEW m \in Module, ForwarderStops(m) PROVE AnswerInv'
    <3>1. /\ fwd'[m].at = "done"
          /\ \A n \in Module \ {m} : src'[n] = src[n] /\ fwd'[n] = fwd[n]
      BY <1>0, <2>7 DEF ForwarderStops
    <3>2. CASE m = "plugins"
      BY <3>1, <3>2 DEF AnswerInv
    <3>3. CASE m # "plugins"
      BY <1>0, <2>1, <3>1, <3>3
    <3> QED BY <3>2, <3>3
  <2> QED BY <2>2, <2>3, <2>4, <2>5, <2>6, <2>7, StoreMoves DEF Forwarding, ForwardStep
<1> QED BY <1>1, <1>2, <1>3

LEMMA InterfaceIsInvariant == Spec => [](StageInv /\ Values /\ CmdValues /\ WatchInv /\ ListInv /\ ForwardInv /\ AnswerInv)
<1>1. /\ AppTypes /\ AppInv /\ Shapes /\ RootInv /\ JoinInv
      /\ StageInv /\ Values /\ CmdValues /\ WatchInv /\ ListInv /\ ForwardInv /\ AnswerInv /\ [Next]_vars
      => (WatchInv /\ ListInv /\ ForwardInv /\ AnswerInv)'
  BY WatchStepKeeps, ListStepKeeps, ForwardStepKeeps, AnswerStepKeeps, StoreMoves
<1> QED BY <1>1, ForwardInit, StageIsInvariant, ValuesAreInvariant, AppIsInvariant, DesktopIsInvariant, PTL DEF Spec

\* When nothing is on its way the user interface shows the plugins as they are,
\* with commands accepted, the status of the application and the saved settings.
THEOREM InterfaceAlwaysFollows == Spec => []InterfaceFollows
<1>1. ASSUME Shapes, RootInv, AppTypes, SaveInv, StageInv, Values, WatchInv, ListInv, ForwardInv, AnswerInv, Quiet
      PROVE  /\ Subscribed("plugins") => fwd["plugins"].sent = [list |-> store["plugins"], available |-> TRUE]
             /\ store["plugins"] = TheList \/ lists.equal
             /\ Subscribed("runtime") => fwd["runtime"].sent = [phase |-> "running", status |-> app.status]
             /\ Subscribed("settings") => fwd["settings"].sent = saves.file
  <2>0. "plugins" \in Module /\ "runtime" \in Module /\ "settings" \in Module
    BY DEF Module
  <2>1. /\ root.life = "running" /\ sd = "idle" /\ lists.on /\ saves.loaded /\ store["runtime"].phase = "running"
        /\ \A m \in Module : src[m] = None
        /\ fwd["plugins"].pending = None
        /\ ~event /\ lists.next = None /\ lists.taken = None
        /\ watch.seen = app.status /\ watch.taken = None /\ saves.gate = None
    BY <1>1 DEF Quiet, Running, StageInv
  <2>2. /\ store["runtime"] \in RuntimeSnapshots /\ store["plugins"] \in PluginLists /\ store["settings"] \in Revisions
    BY <1>1 DEF Values, Snapshots, Module
  <2>3. \A m \in Module : store[m] # None
    BY <2>2, NoneAssumption DEF Module
  <2>4. ASSUME NEW m \in Module, Subscribed(m) PROVE fwd[m].sent \in Responses(m)
    BY <1>1, <2>1, <2>3, <2>4 DEF Subscribed, ForwardInv
  <2>5. Subscribed("plugins") => fwd["plugins"].sent = [list |-> store["plugins"], available |-> TRUE]
    <3>1. SUFFICES ASSUME Subscribed("plugins") PROVE fwd["plugins"].sent = [list |-> store["plugins"], available |-> TRUE]
      OBVIOUS
    <3>2. PICK available \in BOOLEAN : fwd["plugins"].sent = [list |-> store["plugins"], available |-> available]
      BY <2>0, <2>4, <3>1 DEF Responses
    <3>3. fwd["plugins"].sent.available = TRUE
      BY <1>1, <2>0, <2>1, <3>1 DEF AnswerInv, Steady, Subscribed
    <3> QED BY <3>2, <3>3
  <2>6. store["plugins"] = TheList \/ lists.equal
    BY <1>1, <2>1 DEF ListInv
  <2>7. store["runtime"] = [phase |-> "running", status |-> app.status]
    <3>1. app.status # None
      BY <1>1, NoneAssumption DEF AppTypes, AppType
    <3>2. store["runtime"].status = app.status
      BY <1>1, <2>1, <3>1 DEF WatchInv
    <3> QED BY <2>1, <2>2, <3>2 DEF RuntimeSnapshots
  <2>8. store["settings"] = saves.file
    <3>1. \A s \in Saver : saves.call[s] # "publish"
      BY <1>1, <2>1, DesktopAssumption DEF SaveInv
    <3> QED BY <1>1, <2>1, <3>1 DEF SaveInv
  <2> QED BY <2>0, <2>4, <2>5, <2>6, <2>7, <2>8 DEF Responses
<1>2. Shapes /\ RootInv /\ AppTypes /\ SaveInv /\ StageInv /\ Values /\ WatchInv /\ ListInv /\ ForwardInv /\ AnswerInv => InterfaceFollows
  BY <1>1 DEF InterfaceFollows
<1> QED BY <1>2, InterfaceIsInvariant, AppIsInvariant, DesktopIsInvariant, EndIsInvariant, PTL

-----------------------------------------------------------------------------
(* The settings store. *)

Copying == {"copy", "recheckCopy", "replaceBackup"}
Writing == {"write", "sync", "recheck", "replace"}

\* A directory that may be found after a crash: its files are whole, and the
\* document a repair replaced is in the backup.
Sound(d) ==
    /\ d.file = NoFile \/ (d.file.doc.kind \in {"valid", "invalid"} /\ d.file.stamp \in 1 .. stamps)
    /\ d.file.synced
    /\ d.backup.synced /\ d.backup.doc.kind # "torn"
    /\ d.file.over.kind = "invalid" => d.backup.doc = d.file.over

DirectoriesSound == \A d \in survivors \cup {dir} : Sound(d)

\* Calls hold the lock, so there is one at a time.
Exclusive ==
    /\ \A c \in Caller : pc[c] # "idle" => locked
    /\ \A b, c \in Caller : pc[b] # "idle" /\ pc[c] # "idle" => b = c

\* What a call that has read the file knows about it: the file is the one it
\* has seen, or another program has changed it since.
SeenIsKnown(c) ==
    pc[c] \in Copying \cup Writing =>
        /\ op[c] \in {"load", "save"}
        /\ op[c] = "load" => seen[c] = NoFile
        /\ op[c] = "save" => /\ seen[c].doc.kind \in {"valid", "invalid"}
                             /\ seen[c].stamp \in 1 .. stamps /\ seen[c].stamp = loaded[c].stamp
        /\ dir.file.ours => dir.file = seen[c]
        /\ dir.file.stamp = seen[c].stamp => dir.file.doc = seen[c].doc

\* What a call knows about the backup and about its temporary file.
TemporaryIsReady(c) ==
    /\ pc[c] \in Copying => op[c] = "save" /\ seen[c].doc.kind = "invalid"
    /\ pc[c] \in {"recheckCopy", "replaceBackup"} => temp[c].doc = seen[c].doc /\ temp[c].synced
    /\ pc[c] \in Writing =>
         /\ seen[c].doc.kind = "invalid" => dir.backup.doc = seen[c].doc
         /\ seen[c].doc.kind = "valid" => seen[c].doc.rev < MaxRevision
    /\ pc[c] \in Writing \ {"write"} =>
         /\ temp[c].doc = NextDocument(c) /\ temp[c].over = seen[c].doc
         /\ temp[c].stamp \in 1 .. stamps
    /\ pc[c] \in {"recheck", "replace"} => temp[c].synced

CallsKnow == \A c \in Caller : SeenIsKnown(c) /\ TemporaryIsReady(c)

StoreInv == TypeOK /\ DirectoriesSound /\ Exclusive /\ CallsKnow

-----------------------------------------------------------------------------
(* Documents and files. *)

LEMMA DocumentTypes ==
    /\ Invalid \in Document /\ NoDoc \in Document /\ Torn \in Document
    /\ \A rev \in 1 .. MaxRevision, s \in Candidate : Valid(rev, s) \in Document
  BY DEF Document

LEMMA DocumentFields ==
    ASSUME NEW doc \in Document
    PROVE  /\ doc.kind \in {"valid", "invalid", "torn", "none"}
           /\ doc.kind = "valid" => doc.rev \in 1 .. MaxRevision
           /\ doc.kind = "invalid" <=> doc = Invalid
           /\ doc.kind = "torn" <=> doc = Torn
           /\ doc.kind = "none" <=> doc = NoDoc
  BY DEF Document, Valid, Invalid, Torn, NoDoc

LEMMA ForeignFields ==
    ASSUME NEW doc, NEW stamp
    PROVE  /\ Foreign(doc, stamp).doc = doc /\ Foreign(doc, stamp).stamp = stamp
           /\ Foreign(doc, stamp).synced /\ Foreign(doc, stamp).over = NoDoc
           /\ ~Foreign(doc, stamp).ours
  BY DEF Foreign

LEMMA ForeignType ==
    ASSUME NEW doc \in Document, NEW stamp \in 0 .. MaxStamp PROVE Foreign(doc, stamp) \in File
  BY DocumentTypes DEF Foreign, File

LEMMA NoFileType == NoFile \in File /\ NoFile.doc = NoDoc /\ NoFile.stamp = 0
                    /\ NoFile.synced /\ NoFile.over = NoDoc /\ ~NoFile.ours
  BY DocumentTypes, ForeignFields, ForeignType, StoreAssumption DEF NoFile

-----------------------------------------------------------------------------
(* Types. *)

LEMMA TypeInit == StoreInit => TypeOK
<1> SUFFICES ASSUME StoreInit PROVE TypeOK
  OBVIOUS
<1>1. Foreign(Invalid, 1) \in File
  BY DocumentTypes, ForeignType, StoreAssumption
<1>2. dir \in Directory
  BY <1>1, NoFileType DEF StoreInit, Directory
<1>3. survivors \subseteq Directory
  BY <1>2 DEF StoreInit
<1>4. stamps \in 0 .. MaxStamp
  BY StoreAssumption DEF StoreInit
<1>5. locked \in BOOLEAN
  BY DEF StoreInit
<1>6. pc \in [Caller -> Steps] /\ op \in [Caller -> {"none", "load", "save"}]
  BY DEF StoreInit, Steps
<1>7. /\ loaded \in [Caller -> File] /\ seen \in [Caller -> File] /\ temp \in [Caller -> File]
      /\ cand \in [Caller -> Candidate]
  BY NoFileType, StoreAssumption DEF StoreInit
<1> QED
  BY <1>2, <1>3, <1>4, <1>5, <1>6, <1>7 DEF TypeOK

LEMMA StoreInvInit == StoreInit => StoreInv
<1> SUFFICES ASSUME StoreInit PROVE StoreInv
  OBVIOUS
<1>1. TypeOK
  BY TypeInit
<1>2. DirectoriesSound
  <2>1. survivors = {dir} /\ dir.backup = NoFile /\ stamps = 1
    BY DEF StoreInit
  <2>2. dir.file = NoFile \/ dir.file = Foreign(Invalid, 1)
    BY DEF StoreInit
  <2>3. NoDoc.kind = "none" /\ Invalid.kind = "invalid"
    BY DEF NoDoc, Invalid
  <2> QED BY <2>1, <2>2, <2>3, NoFileType, ForeignFields DEF DirectoriesSound, Sound
<1>3. \A c \in Caller : pc[c] = "idle"
  BY DEF StoreInit
<1>4. Exclusive
  BY <1>3 DEF Exclusive
<1>5. \A c \in Caller : pc[c] \notin Copying \cup Writing
  BY <1>3 DEF Copying, Writing
<1>6. CallsKnow
  BY <1>5 DEF CallsKnow, SeenIsKnown, TemporaryIsReady, Copying, Writing
<1> QED BY <1>1, <1>2, <1>4, <1>6 DEF StoreInv

-----------------------------------------------------------------------------
(* What the proofs about the actions share. *)

\* A call that is not in the middle of a write knows nothing.
LEMMA NotWriting ==
    ASSUME NEW c \in Caller, pc'[c] \in {"idle", "read", "syncDirectory"}
    PROVE  SeenIsKnown(c)' /\ TemporaryIsReady(c)'
  BY DEF SeenIsKnown, TemporaryIsReady, Copying, Writing

\* The other calls wait, so a step of a call concerns only what that call knows.
LEMMA OneCall ==
    ASSUME StoreInv, NEW c \in Caller, pc[c] # "idle" \/ ~locked, NEW step \in Steps,
           pc' = [pc EXCEPT ![c] = step], step # "idle" => locked',
           SeenIsKnown(c)', TemporaryIsReady(c)'
    PROVE  Exclusive' /\ CallsKnow'
<1>1. pc \in [Caller -> Steps]
  BY DEF StoreInv, TypeOK
<1>2. \A b \in Caller : b # c => pc[b] = "idle"
  BY DEF StoreInv, Exclusive
<1>3. \A b \in Caller : b # c => pc'[b] = "idle"
  BY <1>1, <1>2
<1>4. pc'[c] = step
  BY <1>1
<1>5. Exclusive'
  BY <1>3, <1>4 DEF Exclusive
<1>6. \A b \in Caller : b # c => SeenIsKnown(b)' /\ TemporaryIsReady(b)'
  BY <1>3, NotWriting
<1> QED
  BY <1>5, <1>6 DEF CallsKnow

LEMMA SameDirectories ==
    ASSUME StoreInv, UNCHANGED <<dir, survivors>>, stamps' \in Nat, stamps' >= stamps
    PROVE  DirectoriesSound'
<1>1. stamps \in Nat
  BY StoreAssumption DEF StoreInv, TypeOK
<1>2. \A d \in survivors \cup {dir} : Sound(d)
  BY DEF StoreInv, DirectoriesSound
<1>3. ASSUME NEW d \in survivors \cup {dir} PROVE Sound(d)'
  BY <1>1, <1>2 DEF Sound
<1> QED
  BY <1>3 DEF DirectoriesSound

\* Every way to return.
LEMMA FailsKeeps ==
    ASSUME StoreInv, NEW c \in Caller, pc[c] # "idle", Fails(c) PROVE StoreInv'
<1>1. TypeOK'
  BY NoFileType DEF Fails, Return, StoreInv, TypeOK, Steps
<1>2. DirectoriesSound'
  BY SameDirectories, StoreAssumption DEF Fails, StoreInv, TypeOK
<1>3. pc' = [pc EXCEPT ![c] = "idle"] /\ pc'[c] = "idle"
  BY DEF Fails, Return, StoreInv, TypeOK
<1>4. Exclusive' /\ CallsKnow'
  BY <1>3, OneCall, NotWriting DEF Steps
<1> QED BY <1>1, <1>2, <1>4 DEF StoreInv

LEMMA BeginKeeps ==
    ASSUME StoreInv, NEW c \in Caller,
           LoadOrCreate(c) \/ \E s \in Candidate : Save(c, s)
    PROVE  StoreInv'
<1>1. PICK kind \in {"load", "save"} : Begin(c, kind)
  BY DEF LoadOrCreate, Save
<1>2. cand' \in [Caller -> Candidate]
  BY DEF LoadOrCreate, Save, StoreInv, TypeOK
<1>3. TypeOK'
  BY <1>1, <1>2 DEF Begin, StoreInv, TypeOK, Steps
<1>4. DirectoriesSound'
  BY <1>1, SameDirectories, StoreAssumption DEF Begin, StoreInv, TypeOK
<1>5. pc' = [pc EXCEPT ![c] = "read"] /\ pc'[c] = "read" /\ ~locked /\ locked'
  BY <1>1 DEF Begin, StoreInv, TypeOK
<1>6. Exclusive' /\ CallsKnow'
  BY <1>5, OneCall, NotWriting DEF Steps
<1> QED BY <1>3, <1>4, <1>6 DEF StoreInv

\* A load that finds no file goes on to write the defaults.
LEMMA ReadLoadKeeps ==
    ASSUME StoreInv, NEW c \in Caller, ReadLoad(c) PROVE StoreInv'
<1>0. dir \in Directory /\ dir.file \in File /\ stamps \in Nat /\ pc \in [Caller -> Steps]
  BY StoreAssumption DEF StoreInv, TypeOK, Directory
<1>1. TypeOK'
  <2>1. /\ pc' \in [Caller -> Steps] /\ loaded' \in [Caller -> File] /\ seen' \in [Caller -> File]
        /\ temp' \in [Caller -> File]
    BY <1>0, NoFileType DEF ReadLoad, Return, Go, StoreInv, TypeOK, Steps
  <2>2. locked' \in BOOLEAN
    BY DEF ReadLoad, Return, Go, StoreInv, TypeOK
  <2> QED BY <2>1, <2>2 DEF ReadLoad, StoreInv, TypeOK
<1>2. DirectoriesSound'
  BY <1>0, SameDirectories DEF ReadLoad
<1>3. CASE dir.file # NoFile
  <2>1. pc' = [pc EXCEPT ![c] = "idle"] /\ pc'[c] = "idle" /\ pc[c] # "idle"
    BY <1>0, <1>3 DEF ReadLoad, Return, At
  <2> QED BY <1>1, <1>2, <2>1, OneCall, NotWriting DEF Steps, StoreInv
<1>4. CASE dir.file = NoFile
  <2>1. /\ pc' = [pc EXCEPT ![c] = "write"] /\ pc'[c] = "write" /\ pc[c] # "idle"
        /\ locked' = locked /\ dir' = dir /\ op' = op /\ op[c] = "load"
    BY <1>0, <1>4 DEF ReadLoad, Go, At
  <2>2. seen'[c] = NoFile
    BY <1>4 DEF ReadLoad, StoreInv, TypeOK
  <2>3. SeenIsKnown(c)'
    BY <1>4, <2>1, <2>2, NoFileType DEF SeenIsKnown
  <2>4. NoDoc.kind = "none"
    BY DEF NoDoc
  <2>5. TemporaryIsReady(c)'
    BY <2>1, <2>2, <2>4, NoFileType DEF TemporaryIsReady, Copying, Writing
  <2>6. locked'
    BY <2>1 DEF StoreInv, Exclusive
  <2> QED BY <1>1, <1>2, <2>1, <2>3, <2>5, <2>6, OneCall DEF Steps, StoreInv
<1> QED BY <1>3, <1>4

\* A save goes on when the file is the one its caller loaded.
LEMMA ReadSaveKeeps ==
    ASSUME StoreInv, NEW c \in Caller, ReadSave(c) PROVE StoreInv'
<1>0. dir \in Directory /\ dir.file \in File /\ stamps \in Nat /\ pc \in [Caller -> Steps]
  BY StoreAssumption DEF StoreInv, TypeOK, Directory
<1>1. TypeOK'
  BY <1>0, NoFileType DEF ReadSave, Return, Go, StoreInv, TypeOK, Steps
<1>2. DirectoriesSound'
  BY <1>0, SameDirectories DEF ReadSave
<1>3. CASE ~Unchanged(c) \/ Settled(c)
  <2>1. pc' = [pc EXCEPT ![c] = "idle"] /\ pc'[c] = "idle" /\ pc[c] # "idle"
    BY <1>0, <1>3 DEF ReadSave, Return, At
  <2> QED BY <1>1, <1>2, <2>1, OneCall, NotWriting DEF Steps, StoreInv
<1>4. CASE Unchanged(c) /\ ~Settled(c)
  <2> DEFINE step == IF dir.file.doc.kind = "valid" THEN "write" ELSE "copy"
  <2>1. /\ pc' = [pc EXCEPT ![c] = step] /\ pc'[c] = step /\ pc[c] # "idle"
        /\ locked' = locked /\ dir' = dir /\ op' = op /\ op[c] = "save"
        /\ loaded' = loaded /\ stamps' = stamps
    BY <1>0, <1>4 DEF ReadSave, Go, At
  <2>2. seen'[c] = dir.file
    BY <1>4 DEF ReadSave, StoreInv, TypeOK
  <2>3. dir.file # NoFile /\ dir.file.stamp = loaded[c].stamp
    BY <1>4 DEF Unchanged
  <2>4. Sound(dir)
    BY DEF StoreInv, DirectoriesSound
  <2>5. dir.file.doc.kind \in {"valid", "invalid"} /\ dir.file.stamp \in 1 .. stamps
    BY <2>3, <2>4 DEF Sound
  <2>6. SeenIsKnown(c)'
    BY <2>1, <2>2, <2>3, <2>5 DEF SeenIsKnown
  <2>7. dir.file.doc.kind = "valid" => dir.file.doc.rev < MaxRevision
    <3>1. dir.file.doc \in Document
      BY <1>0 DEF File
    <3> QED BY <1>4, <3>1, DocumentFields, StoreAssumption DEF Settled
  <2>8. TemporaryIsReady(c)'
    BY <2>1, <2>2, <2>5, <2>7 DEF TemporaryIsReady, Copying, Writing
  <2>9. locked' /\ step \in Steps
    BY <2>1 DEF StoreInv, Exclusive, Steps
  <2> QED BY <1>1, <1>2, <2>1, <2>6, <2>8, <2>9, OneCall DEF StoreInv
<1> QED BY <1>3, <1>4

-----------------------------------------------------------------------------
(* Writing. *)

\* What a step of a call that is in the middle of a write may rely on.
LEMMA InCall ==
    ASSUME StoreInv, NEW c \in Caller, pc[c] # "idle"
    PROVE  /\ locked /\ SeenIsKnown(c) /\ TemporaryIsReady(c)
           /\ dir \in Directory /\ dir.file \in File /\ dir.backup \in File
           /\ temp \in [Caller -> File] /\ temp[c] \in File
           /\ seen \in [Caller -> File] /\ seen[c] \in File /\ seen[c].doc \in Document
           /\ pc \in [Caller -> Steps] /\ stamps \in Nat /\ stamps \in 0 .. MaxStamp
           /\ cand[c] \in Candidate /\ op[c] \in {"none", "load", "save"}
<1>1. locked /\ SeenIsKnown(c) /\ TemporaryIsReady(c)
  BY DEF StoreInv, Exclusive, CallsKnow
<1>2. dir \in Directory /\ dir.file \in File /\ dir.backup \in File
  BY DEF StoreInv, TypeOK, Directory
<1>3. temp \in [Caller -> File] /\ seen \in [Caller -> File] /\ pc \in [Caller -> Steps] /\ stamps \in 0 .. MaxStamp
  BY DEF StoreInv, TypeOK
<1>4. seen[c] \in File /\ temp[c] \in File
  BY <1>3
<1>5. seen[c].doc \in Document
  BY <1>4 DEF File
<1>6. stamps \in Nat
  BY <1>3, StoreAssumption
<1>7. cand[c] \in Candidate /\ op[c] \in {"none", "load", "save"}
  BY DEF StoreInv, TypeOK
<1> QED BY <1>1, <1>2, <1>3, <1>4, <1>5, <1>6, <1>7

LEMMA WrittenType ==
    ASSUME NEW doc \in Document, NEW over \in Document, NEW synced \in BOOLEAN,
           stamps' \in 0 .. MaxStamp
    PROVE  Written(doc, over, synced) \in File
  BY DEF Written, File

\* A new document is valid: Settled stopped a save of the last revision.
LEMMA NextDocumentType ==
    ASSUME StoreInv, NEW c \in Caller, pc[c] \in Writing
    PROVE  NextDocument(c) \in Document /\ NextDocument(c).kind = "valid"
<1>0. pc[c] # "idle"
  BY DEF Writing
<1>1. /\ seen[c].doc \in Document /\ cand[c] \in Candidate
      /\ seen[c].doc.kind = "valid" => seen[c].doc.rev < MaxRevision
  BY <1>0, InCall DEF TemporaryIsReady
<1>2. Valid(1, Default) \in Document /\ Valid(1, cand[c]) \in Document
  BY <1>1, DocumentTypes, StoreAssumption
<1>3. seen[c].doc.kind = "valid" => Valid(seen[c].doc.rev + 1, cand[c]) \in Document
  BY <1>1, DocumentTypes, DocumentFields, StoreAssumption
<1>4. \A rev, s : Valid(rev, s).kind = "valid"
  BY DEF Valid
<1> QED BY <1>2, <1>3, <1>4 DEF NextDocument

LEMMA CopyKeeps ==
    ASSUME StoreInv, NEW c \in Caller, Copy(c) PROVE StoreInv'
<1>0. /\ pc[c] = "copy" /\ pc[c] # "idle" /\ pc[c] \in Copying
      /\ stamps' = stamps + 1 /\ stamps < MaxStamp /\ dir.file.stamp = seen[c].stamp
      /\ temp' = [temp EXCEPT ![c] = Written(dir.file.doc, NoDoc, TRUE)]
      /\ pc' = [pc EXCEPT ![c] = "recheckCopy"]
      /\ UNCHANGED <<locked, dir, survivors, op, loaded, cand, seen>>
  BY DEF Copy, At, Go, Same, Copying
<1>1. stamps' \in 0 .. MaxStamp /\ stamps' \in Nat /\ stamps' > stamps
  BY <1>0, InCall, StoreAssumption
<1>2. Written(dir.file.doc, NoDoc, TRUE) \in File
  <2>1. dir.file.doc \in Document
    BY <1>0, InCall DEF File
  <2> QED BY <1>1, <2>1, WrittenType, DocumentTypes
<1>3. TypeOK'
  BY <1>0, <1>1, <1>2 DEF StoreInv, TypeOK, Steps
<1>4. DirectoriesSound'
  BY <1>0, <1>1, InCall, SameDirectories
<1>5. pc'[c] = "recheckCopy" /\ temp'[c] = Written(dir.file.doc, NoDoc, TRUE)
  BY <1>0, InCall
<1>6. SeenIsKnown(c)'
  BY <1>0, <1>1, <1>5, InCall DEF SeenIsKnown, Copying
<1>7. TemporaryIsReady(c)'
  <2>1. dir.file.doc = seen[c].doc /\ op[c] = "save" /\ seen[c].doc.kind = "invalid"
    BY <1>0, InCall DEF SeenIsKnown, TemporaryIsReady
  <2>2. temp'[c].doc = dir.file.doc /\ temp'[c].synced = TRUE
    BY <1>5 DEF Written
  <2> QED BY <1>0, <1>5, <2>1, <2>2 DEF TemporaryIsReady, Copying, Writing
<1> QED BY <1>0, <1>3, <1>4, <1>6, <1>7, InCall, OneCall DEF StoreInv, Steps

LEMMA WriteTemporaryKeeps ==
    ASSUME StoreInv, NEW c \in Caller, WriteTemporary(c) PROVE StoreInv'
<1>0. /\ pc[c] = "write" /\ pc[c] # "idle" /\ pc[c] \in Writing
      /\ stamps' = stamps + 1 /\ stamps < MaxStamp
      /\ temp' = [temp EXCEPT ![c] = Written(NextDocument(c), seen[c].doc, FALSE)]
      /\ pc' = [pc EXCEPT ![c] = "sync"]
      /\ UNCHANGED <<locked, dir, survivors, op, loaded, cand, seen>>
  BY DEF WriteTemporary, At, Go, Writing
<1>1. stamps' \in 0 .. MaxStamp /\ stamps' \in Nat /\ stamps' > stamps
  BY <1>0, InCall, StoreAssumption
<1>2. Written(NextDocument(c), seen[c].doc, FALSE) \in File
  BY <1>0, <1>1, InCall, NextDocumentType, WrittenType
<1>3. TypeOK'
  BY <1>0, <1>1, <1>2 DEF StoreInv, TypeOK, Steps
<1>4. DirectoriesSound'
  BY <1>0, <1>1, InCall, SameDirectories
<1>5. pc'[c] = "sync" /\ temp'[c] = Written(NextDocument(c), seen[c].doc, FALSE)
  BY <1>0, InCall
<1>6. SeenIsKnown(c)'
  BY <1>0, <1>1, <1>5, InCall DEF SeenIsKnown, Writing
<1>7. TemporaryIsReady(c)'
  <2>1. NextDocument(c)' = NextDocument(c)
    BY <1>0 DEF NextDocument
  <2>2. temp'[c].doc = NextDocument(c) /\ temp'[c].over = seen[c].doc /\ temp'[c].stamp = stamps'
    BY <1>5 DEF Written
  <2>3. stamps' \in 1 .. stamps'
    BY <1>0, <1>1, InCall
  <2> QED BY <1>0, <1>5, <2>1, <2>2, <2>3, InCall DEF TemporaryIsReady, Copying, Writing
<1> QED BY <1>0, <1>3, <1>4, <1>6, <1>7, InCall, OneCall DEF StoreInv, Steps

LEMMA FinishTemporaryKeeps ==
    ASSUME StoreInv, NEW c \in Caller, FinishTemporary(c) PROVE StoreInv'
<1>0. /\ pc[c] = "sync" /\ pc[c] # "idle" /\ pc[c] \in Writing
      /\ temp' = [temp EXCEPT ![c] = [temp[c] EXCEPT !.synced = TRUE]]
      /\ pc' = [pc EXCEPT ![c] = "recheck"]
      /\ UNCHANGED <<locked, dir, survivors, stamps, op, loaded, cand, seen>>
  BY DEF FinishTemporary, At, Go, Writing
<1> DEFINE file == [temp[c] EXCEPT !.synced = TRUE]
<1>1. /\ file \in File /\ file.doc = temp[c].doc /\ file.over = temp[c].over
      /\ file.stamp = temp[c].stamp /\ file.synced = TRUE
  <2>1. temp[c] \in File
    BY <1>0, InCall
  <2> QED BY <2>1 DEF File
<1>2. pc'[c] = "recheck" /\ temp'[c] = file
  BY <1>0, InCall
<1> HIDE DEF file
<1>3. TypeOK'
  BY <1>0, <1>1 DEF StoreInv, TypeOK, Steps, file
<1>4. DirectoriesSound'
  BY <1>0, InCall, SameDirectories
<1>5. SeenIsKnown(c)'
  BY <1>0, <1>2, InCall DEF SeenIsKnown, Writing
<1>6. TemporaryIsReady(c)'
  <2>1. NextDocument(c)' = NextDocument(c)
    BY <1>0 DEF NextDocument
  <2> QED BY <1>0, <1>1, <1>2, <2>1, InCall DEF TemporaryIsReady, Copying, Writing
<1> QED BY <1>0, <1>3, <1>4, <1>5, <1>6, InCall, OneCall DEF StoreInv, Steps

LEMMA RecheckKeeps ==
    ASSUME StoreInv, NEW c \in Caller, Recheck(c) PROVE StoreInv'
<1> DEFINE step == IF pc[c] = "recheck" THEN "replace" ELSE "replaceBackup"
<1>0. /\ pc[c] \in {"recheck", "recheckCopy"} /\ pc[c] # "idle"
      /\ pc' = [pc EXCEPT ![c] = step] /\ step \in Steps
      /\ UNCHANGED <<locked, dir, survivors, stamps, op, loaded, cand, seen, temp>>
  BY DEF Recheck, At, Go, callVars, Steps
<1>1. TypeOK'
  BY <1>0 DEF StoreInv, TypeOK
<1>2. DirectoriesSound'
  BY <1>0, InCall, SameDirectories
<1>3. pc'[c] = step
  BY <1>0, InCall
<1>4. SeenIsKnown(c)'
  BY <1>0, <1>3, InCall DEF SeenIsKnown, Writing, Copying
<1>5. TemporaryIsReady(c)'
  <2>1. NextDocument(c)' = NextDocument(c)
    BY <1>0 DEF NextDocument
  <2> QED BY <1>0, <1>3, <2>1, InCall DEF TemporaryIsReady, Copying, Writing
<1> QED BY <1>0, <1>1, <1>2, <1>4, <1>5, InCall, OneCall DEF StoreInv

\* The backup is the document that the call is about to repair.
LEMMA ReplaceBackupKeeps ==
    ASSUME StoreInv, NEW c \in Caller, ReplaceBackup(c) PROVE StoreInv'
<1>0. /\ pc[c] = "replaceBackup" /\ pc[c] # "idle" /\ pc[c] \in Copying
      /\ dir' = [dir EXCEPT !.backup = temp[c]]
      /\ survivors' \subseteq survivors \cup {dir'}
      /\ temp' = [temp EXCEPT ![c] = NoFile]
      /\ pc' = [pc EXCEPT ![c] = "write"]
      /\ UNCHANGED <<locked, stamps, op, loaded, cand, seen>>
  BY DEF ReplaceBackup, At, Go, Copying, Renamed
<1>1. /\ dir' \in Directory /\ dir'.file = dir.file /\ dir'.backup = temp[c]
  BY <1>0, InCall DEF Directory
<1>2. TypeOK'
  <2>1. survivors' \subseteq Directory
    BY <1>0, <1>1 DEF StoreInv, TypeOK
  <2> QED BY <1>0, <1>1, <2>1, NoFileType DEF StoreInv, TypeOK, Steps
<1>3. /\ temp[c].doc = seen[c].doc /\ temp[c].synced /\ op[c] = "save"
      /\ seen[c].doc.kind = "invalid" /\ seen[c].doc = Invalid
  BY <1>0, InCall, DocumentFields DEF TemporaryIsReady
<1>4. DirectoriesSound'
  <2>1. Sound(dir) /\ \A d \in survivors : Sound(d)
    BY DEF StoreInv, DirectoriesSound
  <2>2. Sound(dir)'
    <3>1. dir.file.over \in Document
      BY <1>0, InCall DEF File
    <3>2. dir.file.over.kind = "invalid" => dir.file.over = Invalid
      BY <3>1, DocumentFields
    <3> QED BY <1>0, <1>1, <1>3, <2>1, <3>2 DEF Sound
  <2>3. \A d \in survivors : Sound(d)'
    BY <1>0, <2>1 DEF Sound
  <2> QED BY <1>0, <2>2, <2>3 DEF DirectoriesSound
<1>5. pc'[c] = "write"
  BY <1>0, InCall
<1>6. SeenIsKnown(c)'
  BY <1>0, <1>1, <1>5, InCall DEF SeenIsKnown, Writing
<1>7. TemporaryIsReady(c)'
  BY <1>0, <1>1, <1>3, <1>5, InCall DEF TemporaryIsReady, Copying, Writing
<1> QED BY <1>0, <1>2, <1>4, <1>6, <1>7, InCall, OneCall DEF StoreInv, Steps

\* The file that is renamed over the settings is synced and valid, and if it
\* repairs an invalid document, that one is in the backup.
LEMMA ReplaceKeeps ==
    ASSUME StoreInv, NEW c \in Caller, Replace(c) PROVE StoreInv'
<1>0. /\ pc[c] = "replace" /\ pc[c] # "idle" /\ pc[c] \in Writing
      /\ dir' = [dir EXCEPT !.file = temp[c]]
      /\ survivors' = survivors \cup {dir'}
      /\ temp' = [temp EXCEPT ![c] = NoFile]
      /\ loaded' = [loaded EXCEPT ![c] = temp[c]]
      /\ pc' = [pc EXCEPT ![c] = "syncDirectory"]
      /\ UNCHANGED <<locked, stamps, op, cand, seen>>
  BY DEF Replace, At, Go, Writing, Renamed
<1>1. /\ dir' \in Directory /\ dir'.backup = dir.backup /\ dir'.file = temp[c]
  BY <1>0, InCall DEF Directory
<1>2. TypeOK'
  <2>1. survivors' \subseteq Directory
    BY <1>0, <1>1 DEF StoreInv, TypeOK
  <2>2. temp[c] \in File
    BY <1>0, InCall
  <2> QED BY <1>0, <1>1, <2>1, <2>2, NoFileType DEF StoreInv, TypeOK, Steps
<1>3. /\ temp[c].doc.kind = "valid" /\ temp[c].synced /\ temp[c].stamp \in 1 .. stamps
      /\ temp[c].over = seen[c].doc
      /\ seen[c].doc.kind = "invalid" => dir.backup.doc = seen[c].doc
  BY <1>0, InCall, NextDocumentType DEF TemporaryIsReady, Writing
<1>4. DirectoriesSound'
  <2>1. Sound(dir) /\ \A d \in survivors : Sound(d)
    BY DEF StoreInv, DirectoriesSound
  <2>2. Sound(dir)'
    BY <1>0, <1>1, <1>3, <2>1 DEF Sound
  <2>3. \A d \in survivors : Sound(d)'
    BY <1>0, <2>1 DEF Sound
  <2> QED BY <1>0, <2>2, <2>3 DEF DirectoriesSound
<1>5. pc'[c] = "syncDirectory"
  BY <1>0, InCall
<1> QED BY <1>0, <1>2, <1>4, <1>5, NotWriting, InCall, OneCall DEF StoreInv, Steps

LEMMA SyncDirectoryKeeps ==
    ASSUME StoreInv, NEW c \in Caller, SyncDirectory(c) PROVE StoreInv'
<1>0. /\ pc[c] # "idle" /\ survivors' \subseteq survivors \cup {dir}
      /\ temp' = [temp EXCEPT ![c] = NoFile]
      /\ pc' = [pc EXCEPT ![c] = "idle"] /\ locked' = FALSE
      /\ UNCHANGED <<dir, stamps, op, loaded, cand, seen>>
  BY DEF SyncDirectory, At, Return
<1>1. TypeOK'
  <2>1. survivors' \subseteq Directory
    BY <1>0 DEF StoreInv, TypeOK
  <2>2. locked' \in BOOLEAN
    BY <1>0
  <2> QED BY <1>0, <2>1, <2>2, NoFileType DEF StoreInv, TypeOK, Steps
<1>2. DirectoriesSound'
  <2>1. \A d \in survivors \cup {dir} : Sound(d)
    BY DEF StoreInv, DirectoriesSound
  <2>2. \A d \in survivors \cup {dir} : Sound(d)'
    BY <1>0, <2>1 DEF Sound
  <2> QED BY <1>0, <2>2 DEF DirectoriesSound
<1>3. pc'[c] = "idle"
  BY <1>0, InCall
<1> QED BY <1>0, <1>1, <1>2, <1>3, NotWriting, OneCall DEF StoreInv, Steps

-----------------------------------------------------------------------------
(* Other programs and crashes. *)

LEMMA EditKeeps ==
    ASSUME StoreInv, NEW doc \in {Valid(1, s) : s \in Candidate} \cup {Invalid, NoDoc}, Edit(doc)
    PROVE  StoreInv'
<1> DEFINE file == IF doc = NoDoc THEN NoFile ELSE Foreign(doc, stamps')
<1>0. /\ stamps < MaxStamp /\ stamps' = stamps + 1
      /\ dir' = [dir EXCEPT !.file = file] /\ survivors' = {dir'}
      /\ UNCHANGED <<locked, pc, op, loaded, cand, seen, temp>>
  BY DEF Edit, callVars
<1>1. stamps \in Nat /\ stamps' \in Nat /\ stamps' \in 1 .. MaxStamp /\ stamps' > stamps
  BY <1>0, StoreAssumption DEF StoreInv, TypeOK
<1>2. doc \in Document /\ doc # NoDoc => doc.kind \in {"valid", "invalid"}
  BY DocumentTypes, StoreAssumption DEF Valid, Invalid
<1>3. doc \in Document
  BY DocumentTypes, StoreAssumption
<1>4. /\ file \in File /\ file.synced /\ file.over = NoDoc /\ ~file.ours
      /\ file = NoFile \/ (file.doc = doc /\ doc # NoDoc /\ file.stamp = stamps')
  BY <1>1, <1>3, NoFileType, ForeignFields, ForeignType, StoreAssumption
<1> HIDE DEF file
<1>5. dir' \in Directory /\ dir'.file = file /\ dir'.backup = dir.backup
  BY <1>0, <1>4 DEF StoreInv, TypeOK, Directory
<1>6. TypeOK'
  BY <1>0, <1>1, <1>5 DEF StoreInv, TypeOK
<1>7. DirectoriesSound'
  <2>1. Sound(dir)
    BY DEF StoreInv, DirectoriesSound
  <2>2. NoDoc.kind = "none"
    BY DEF NoDoc
  <2>3. Sound(dir)'
    BY <1>1, <1>2, <1>3, <1>4, <1>5, <2>1, <2>2 DEF Sound
  <2> QED BY <1>0, <2>3 DEF DirectoriesSound
<1>8. Exclusive'
  BY <1>0 DEF StoreInv, Exclusive
<1>9. ASSUME NEW c \in Caller PROVE SeenIsKnown(c)' /\ TemporaryIsReady(c)'
  <2>1. SeenIsKnown(c) /\ TemporaryIsReady(c)
    BY DEF StoreInv, CallsKnow
  <2>2. NextDocument(c)' = NextDocument(c)
    BY <1>0 DEF NextDocument
  <2>3. TemporaryIsReady(c)'
    BY <1>0, <1>1, <1>5, <2>1, <2>2 DEF TemporaryIsReady
  <2>4. SeenIsKnown(c)'
    BY <1>0, <1>1, <1>4, <1>5, <2>1, NoFileType DEF SeenIsKnown
  <2> QED BY <2>3, <2>4
<1> QED BY <1>6, <1>7, <1>8, <1>9 DEF StoreInv, CallsKnow

\* A crash leaves one of the directories that may survive, and its files are
\* synced.
LEMMA CrashKeeps ==
    ASSUME StoreInv, Crash PROVE StoreInv'
<1>1. PICK d \in survivors : dir' = [file |-> AfterCrash(d.file), backup |-> AfterCrash(d.backup)]
  BY DEF Crash
<1>2. Sound(d) /\ d \in Directory
  BY DEF StoreInv, DirectoriesSound, TypeOK
<1>3. dir' = d
  BY <1>1, <1>2 DEF Sound, AfterCrash, Directory
<1>4. survivors' = {d} /\ stamps' = stamps /\ locked' = FALSE /\ pc' = [c \in Caller |-> "idle"]
  BY <1>3 DEF Crash
<1>5. TypeOK'
  <2>1. locked' \in BOOLEAN
    BY <1>4
  <2>2. pc' \in [Caller -> Steps] /\ op' \in [Caller -> {"none", "load", "save"}]
    BY <1>4 DEF Crash, Steps
  <2>3. /\ loaded' \in [Caller -> File] /\ seen' \in [Caller -> File] /\ temp' \in [Caller -> File]
        /\ cand' \in [Caller -> Candidate]
    BY NoFileType, StoreAssumption DEF Crash
  <2> QED BY <1>2, <1>3, <1>4, <2>1, <2>2, <2>3 DEF StoreInv, TypeOK
<1>6. DirectoriesSound'
  BY <1>2, <1>3, <1>4 DEF DirectoriesSound, Sound
<1>7. \A c \in Caller : pc'[c] = "idle"
  BY <1>4
<1>8. Exclusive' /\ CallsKnow'
  BY <1>7, NotWriting DEF Exclusive, CallsKnow
<1> QED BY <1>5, <1>6, <1>8 DEF StoreInv

-----------------------------------------------------------------------------
(* The invariant and the theorems. *)

LEMMA StoreInvNext == StoreInv /\ [StoreNext]_storeVars => StoreInv'
<1> SUFFICES ASSUME StoreInv, [StoreNext]_storeVars PROVE StoreInv'
  OBVIOUS
<1>1. ASSUME NEW c \in Caller, LoadOrCreate(c) \/ \E s \in Candidate : Save(c, s) PROVE StoreInv'
  BY <1>1, BeginKeeps
<1>2. ASSUME NEW c \in Caller, Error(c) \/ Conflict(c) PROVE StoreInv'
  BY <1>2, FailsKeeps DEF Error, Conflict
<1>3. ASSUME NEW c \in Caller, Progress(c) PROVE StoreInv'
  BY <1>2, <1>3, ReadLoadKeeps, ReadSaveKeeps, CopyKeeps, WriteTemporaryKeeps, FinishTemporaryKeeps,
     RecheckKeeps, ReplaceBackupKeeps, ReplaceKeeps, SyncDirectoryKeeps DEF Progress
<1>4. CASE UNCHANGED storeVars
  <2>1. TypeOK' /\ Exclusive'
    BY <1>4 DEF storeVars, callVars, StoreInv, TypeOK, Exclusive
  <2>2. DirectoriesSound'
    BY <1>4, SameDirectories, StoreAssumption DEF storeVars, StoreInv, TypeOK
  <2>3. CallsKnow'
    BY <1>4 DEF storeVars, callVars, StoreInv, CallsKnow, SeenIsKnown, TemporaryIsReady, NextDocument
  <2> QED BY <2>1, <2>2, <2>3 DEF StoreInv
<1> QED BY <1>1, <1>3, <1>4, EditKeeps, CrashKeeps DEF StoreNext

LEMMA StoreInvariant == StoreSpec => []StoreInv
  BY StoreInvInit, StoreInvNext, PTL DEF StoreSpec

\* Every reachable state of the store is well typed; in particular a save never
\* goes past the last revision.
THEOREM StoreTypes == StoreSpec => []TypeOK
<1>1. StoreInv => TypeOK
  BY DEF StoreInv
<1> QED BY <1>1, StoreInvariant, PTL

\* Whenever the machine crashes, the settings file and its backup are whole
\* (finishTemporary syncs before replaceTemporary renames).
THEOREM StoreNeverTorn == StoreSpec => []NeverTorn
<1>1. StoreInv => NeverTorn
  <2> SUFFICES ASSUME StoreInv PROVE NeverTorn
    OBVIOUS
  <2>1. Sound(dir) /\ NoDoc.kind = "none" /\ Torn.kind = "torn"
    BY DEF StoreInv, DirectoriesSound, NoDoc, Torn
  <2> QED BY <2>1, NoFileType DEF Sound, NeverTorn
<1> QED BY <1>1, StoreInvariant, PTL

\* An invalid document that a Save repaired is in the backup, in every directory
\* that a crash may leave (Save copies it before it writes the new one).
THEOREM RepairBackedUp == StoreSpec => []RepairKeepsInvalid
<1>1. StoreInv => RepairKeepsInvalid
  BY DEF StoreInv, DirectoriesSound, Sound, RepairKeepsInvalid
<1> QED BY <1>1, StoreInvariant, PTL

\* Steps of other calls do not move call c.
LEMMA OwnSteps ==
    ASSUME StoreInv, StoreNext, NEW c \in Caller, pc[c] \in Writing, pc'[c] \in Writing \cup {"syncDirectory"},
           pc'[c] # pc[c]
    PROVE  WriteTemporary(c) \/ FinishTemporary(c) \/ Recheck(c) \/ Replace(c)
<1>0. pc \in [Caller -> Steps] /\ pc[c] # "idle"
  BY DEF StoreInv, TypeOK, Writing
<1>1. ASSUME NEW b \in Caller, LoadOrCreate(b) \/ \E s \in Candidate : Save(b, s) PROVE FALSE
  BY <1>0, <1>1 DEF LoadOrCreate, Save, Begin, StoreInv, Exclusive
<1>2. ASSUME NEW doc, Edit(doc) PROVE FALSE
  BY <1>2 DEF Edit
<1>3. ASSUME Crash PROVE FALSE
  BY <1>3 DEF Crash, Writing
<1>4. PICK b \in Caller : Progress(b)
  BY <1>1, <1>2, <1>3 DEF StoreNext
<1>5. \E step \in Steps : pc' = [pc EXCEPT ![b] = step]
  BY <1>4 DEF Progress, Error, Conflict, Fails, Return, ReadLoad, ReadSave, Copy, WriteTemporary,
     FinishTemporary, Recheck, ReplaceBackup, Replace, SyncDirectory, Go, Steps
<1>6. b = c
  BY <1>0, <1>5
<1>7. Error(c) \/ Conflict(c) => pc'[c] = "idle"
  BY <1>0 DEF Error, Conflict, Fails, Return
<1> QED
  BY <1>4, <1>6, <1>7 DEF Progress, ReadLoad, ReadSave, Copy, ReplaceBackup, SyncDirectory, At, Writing

\* A step that replaces a document the program had written replaces the one its
\* caller loaded: between Replace and the last check nobody else moved.
LEMMA ReplacesOnlyLoaded ==
    ASSUME StoreInv, [StoreNext]_storeVars, NEW c \in Caller, Replaces(c), dir.file.ours
    PROVE  /\ op[c] = "save"
           /\ dir.file.stamp = loaded[c].stamp
           /\ dir.file.doc.kind = "valid" => dir'.file.doc.rev = dir.file.doc.rev + 1
<1>1. pc[c] = "replace" /\ pc'[c] = "syncDirectory" /\ pc[c] \in Writing /\ pc[c] # "idle"
  BY DEF Replaces, Writing
<1>2. StoreNext
  BY <1>1 DEF storeVars
<1>3. WriteTemporary(c) \/ FinishTemporary(c) \/ Recheck(c) \/ Replace(c)
  BY <1>1, <1>2, OwnSteps
<1>4. Replace(c)
  BY <1>1, <1>3 DEF WriteTemporary, FinishTemporary, Recheck, At
<1>5. dir'.file = temp[c]
  BY <1>1, <1>4, InCall DEF Replace, Directory
<1>6. dir.file = seen[c] /\ op[c] \in {"load", "save"}
  BY <1>1, InCall DEF SeenIsKnown
<1>7. op[c] = "save" /\ seen[c].stamp = loaded[c].stamp
  BY <1>1, <1>6, InCall, NoFileType DEF SeenIsKnown
<1>8. temp[c].doc = NextDocument(c)
  BY <1>1, InCall DEF TemporaryIsReady, Writing
<1>9. seen[c].doc.kind = "valid" => NextDocument(c).rev = seen[c].doc.rev + 1
  BY <1>7 DEF NextDocument, Valid
<1> QED BY <1>5, <1>6, <1>7, <1>8, <1>9

\* The last check passes only a document that is the one the caller loaded.
LEMMA RecheckPassesLoaded ==
    ASSUME StoreInv, [StoreNext]_storeVars, NEW c \in Caller, pc[c] = "recheck", pc'[c] = "replace"
    PROVE  dir.file.stamp = IF op[c] = "save" THEN loaded[c].stamp ELSE 0
<1>1. pc[c] \in Writing /\ pc'[c] \in Writing /\ pc[c] # "idle"
  BY DEF Writing
<1>2. StoreNext
  BY DEF storeVars
<1>3. WriteTemporary(c) \/ FinishTemporary(c) \/ Recheck(c) \/ Replace(c)
  BY <1>1, <1>2, OwnSteps
<1>4. dir.file.stamp = seen[c].stamp
  BY <1>3 DEF WriteTemporary, FinishTemporary, Recheck, Replace, At, Same
<1> QED BY <1>1, <1>4, InCall, NoFileType DEF SeenIsKnown

\* Neither a save nor a load overwrites what another caller saved in between: the
\* file that a step replaces is the one the caller loaded, and a document another
\* program wrote passes the last check only when it is that one (settings.Store:
\* currentMatches before and after the temporary is written).
THEOREM SavesNotLost == StoreSpec => NoLostSave
<1>1. StoreInv /\ [StoreNext]_storeVars => ReplacesLoaded
  BY ReplacesOnlyLoaded DEF ReplacesLoaded
<1>2. StoreInv /\ [StoreNext]_storeVars => EditsAreConflicts
  BY RecheckPassesLoaded DEF EditsAreConflicts
<1>3. StoreInv /\ [StoreNext]_storeVars => [ReplacesLoaded /\ EditsAreConflicts]_storeVars
  BY <1>1, <1>2
<1> QED BY <1>3, StoreInvariant, PTL DEF StoreSpec, NoLostSave

\* What FilesAreWhole says on every run holds of every number of callers and
\* files: well typed, never torn, and an invalid document kept in the backup.
THEOREM StoreFilesWhole == StoreSpec => []FilesAreWhole
<1>1. TypeOK /\ NeverTorn /\ RepairKeepsInvalid => FilesAreWhole
  BY DEF FilesAreWhole
<1> QED BY <1>1, StoreTypes, StoreNeverTorn, RepairBackedUp, PTL

=============================================================================
