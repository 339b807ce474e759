-------------------------- MODULE PluginManagerProofs --------------------------
(***************************************************************************)
(* Proofs about PluginManager, for any set of plugins and calls, any       *)
(* revisions and any number of starts.                                     *)
(***************************************************************************)
EXTENDS PluginManager, FiniteSetTheorems, TLAPS

-----------------------------------------------------------------------------
(* Types. *)

Modes    == {"none", "open", "closing", "closed"}
Intents  == {"none", "disable", "restart", "close"}
Places   == {"idle", "admission", "persist", "update", "save", "commit", "send", "sent", "waiting", "done"}
AllKinds == {"enable", "disable", "config", "restart", "control"}

SupType ==
    [mode : Modes, intent : Intents, pref : Preference, live : BOOLEAN, startup : Revision,
     inbox : Seq(Call \cup {CloseCmd})]

StarterType == [pc : {"idle", "load", "save", "create", "rollback"}, settings : Settings, starts : Nat]

Types ==
    /\ saved \in Settings /\ settings \in Settings
    /\ lifecycle \in {"notStarted", "starting", "started", "closing", "closed"}
    /\ startDone \in BOOLEAN /\ registered \in BOOLEAN /\ persist \in BOOLEAN
    /\ starter \in StarterType
    /\ closer \in {"idle", "waitStart", "stopping", "done"}
    /\ admission \subseteq Plugin /\ gone \subseteq Call
    /\ sup \in [Plugin -> SupType]
    /\ pc \in [Call -> Places] /\ next \in [Call -> Settings]
    /\ DOMAIN req = Call /\ DOMAIN result = Call
    /\ \A c \in Call : pc[c] # "idle" =>
          /\ req[c].plugin \in Plugin /\ req[c].kind \in AllKinds
          /\ req[c].kind = "config" => req[c].rev \in Revision

LEMMA Names ==
    /\ "none" \in Modes /\ "open" \in Modes /\ "closing" \in Modes /\ "closed" \in Modes
    /\ "none" \in Intents /\ "disable" \in Intents /\ "restart" \in Intents /\ "close" \in Intents
    /\ "admission" \in Places /\ "persist" \in Places /\ "update" \in Places /\ "save" \in Places
    /\ "commit" \in Places /\ "send" \in Places /\ "sent" \in Places /\ "waiting" \in Places /\ "done" \in Places
  BY DEF Modes, Intents, Places

LEMMA SameSupervisors == Supervisor = SupType
  BY DEF Supervisor, SupType, Modes, Intents

LEMMA Revisions == 0 \in Revision /\ Revision \subseteq Nat
  BY ManagerAssumption DEF Revision

\* A preference after a call.
LEMMA PreferenceAfter ==
    ASSUME NEW f \in Preference, NEW c \in Call,
           req[c].kind = "config" => req[c].rev \in Revision
    PROVE  /\ Updated(c, f) \in Preference
           /\ Updated(c, f).installed = f.installed
           /\ Updated(c, f).enabled = (IF req[c].kind = "config" THEN f.enabled ELSE req[c].kind = "enable")
           /\ Updated(c, f).config = IF req[c].kind = "config" THEN req[c].rev ELSE f.config
<1>1. CASE req[c].kind = "config"
  BY <1>1 DEF Updated, Preference
<1>2. CASE req[c].kind # "config"
  <2> DEFINE on == req[c].kind = "enable"
  <2>1. on \in BOOLEAN /\ Updated(c, f) = [f EXCEPT !.enabled = on]
    BY <1>2 DEF Updated
  <2> HIDE DEF on
  <2>2. Updated(c, f) \in Preference /\ Updated(c, f).installed = f.installed /\ Updated(c, f).enabled = on
        /\ Updated(c, f).config = f.config
    BY <2>1 DEF Preference
  <2> QED BY <1>2, <2>2 DEF on
<1> QED BY <1>1, <1>2

\* Two preferences with the same fields are the same.
LEMMA PreferenceIs ==
    ASSUME NEW f \in Preference, NEW g \in Preference, f.installed = g.installed, f.enabled = g.enabled,
           f.config = g.config
    PROVE  f = g
  BY DEF Preference

\* A call moves; the others stay where they are.
LEMMA OneMoves ==
    ASSUME Types, NEW c \in Call, NEW l \in Places
    PROVE  /\ pc' = [pc EXCEPT ![c] = l] => pc' \in [Call -> Places] /\ pc'[c] = l /\ \A d \in Call \ {c} : pc'[d] = pc[d]
           /\ \A r : result' = [result EXCEPT ![c] = r] =>
                 DOMAIN result' = Call /\ result'[c] = r /\ \A d \in Call \ {c} : result'[d] = result[d]
  BY DEF Types

-----------------------------------------------------------------------------
(* What the steps of a call do. *)

\* The steps of a call by itself: all but Begin and what a supervisor does to it.
CallAlone(c) ==
    CallStep(c) \/ CtxDone(c) \/ GiveUp(c) \/ \E r \in {"ok", "failed"} : Delivered(c, r)

Moves(c, from, to) == pc[c] = from /\ pc' = [pc EXCEPT ![c] = to]
Released(c) == admission' = admission \cup {req[c].plugin}
Quiet == UNCHANGED <<saved, settings, next, sup>>
Tokens == UNCHANGED <<admission, persist>>

Rows(c) ==
    \/ Moves(c, "admission", "done") /\ Tokens /\ Quiet
    \/ /\ Moves(c, "admission", IF Persistent(c) THEN "persist" ELSE "send") /\ Quiet
       /\ req[c].plugin \in admission /\ admission' = admission \ {req[c].plugin} /\ persist' = persist
    \/ Moves(c, "persist", "update") /\ persist /\ persist' = FALSE /\ admission' = admission /\ Quiet
    \/ Moves(c, "persist", "done") /\ Released(c) /\ persist' = persist /\ Quiet
    \/ /\ Moves(c, "update", "done") /\ Released(c) /\ persist' = TRUE /\ UNCHANGED <<saved, settings, sup>>
       /\ next' = [next EXCEPT ![c] = [settings EXCEPT ![req[c].plugin] = Updated(c, @)]]
    \/ /\ ~Refused(c, settings[req[c].plugin]) /\ UNCHANGED <<admission, saved, settings, sup>>
       /\ next' = [next EXCEPT ![c] = [settings EXCEPT ![req[c].plugin] = Updated(c, @)]]
       /\ \/ Moves(c, "update", "send") /\ next'[c] = settings /\ persist' = TRUE
          \/ Moves(c, "update", "save") /\ persist' = persist
    \/ Moves(c, "save", "done") /\ Released(c) /\ persist' = TRUE /\ Quiet
    \/ Moves(c, "save", "commit") /\ saved' = next[c] /\ UNCHANGED <<settings, next, sup>> /\ Tokens
    \/ /\ Moves(c, "commit", "send") /\ settings' = next[c] /\ UNCHANGED <<saved, next, sup>>
       /\ persist' = TRUE /\ admission' = admission
    \/ /\ Moves(c, "send", "sent") /\ sup' = [sup EXCEPT ![req[c].plugin].inbox = Append(@, c)]
       /\ sup[req[c].plugin].mode # "closed" /\ UNCHANGED <<saved, settings, next>> /\ Tokens
    \/ /\ pc[c] \in {"send", "sent"} /\ Moves(c, pc[c], "done") /\ Released(c) /\ persist' = persist /\ Quiet
       /\ sup[req[c].plugin].mode = "closed" \/ ~Persistent(c)
    \/ Moves(c, "waiting", "done") /\ Tokens /\ Quiet
    \/ pc' = pc /\ Tokens /\ Quiet

LEMMA CallMoves ==
    ASSUME Types, NEW c \in Call, CallAlone(c)
    PROVE  /\ UNCHANGED <<startVars, req, dropped>> /\ gone' \subseteq Call
           /\ Rows(c)
           /\ DOMAIN result' = Call /\ \A d \in Call \ {c} : result'[d] = result[d]
           /\ result'[c] # "ok" \/ result' = result \/ (pc[c] = "waiting" /\ pc' = [pc EXCEPT ![c] = "done"])
<1> USE DEF Moves, Released, Quiet, Tokens
<1>1. UNCHANGED <<startVars, req, dropped>> /\ gone' \subseteq Call
  BY DEF CallAlone, CallStep, AcquireAdmission, AcquirePersist, Update, SaveFails, SaveSucceeds, Commit, Send, LoopGone,
     CtxDone, GiveUp, Delivered, restOfSup, callVars, Types
<1>2. Rows(c)
  <2>1. CASE AcquireAdmission(c)
    BY <2>1, Zenon DEF AcquireAdmission, Goto, Return, startVars, callVars, Rows
  <2>2. CASE AcquirePersist(c)
    BY <2>2, Zenon DEF AcquirePersist, PersistFree, Goto, Return, ReleaseAdmission, Rows
  <2>3. CASE Update(c)
    BY <2>3, Zenon DEF Update, Goto, Return, ReleaseAdmission, Rows
  <2>4. CASE SaveFails(c)
    BY <2>4, Zenon DEF SaveFails, Goto, Return, ReleaseAdmission, Rows
  <2>5. CASE SaveSucceeds(c)
    BY <2>5, Zenon DEF SaveSucceeds, Goto, Rows
  <2>6. CASE Commit(c)
    BY <2>6, Zenon DEF Commit, AdmissionHeld, Goto, Rows
  <2>7. CASE Send(c)
    <3>1. CASE pc' = [pc EXCEPT ![c] = "sent"]
      BY <2>7, <3>1 DEF Send, Goto, Return, ReleaseAdmission, Rows, Types
    <3>2. CASE ~(pc' = [pc EXCEPT ![c] = "sent"])
      BY <2>7, <3>2 DEF Send, Goto, Return, ReleaseAdmission, Rows
    <3> QED BY <3>1, <3>2
  <2>8. CASE LoopGone(c)
    BY <2>8 DEF LoopGone, Return, ReleaseAdmission, restOfSup, Rows
  <2>9. CASE GiveUp(c)
    BY <2>9 DEF GiveUp, Return, ReleaseAdmission, restOfSup, Rows
  <2>10. CASE CtxDone(c)
    BY <2>10, Zenon DEF CtxDone, callVars, Rows
  <2>11. ASSUME NEW r, Delivered(c, r) PROVE Rows(c)
    <3>1. /\ pc[c] = "waiting" /\ pc' = [d \in Call |-> IF d \in {c} THEN "done" ELSE pc[d]]
          /\ Tokens /\ Quiet
      BY <2>11 DEF Delivered, ReturnAll, restOfSup
    <3>2. pc' = [pc EXCEPT ![c] = "done"]
      BY <3>1 DEF Types
    <3> QED BY <3>1, <3>2, Zenon DEF Rows
  <2> QED BY <2>1, <2>2, <2>3, <2>4, <2>5, <2>6, <2>7, <2>8, <2>9, <2>10, <2>11 DEF CallAlone, CallStep
<1>3. \/ result' = result
      \/ \E r : result' = [result EXCEPT ![c] = r] /\ r # "ok"
      \/ \E r : Delivered(c, r)
  <2>1. CASE Update(c)
    BY <2>1 DEF Update, Goto, Return, TargetError
  <2>2. CASE AcquireAdmission(c) \/ AcquirePersist(c) \/ SaveFails(c) \/ SaveSucceeds(c) \/ Commit(c) \/ CtxDone(c)
    BY <2>2 DEF AcquireAdmission, AcquirePersist, SaveFails, SaveSucceeds, Commit, CtxDone, Goto, Return, callVars
  <2>3. CASE Send(c) \/ LoopGone(c) \/ GiveUp(c)
    BY <2>3 DEF Send, LoopGone, GiveUp, Goto, Return
  <2> QED BY <2>1, <2>2, <2>3 DEF CallAlone, CallStep
<1>4. ASSUME NEW r, Delivered(c, r)
      PROVE  /\ DOMAIN result' = Call /\ \A d \in Call \ {c} : result'[d] = result[d]
             /\ pc[c] = "waiting" /\ pc' = [pc EXCEPT ![c] = "done"]
  BY <1>4 DEF Delivered, ReturnAll, Types
<1> QED BY <1>1, <1>2, <1>3, <1>4, OneMoves DEF Types

-----------------------------------------------------------------------------
(* What the steps of a supervisor do. *)

SupervisorMoves(p) == SupervisorStep(p) \/ SessionLost(p) \/ Relaunch(p)

\* The supervisor of p after a step; the others stay as they are.
SupIs(p, mode, intent, pref, inbox) ==
    /\ sup' \in [Plugin -> SupType] /\ \A q \in Plugin \ {p} : sup'[q] = sup[q]
    /\ sup'[p].mode = mode /\ sup'[p].intent = intent /\ sup'[p].pref = pref /\ sup'[p].inbox = inbox

LEMMA Launching ==
    ASSUME NEW s \in SupType
    PROVE  /\ Launched(s) \in SupType /\ Launched(s).mode = s.mode /\ Launched(s).intent = s.intent
           /\ Launched(s).pref = s.pref /\ Launched(s).inbox = s.inbox /\ Launched(s).live
  BY DEF Launched, SupType, Preference

\* The next command is taken from the inbox.
LEMMA Resting ==
    ASSUME Types, NEW p \in Plugin, sup[p].inbox # << >>
    PROVE  /\ Rest(p) \in SupType /\ Rest(p).mode = sup[p].mode /\ Rest(p).intent = sup[p].intent
           /\ Rest(p).pref = sup[p].pref /\ Rest(p).inbox = Tail(sup[p].inbox) /\ Rest(p).live = sup[p].live
<1>1. sup[p] \in SupType /\ Tail(sup[p].inbox) \in Seq(Call \cup {CloseCmd})
  BY DEF Types, SupType
<1> QED BY <1>1 DEF Rest, SupType

LEMMA Replacing ==
    ASSUME Types, NEW p \in Plugin, NEW s \in SupType, sup' = [sup EXCEPT ![p] = s]
    PROVE  SupIs(p, s.mode, s.intent, s.pref, s.inbox)
  BY DEF Types, SupIs

\* What call c is told, and whether it waits.
Told(c) ==
    /\ Released(c)
    /\ \/ pc' = [pc EXCEPT ![c] = "waiting"] /\ result' = result
       \/ pc' = [pc EXCEPT ![c] = "done"] /\ \E r : result' = [result EXCEPT ![c] = r]

LEMMA Telling ==
    ASSUME NEW c, NEW r, Admit(c, r)
    PROVE  /\ Told(c)
           /\ \/ pc' = [pc EXCEPT ![c] = "waiting"] /\ result' = result /\ r = "pending"
              \/ /\ pc' = [pc EXCEPT ![c] = "done"]
                 /\ result' = [result EXCEPT ![c] = IF c \in gone THEN "canceled" ELSE r]
  BY Zenon DEF Admit, Told, Released, ReleaseAdmission, Goto, Return

\* A command that is refused, or was given up.
Refusal(p, c) ==
    /\ Taken(p, c) /\ c # CloseCmd
    /\ SupIs(p, sup[p].mode, sup[p].intent, sup[p].pref, Tail(sup[p].inbox))
    /\ dropped' = IF Persistent(c) THEN dropped \cup {c} ELSE dropped
    /\ \/ pc[c] # "sent" /\ UNCHANGED <<admission, pc, result>>
       \/ /\ pc[c] = "sent" /\ Released(c) /\ pc' = [pc EXCEPT ![c] = "done"]
          /\ \E r : result' = [result EXCEPT ![c] = r] /\ r # "ok"

\* A command that is admitted.
Admission(p, c) ==
    /\ Taken(p, c) /\ c # CloseCmd /\ pc[c] = "sent" /\ sup[p].mode = "open" /\ sup[p].intent = "none"
    /\ dropped' = dropped /\ Told(c)
    /\ \E intent \in Intents, pref \in Preference :
          /\ SupIs(p, "open", intent, pref, Tail(sup[p].inbox))
          /\ intent # "close"
          /\ pc' = [pc EXCEPT ![c] = "waiting"] /\ req[c].kind \in {"disable", "restart"} => intent # "none"
          /\ \/ pref = sup[p].pref /\ ~Persistent(c)
             \/ pref = Updated(c, sup[p].pref) /\ Persistent(c) /\ ~Refused(c, sup[p].pref)
             \/ /\ pref = sup[p].pref /\ Refused(c, sup[p].pref) /\ pc' = [pc EXCEPT ![c] = "done"]
                /\ \E r : result' = [result EXCEPT ![c] = r] /\ r # "ok"

\* The calls in W, whose stop is over or refused, return r.
Answered(p, W, r) ==
    /\ W \subseteq StopOwners(p) /\ ReturnAll(W, r) /\ UNCHANGED <<admission, dropped>>

TakesCommand(p) == \E c \in Call : Refusal(p, c) \/ Admission(p, c)

TakesClose(p) ==
    /\ Taken(p, CloseCmd) /\ sup[p].mode = "open"
    /\ \E mode, intent, pref :
          /\ SupIs(p, mode, intent, pref, Tail(sup[p].inbox))
          /\ \/ mode = "closing" /\ intent = "close"
             \/ mode = "closed"
          /\ pref.config = sup[p].pref.config
    /\ \E W : Answered(p, W, "invalid_state")

StopEnds(p) ==
    /\ sup[p].intent # "none" /\ sup[p].mode \in {"open", "closing"}
    /\ \E mode :
          /\ SupIs(p, mode, "none", sup[p].pref, sup[p].inbox)
          /\ mode = sup[p].mode \/ (mode = "closed" /\ sup[p].intent = "close")
    /\ \E r : Answered(p, StopOwners(p), r)

SessionChanges(p) ==
    /\ SupIs(p, sup[p].mode, sup[p].intent, sup[p].pref, sup[p].inbox)
    /\ UNCHANGED <<dropped, admission, pc, result>>

SupRows(p) == TakesCommand(p) \/ TakesClose(p) \/ StopEnds(p) \/ SessionChanges(p)

LEMMA SupMoves ==
    ASSUME Types, NEW p \in Plugin, SupervisorMoves(p)
    PROVE  UNCHANGED restOfSup /\ SupRows(p)
<1>0. UNCHANGED restOfSup
  BY Zenon DEF SupervisorMoves, SupervisorStep, Refuse, HandleEnable, HandleDisable, HandleRestart, HandleConfig,
     HandleControl, Accept, HandleClose, StopDone, SessionLost, Relaunch
<1>s. sup[p] \in SupType /\ sup[p].pref \in Preference /\ sup[p].live \in BOOLEAN /\ sup[p].intent \in Intents
  BY DEF Types, SupType
<1>1. ASSUME NEW c \in Call, Refuse(p, c) PROVE Refusal(p, c)
  <2>1. /\ Taken(p, c) /\ c # CloseCmd /\ sup' = [sup EXCEPT ![p] = Rest(p)] /\ sup[p].inbox # << >>
        /\ dropped' = IF Persistent(c) THEN dropped \cup {c} ELSE dropped
    BY <1>1, Zenon DEF Refuse, Taken
  <2>2. SupIs(p, sup[p].mode, sup[p].intent, sup[p].pref, Tail(sup[p].inbox))
    BY <2>1, Resting, Replacing
  <2>3. \/ pc[c] # "sent" /\ UNCHANGED <<admission, pc, result>>
        \/ pc[c] = "sent" /\ \E r : Admit(c, r) /\ r \notin {"pending", "ok"}
    BY <1>1 DEF Refuse
  <2>4. ASSUME NEW r, Admit(c, r), r \notin {"pending", "ok"}
        PROVE  /\ Released(c) /\ pc' = [pc EXCEPT ![c] = "done"]
               /\ \E x : result' = [result EXCEPT ![c] = x] /\ x # "ok"
    <3>1. Released(c) /\ pc' = [pc EXCEPT ![c] = "done"] /\ result' = [result EXCEPT ![c] = IF c \in gone THEN "canceled" ELSE r]
      BY <2>4, Telling, Zenon DEF Told
    <3>2. (IF c \in gone THEN "canceled" ELSE r) # "ok"
      BY <2>4
    <3> QED BY <3>1, <3>2, Zenon
  <2> QED BY <2>1, <2>2, <2>3, <2>4, Zenon DEF Refusal
<1>2. ASSUME NEW c \in Call, NEW kinds, Accept(p, c, kinds)
      PROVE  /\ Taken(p, c) /\ c # CloseCmd /\ pc[c] = "sent" /\ sup[p].mode = "open" /\ sup[p].intent = "none"
             /\ dropped' = dropped /\ sup[p].inbox # << >> /\ req[c].kind \in kinds
             /\ req[c].kind = "config" => req[c].rev \in Revision
  BY <1>2 DEF Accept, Admissible, Taken, Types
<1>3. ASSUME NEW c \in Call, NEW s \in SupType, sup' = [sup EXCEPT ![p] = s], NEW kinds, Accept(p, c, kinds),
             s.mode = "open", s.inbox = Tail(sup[p].inbox), s.intent \in {"none", "disable", "restart"}, NEW r, Admit(c, r),
             s.pref \in Preference,
             req[c].kind \in {"disable", "restart"} /\ r = "pending" => s.intent # "none",
             \/ s.pref = sup[p].pref /\ ~Persistent(c)
             \/ s.pref = Updated(c, sup[p].pref) /\ Persistent(c) /\ ~Refused(c, sup[p].pref)
             \/ s.pref = sup[p].pref /\ Refused(c, sup[p].pref) /\ r = "refused"
      PROVE  Admission(p, c)
  <2> DEFINE intentOf == s.intent
             prefOf == s.pref
  <2>1. SupIs(p, "open", s.intent, s.pref, Tail(sup[p].inbox))
    BY <1>3, Replacing
  <2>2. Told(c)
    BY <1>3, Telling
  <2>3. pc' = [pc EXCEPT ![c] = "waiting"] => r = "pending"
    <3>1. ASSUME pc' = [pc EXCEPT ![c] = "waiting"] PROVE pc'[c] = "waiting"
      BY <3>1, OneMoves, Names, Zenon
    <3>2. ASSUME pc' = [pc EXCEPT ![c] = "done"] PROVE pc'[c] = "done"
      BY <3>2, OneMoves, Names, Zenon
    <3> QED BY <1>3, <3>1, <3>2, Telling
  <2>4. r = "refused" => pc' = [pc EXCEPT ![c] = "done"] /\ \E x : result' = [result EXCEPT ![c] = x] /\ x # "ok"
    BY <1>3, Telling
  <2>5. s.intent \in Intents /\ s.intent # "close"
    BY <1>3 DEF Intents
  <2>6. /\ intentOf \in Intents /\ prefOf \in Preference
        /\ SupIs(p, "open", intentOf, prefOf, Tail(sup[p].inbox)) /\ intentOf # "close"
        /\ pc' = [pc EXCEPT ![c] = "waiting"] /\ req[c].kind \in {"disable", "restart"} => intentOf # "none"
        /\ \/ prefOf = sup[p].pref /\ ~Persistent(c)
           \/ prefOf = Updated(c, sup[p].pref) /\ Persistent(c) /\ ~Refused(c, sup[p].pref)
           \/ /\ prefOf = sup[p].pref /\ Refused(c, sup[p].pref) /\ pc' = [pc EXCEPT ![c] = "done"]
              /\ \E x : result' = [result EXCEPT ![c] = x] /\ x # "ok"
    BY <1>3, <2>1, <2>3, <2>4, <2>5
  <2>7. /\ Taken(p, c) /\ c # CloseCmd /\ pc[c] = "sent" /\ sup[p].mode = "open" /\ sup[p].intent = "none"
        /\ dropped' = dropped
    BY <1>2, <1>3, Zenon
  <2> HIDE DEF intentOf, prefOf
  <2> QED BY <2>2, <2>6, <2>7, Zenon DEF Admission
<1>4. ASSUME NEW c \in Call, HandleEnable(p, c) PROVE Admission(p, c)
  <2>1. Accept(p, c, {"enable"}) /\ Admit(c, "ok")
    BY <1>4, Zenon DEF HandleEnable
  <2>2. /\ Rest(p) \in SupType /\ Rest(p).mode = "open" /\ Rest(p).intent = "none" /\ Rest(p).pref = sup[p].pref
        /\ Rest(p).inbox = Tail(sup[p].inbox) /\ req[c].kind = "enable"
    BY <1>2, <2>1, Resting
  <2>3. Persistent(c) /\ ~Refused(c, sup[p].pref)
    BY <2>2 DEF Persistent, PersistentKinds, Refused
  <2>4. CASE sup[p].pref.enabled
    <3>1. Updated(c, sup[p].pref) = sup[p].pref
      BY <1>s, <2>2, <2>4 DEF Updated, Preference
    <3>2. sup' = [sup EXCEPT ![p] = Rest(p)]
      BY <1>4, <2>4, Zenon DEF HandleEnable
    <3> QED BY <1>s, <1>3, <2>1, <2>2, <2>3, <3>1, <3>2
  <2>5. CASE ~sup[p].pref.enabled
    <3> DEFINE on == [Rest(p) EXCEPT !.pref.enabled = TRUE]
    <3>1. /\ on \in SupType /\ on.mode = "open" /\ on.intent = "none" /\ on.inbox = Tail(sup[p].inbox)
          /\ on.pref = [sup[p].pref EXCEPT !.enabled = TRUE]
      BY <2>2 DEF SupType, Preference
    <3>2. on.pref = Updated(c, sup[p].pref)
      BY <1>s, <2>2, <3>1 DEF Updated
    <3>3. sup' = [sup EXCEPT ![p] = Launched(on)]
      BY <1>4, <2>5, Zenon DEF HandleEnable
    <3> HIDE DEF on
    <3>4. /\ Launched(on) \in SupType /\ Launched(on).mode = "open" /\ Launched(on).intent = "none"
          /\ Launched(on).inbox = Tail(sup[p].inbox) /\ Launched(on).pref = Updated(c, sup[p].pref)
      BY <3>1, <3>2, Launching
    <3>5. Launched(on).pref \in Preference
      BY <3>4 DEF SupType
    <3> QED BY <1>3, <2>1, <2>2, <2>3, <3>3, <3>4, <3>5
  <2> QED BY <2>4, <2>5
<1>5. ASSUME NEW c \in Call, HandleDisable(p, c) PROVE Admission(p, c)
  <2>1. Accept(p, c, {"disable"}) /\ Admit(c, IF sup[p].live THEN "pending" ELSE "ok")
    BY <1>5, Zenon DEF HandleDisable
  <2>2. /\ Rest(p) \in SupType /\ Rest(p).mode = "open" /\ Rest(p).pref = sup[p].pref
        /\ Rest(p).inbox = Tail(sup[p].inbox) /\ req[c].kind = "disable"
    BY <1>2, <2>1, Resting
  <2>3. Persistent(c) /\ ~Refused(c, sup[p].pref)
    BY <2>2 DEF Persistent, PersistentKinds, Refused
  <2> DEFINE intent == IF sup[p].live THEN "disable" ELSE "none"
             off == [Rest(p) EXCEPT !.pref.enabled = FALSE, !.intent = intent]
  <2>4. intent \in Intents /\ intent \in {"none", "disable", "restart"} /\ (sup[p].live => intent # "none")
    BY DEF Intents
  <2>5. sup' = [sup EXCEPT ![p] = off]
    BY <1>5, Zenon DEF HandleDisable
  <2> HIDE DEF intent
  <2>6. /\ off \in SupType /\ off.mode = "open" /\ off.intent = intent /\ off.inbox = Tail(sup[p].inbox)
        /\ off.pref = [sup[p].pref EXCEPT !.enabled = FALSE] /\ off.pref \in Preference
    BY <2>2, <2>4 DEF SupType, Preference
  <2>7. off.pref = Updated(c, sup[p].pref)
    BY <1>s, <2>2, <2>6 DEF Updated
  <2> HIDE DEF off
  <2> QED BY <1>3, <2>1, <2>2, <2>3, <2>4, <2>5, <2>6, <2>7
<1>6. ASSUME NEW c \in Call, HandleRestart(p, c) PROVE Admission(p, c)
  <2>1. Accept(p, c, {"restart"}) /\ Admit(c, IF sup[p].live THEN "pending" ELSE "ok")
    BY <1>6, Zenon DEF HandleRestart
  <2>2. /\ Rest(p) \in SupType /\ Rest(p).mode = "open" /\ Rest(p).pref = sup[p].pref /\ Rest(p).intent = "none"
        /\ Rest(p).inbox = Tail(sup[p].inbox) /\ req[c].kind = "restart"
    BY <1>2, <2>1, Resting
  <2>3. ~Persistent(c)
    BY <2>2 DEF Persistent, PersistentKinds
  <2>4. CASE sup[p].live
    <3> DEFINE stopping == [Rest(p) EXCEPT !.intent = "restart"]
    <3>1. sup' = [sup EXCEPT ![p] = stopping]
      BY <1>6, <2>4, Zenon DEF HandleRestart
    <3>2. /\ stopping \in SupType /\ stopping.mode = "open" /\ stopping.intent = "restart"
          /\ stopping.inbox = Tail(sup[p].inbox) /\ stopping.pref = sup[p].pref
      BY <2>2, Names DEF SupType
    <3> HIDE DEF stopping
    <3> QED BY <1>s, <1>3, <2>1, <2>2, <2>3, <3>1, <3>2
  <2>5. CASE ~sup[p].live
    <3>1. \/ sup' = [sup EXCEPT ![p] = Launched(Rest(p))]
          \/ sup' = [sup EXCEPT ![p] = Rest(p)]
      BY <1>6, <2>5, Zenon DEF HandleRestart
    <3>2. /\ Launched(Rest(p)) \in SupType /\ Launched(Rest(p)).mode = "open" /\ Launched(Rest(p)).intent = "none"
          /\ Launched(Rest(p)).inbox = Tail(sup[p].inbox) /\ Launched(Rest(p)).pref = sup[p].pref
      BY <2>2, Launching
    <3>3. CASE sup' = [sup EXCEPT ![p] = Launched(Rest(p))]
      BY <1>s, <1>3, <2>1, <2>2, <2>3, <2>5, <3>2, <3>3
    <3>4. CASE sup' = [sup EXCEPT ![p] = Rest(p)]
      BY <1>s, <1>3, <2>1, <2>2, <2>3, <2>5, <3>4
    <3> QED BY <3>1, <3>3, <3>4
  <2> QED BY <2>4, <2>5
<1>7. ASSUME NEW c \in Call, HandleConfig(p, c) PROVE Admission(p, c)
  <2>1. Accept(p, c, {"config"})
    BY <1>7, Zenon DEF HandleConfig
  <2>2. /\ Rest(p) \in SupType /\ Rest(p).mode = "open" /\ Rest(p).pref = sup[p].pref /\ Rest(p).intent = "none"
        /\ Rest(p).inbox = Tail(sup[p].inbox) /\ req[c].kind = "config" /\ req[c].rev \in Revision
    BY <1>2, <2>1, Resting
  <2>3. Persistent(c)
    BY <2>2 DEF Persistent, PersistentKinds
  <2>4. CASE Refused(c, sup[p].pref)
    <3>1. sup' = [sup EXCEPT ![p] = Rest(p)] /\ Admit(c, "refused")
      BY <1>7, <2>4, Zenon DEF HandleConfig
    <3> QED BY <1>s, <1>3, <2>1, <2>2, <2>4, <3>1
  <2>5. CASE ~Refused(c, sup[p].pref)
    <3> DEFINE new == [Rest(p) EXCEPT !.pref = Updated(c, @)]
    <3>1. sup' = [sup EXCEPT ![p] = new] /\ \E r : Admit(c, r)
      BY <1>7, <2>5, Zenon DEF HandleConfig
    <3>2. Updated(c, sup[p].pref) \in Preference
      BY <1>s, <2>2, PreferenceAfter
    <3>3. /\ new \in SupType /\ new.mode = "open" /\ new.intent = "none"
          /\ new.inbox = Tail(sup[p].inbox) /\ new.pref = Updated(c, sup[p].pref)
      BY <2>2, <3>2 DEF SupType
    <3> HIDE DEF new
    <3> QED BY <1>3, <2>1, <2>2, <2>3, <2>5, <3>1, <3>2, <3>3
  <2> QED BY <2>4, <2>5
<1>8. ASSUME NEW c \in Call, HandleControl(p, c) PROVE Admission(p, c)
  <2>1. Accept(p, c, {"control"}) /\ sup' = [sup EXCEPT ![p] = Rest(p)] /\ \E r : Admit(c, r)
    BY <1>8, Zenon DEF HandleControl
  <2>2. /\ Rest(p) \in SupType /\ Rest(p).mode = "open" /\ Rest(p).pref = sup[p].pref /\ Rest(p).intent = "none"
        /\ Rest(p).inbox = Tail(sup[p].inbox) /\ req[c].kind = "control"
    BY <1>2, <2>1, Resting
  <2>3. ~Persistent(c)
    BY <2>2 DEF Persistent, PersistentKinds
  <2> QED BY <1>s, <1>3, <2>1, <2>2, <2>3
<1>9. ASSUME HandleClose(p) PROVE SupRows(p)
  <2> DEFINE off == [Rest(p) EXCEPT !.pref.enabled = FALSE]
             closing == [off EXCEPT !.mode = "closing", !.intent = "close"]
             closed == [off EXCEPT !.mode = "closed"]
             W == {c \in StopOwners(p) : req[c].kind = "restart"}
  <2>1. /\ Taken(p, CloseCmd) /\ sup[p].mode = "open" /\ sup[p].inbox # << >>
        /\ sup' = [sup EXCEPT ![p] = IF sup[p].live THEN closing ELSE closed]
        /\ ReturnAll(W, "invalid_state") /\ UNCHANGED <<admission, dropped>>
    BY <1>9, Zenon DEF HandleClose, Taken
  <2>2. Rest(p) \in SupType /\ Rest(p).pref = sup[p].pref /\ Rest(p).inbox = Tail(sup[p].inbox)
    BY <2>1, Resting
  <2>3. /\ off \in SupType /\ off.inbox = Tail(sup[p].inbox) /\ off.pref.config = sup[p].pref.config
    BY <2>2 DEF SupType, Preference
  <2> HIDE DEF off
  <2>4. /\ closing \in SupType /\ closing.mode = "closing" /\ closing.intent = "close"
        /\ closing.inbox = Tail(sup[p].inbox) /\ closing.pref.config = sup[p].pref.config
    BY <2>3, Names DEF SupType
  <2>5. /\ closed \in SupType /\ closed.mode = "closed"
        /\ closed.inbox = Tail(sup[p].inbox) /\ closed.pref.config = sup[p].pref.config
    BY <2>3, Names DEF SupType
  <2> HIDE DEF closing, closed
  <2>6. \E mode, intent, pref :
           /\ SupIs(p, mode, intent, pref, Tail(sup[p].inbox))
           /\ \/ mode = "closing" /\ intent = "close"
              \/ mode = "closed"
           /\ pref.config = sup[p].pref.config
    <3>1. CASE sup' = [sup EXCEPT ![p] = closing]
      BY <2>4, <3>1, Replacing
    <3>2. CASE sup' = [sup EXCEPT ![p] = closed]
      <4>1. SupIs(p, "closed", closed.intent, closed.pref, Tail(sup[p].inbox))
        BY <2>5, <3>2, Replacing
      <4> QED BY <2>5, <4>1
    <3> QED BY <2>1, <3>1, <3>2
  <2>7. Answered(p, W, "invalid_state")
    <3>1. W \subseteq StopOwners(p)
      OBVIOUS
    <3> QED BY <2>1, <3>1, Zenon DEF Answered
  <2> QED BY <2>1, <2>6, <2>7, Zenon DEF SupRows, TakesClose
<1>10. ASSUME NEW r, StopDone(p, r) PROVE SupRows(p)
  <2> DEFINE stopped == [sup[p] EXCEPT !.intent = "none", !.live = FALSE]
             closed == [stopped EXCEPT !.mode = "closed"]
  <2>1. /\ sup[p].mode \in {"open", "closing"} /\ sup[p].intent # "none"
        /\ \/ sup' = [sup EXCEPT ![p] = Launched(stopped)]
           \/ sup' = [sup EXCEPT ![p] = closed] /\ sup[p].intent = "close"
           \/ sup' = [sup EXCEPT ![p] = stopped]
        /\ ReturnAll(StopOwners(p), r) /\ UNCHANGED <<admission, dropped>>
    BY <1>10 DEF StopDone
  <2>2. Answered(p, StopOwners(p), r)
    BY <2>1, Zenon DEF Answered
  <2>3. /\ stopped \in SupType /\ stopped.mode = sup[p].mode /\ stopped.intent = "none"
        /\ stopped.pref = sup[p].pref /\ stopped.inbox = sup[p].inbox
    BY <1>s, Names DEF SupType
  <2> HIDE DEF stopped
  <2>4. /\ closed \in SupType /\ closed.mode = "closed" /\ closed.intent = "none"
        /\ closed.pref = sup[p].pref /\ closed.inbox = sup[p].inbox
    BY <2>3, Names DEF SupType
  <2> HIDE DEF closed
  <2>5. \E mode : /\ SupIs(p, mode, "none", sup[p].pref, sup[p].inbox)
                  /\ mode = sup[p].mode \/ (mode = "closed" /\ sup[p].intent = "close")
    <3>1. CASE sup' = [sup EXCEPT ![p] = Launched(stopped)]
      <4>1. /\ Launched(stopped) \in SupType /\ Launched(stopped).mode = sup[p].mode
            /\ Launched(stopped).intent = "none" /\ Launched(stopped).pref = sup[p].pref
            /\ Launched(stopped).inbox = sup[p].inbox
        BY <2>3, Launching
      <4>2. SupIs(p, sup[p].mode, "none", sup[p].pref, sup[p].inbox)
        BY <3>1, <4>1, Replacing
      <4> QED BY <4>2
    <3>2. CASE sup' = [sup EXCEPT ![p] = closed] /\ sup[p].intent = "close"
      <4>1. SupIs(p, "closed", "none", sup[p].pref, sup[p].inbox)
        BY <2>4, <3>2, Replacing
      <4> QED BY <3>2, <4>1
    <3>3. CASE sup' = [sup EXCEPT ![p] = stopped]
      <4>1. SupIs(p, sup[p].mode, "none", sup[p].pref, sup[p].inbox)
        BY <2>3, <3>3, Replacing
      <4> QED BY <4>1
    <3> QED BY <2>1, <3>1, <3>2, <3>3
  <2> QED BY <2>1, <2>2, <2>5, Zenon DEF SupRows, StopEnds
<1>11. ASSUME SessionLost(p) \/ Relaunch(p) PROVE SupRows(p)
  <2>1. /\ UNCHANGED <<dropped, admission, pc, result>>
        /\ \/ sup' = [sup EXCEPT ![p].live = FALSE]
           \/ sup' = [sup EXCEPT ![p] = Launched(sup[p])]
    BY <1>11, Zenon DEF SessionLost, Relaunch
  <2>2. SupIs(p, sup[p].mode, sup[p].intent, sup[p].pref, sup[p].inbox)
    <3>1. CASE sup' = [sup EXCEPT ![p].live = FALSE]
      <4> DEFINE lost == [sup[p] EXCEPT !.live = FALSE]
      <4>1. /\ lost \in SupType /\ lost.mode = sup[p].mode /\ lost.intent = sup[p].intent
            /\ lost.pref = sup[p].pref /\ lost.inbox = sup[p].inbox
        BY <1>s DEF SupType
      <4>2. sup' = [sup EXCEPT ![p] = lost]
        BY <3>1
      <4> HIDE DEF lost
      <4> QED BY <4>1, <4>2, Replacing
    <3>2. CASE sup' = [sup EXCEPT ![p] = Launched(sup[p])]
      BY <1>s, <3>2, Launching, Replacing
    <3> QED BY <2>1, <3>1, <3>2
  <2> QED BY <2>1, <2>2, Zenon DEF SupRows, SessionChanges
<1>12. CASE \E c \in Call : Refusal(p, c) \/ Admission(p, c)
  BY <1>0, <1>12, Zenon DEF SupRows, TakesCommand
<1> QED
  BY <1>0, <1>1, <1>4, <1>5, <1>6, <1>7, <1>8, <1>9, <1>10, <1>11, <1>12, Zenon DEF SupervisorMoves, SupervisorStep

-----------------------------------------------------------------------------
(* The inductive invariant. *)

\* Start and Close.
LifeInv ==
    /\ startDone <=> starter.pc = "idle"
    /\ lifecycle = "notStarted" => closer = "idle" /\ starter.pc = "idle" /\ ~registered
    /\ lifecycle = "starting" => closer = "idle" /\ starter.pc # "idle"
    /\ lifecycle = "started" => closer = "idle" /\ registered
    /\ lifecycle = "closing" => closer \in {"waitStart", "stopping"}
    /\ lifecycle = "closed" => closer = "done"
    /\ registered => starter.pc = "idle" /\ lifecycle \in {"started", "closing", "closed"}
    /\ closer \in {"stopping", "done"} => starter.pc = "idle"

InInbox(p, x) == \E i \in DOMAIN sup[p].inbox : sup[p].inbox[i] = x

\* The supervisors.
SupInv ==
    /\ ~registered /\ starter.pc \in {"idle", "load", "save"} => AllClosed
    /\ starter.pc = "create" =>
          /\ starter.settings = saved
          /\ \A p \in Plugin :
                \/ sup[p].mode \in {"none", "closed"}
                \/ sup[p].mode = "open" /\ sup[p].inbox = << >> /\ sup[p].intent = "none" /\ sup[p].pref = saved[p]
    /\ registered /\ closer \in {"idle", "waitStart"} =>
          \A p \in Plugin : sup[p].mode = "open" /\ sup[p].intent # "close" /\ ~InInbox(p, CloseCmd)
    /\ registered /\ closer = "stopping" =>
          \A p \in Plugin : sup[p].mode \in {"closing", "closed"} \/ InInbox(p, CloseCmd)
    /\ closer = "done" => AllClosed

\* The calls.
CallInv ==
    /\ dropped \subseteq Call
    /\ \A c \in Call :
          /\ pc[c] \notin {"idle", "done"} => registered
          /\ pc[c] \in {"persist", "update", "save", "commit"} => Persistent(c)
          /\ result[c] = "ok" => registered /\ pc[c] = "done"
          /\ c \in dropped => pc[c] # "idle"

Writes(c)    == pc[c] \in {"update", "save", "commit"}
Admits(c, p) == req[c].plugin = p /\ pc[c] \in {"persist", "update", "save", "commit", "send", "sent"}

TokenInv ==
    /\ persist <=> \A c \in Call : ~Writes(c)
    /\ \A c, d \in Call : Writes(c) /\ Writes(d) => c = d
    /\ \A p \in Plugin :
          /\ p \in admission <=> \A c \in Call : ~Admits(c, p)
          /\ \A c, d \in Call : Admits(c, p) /\ Admits(d, p) => c = d

QueueInv ==
    /\ \A p \in Plugin : \A i \in DOMAIN sup[p].inbox :
          LET c == sup[p].inbox[i] IN c \in Call => req[c].plugin = p /\ pc[c] \in {"sent", "waiting", "done"}
    /\ \A c \in Call :
          /\ pc[c] = "sent" => sup[req[c].plugin].mode = "closed" \/ InInbox(req[c].plugin, c)
          /\ pc[c] = "waiting" /\ req[c].kind \in {"disable", "restart"} =>
                sup[req[c].plugin].intent # "none" \/ sup[req[c].plugin].mode = "closed"

SavedInv ==
    /\ registered => settings = saved \/ \E c \in Call : pc[c] = "commit"
    /\ \A c \in Call : LET p == req[c].plugin IN
          /\ pc[c] = "save" => next[c] = [settings EXCEPT ![p] = Updated(c, @)] /\ ~Refused(c, settings[p])
          /\ pc[c] = "commit" => next[c] = saved
          /\ pc[c] \in {"commit", "send", "sent"} /\ Persistent(c) => Updated(c, saved[p]) = saved[p]
          /\ req[c].kind = "config" /\ (pc[c] = "waiting" \/ result[c] = "ok") =>
                saved[p].config >= req[c].rev /\ sup[p].pref.config >= req[c].rev

\* A call on p whose change is saved and not admitted yet.
Saved(c, p) == req[c].plugin = p /\ Persistent(c) /\ pc[c] \in {"commit", "send", "sent"}

FollowInv ==
    lifecycle = "started" => \A p \in Plugin :
        /\ sup[p].pref.config <= saved[p].config
        /\ (\A c \in dropped : req[c].plugin # p) =>
              /\ \A c \in Call : Saved(c, p) => saved[p] = Updated(c, sup[p].pref)
              /\ (\A c \in Call : ~Saved(c, p)) => sup[p].pref = saved[p]


ManagerInv == LifeInv /\ SupInv /\ CallInv /\ TokenInv /\ QueueInv /\ SavedInv /\ FollowInv

LEMMA InitTypes == Init => Types
<1> SUFFICES ASSUME Init PROVE Types
  OBVIOUS
<1>1. NoPreference \in Preference /\ [installed |-> TRUE, enabled |-> TRUE, config |-> 0] \in Preference
  BY Revisions DEF NoPreference, Preference
<1>2. saved \in Settings /\ settings \in Settings
  BY <1>1 DEF Init, Settings
<1>3. NoSupervisor \in SupType
  BY <1>1, Revisions, Names DEF NoSupervisor, SupType
<1>4. starter \in StarterType
  BY <1>2 DEF Init, StarterType
<1> QED BY <1>2, <1>3, <1>4 DEF Init, Types, Places

LEMMA InitInv == Init => ManagerInv
<1> SUFFICES ASSUME Init PROVE ManagerInv
  OBVIOUS
<1>1. \A c \in Call : pc[c] = "idle" /\ result[c] = "" /\ req[c].kind = "none"
  BY DEF Init, NoRequest
<1>2. \A p \in Plugin : sup[p].mode = "none" /\ sup[p].inbox = << >>
  BY DEF Init, NoSupervisor
<1>3. LifeInv /\ SupInv
  BY <1>2 DEF Init, LifeInv, SupInv, AllClosed
<1>4. CallInv /\ TokenInv /\ SavedInv
  BY <1>1 DEF Init, CallInv, TokenInv, SavedInv, Writes, Admits, Persistent, PersistentKinds
<1>5. QueueInv
  <2>1. \A p \in Plugin : DOMAIN sup[p].inbox = {}
    BY <1>2
  <2> QED BY <1>1, <2>1 DEF QueueInv
<1>6. FollowInv
  BY DEF Init, FollowInv
<1> QED BY <1>3, <1>4, <1>5, <1>6 DEF ManagerInv

-----------------------------------------------------------------------------
(* Every step keeps the types. *)

\* A Close is sent to the supervisors in P.
LEMMA ClosesSent ==
    ASSUME Types, NEW P, CloseSupervisors(P)
    PROVE  /\ sup' \in [Plugin -> SupType]
           /\ \A p \in Plugin :
                 /\ sup'[p].mode = sup[p].mode /\ sup'[p].intent = sup[p].intent /\ sup'[p].pref = sup[p].pref
                 /\ sup'[p].inbox = IF p \in P THEN Append(sup[p].inbox, CloseCmd) ELSE sup[p].inbox
<1> DEFINE sent(p) == [sup[p] EXCEPT !.inbox = Append(@, CloseCmd)]
<1>1. ASSUME NEW p \in Plugin
      PROVE  /\ sent(p) \in SupType /\ sent(p).mode = sup[p].mode /\ sent(p).intent = sup[p].intent
             /\ sent(p).pref = sup[p].pref /\ sent(p).inbox = Append(sup[p].inbox, CloseCmd)
  <2>1. sup[p] \in SupType /\ sup[p].inbox \in Seq(Call \cup {CloseCmd})
    BY DEF Types, SupType
  <2>2. Append(sup[p].inbox, CloseCmd) \in Seq(Call \cup {CloseCmd})
    BY <2>1
  <2> QED BY <2>1, <2>2 DEF SupType
<1>2. sup' = [p \in Plugin |-> IF p \in P THEN sent(p) ELSE sup[p]]
  BY Zenon DEF CloseSupervisors
<1> HIDE DEF sent
<1> QED BY <1>1, <1>2 DEF Types

\* A supervisor is created.
LEMMA Creating ==
    ASSUME Types, NEW p \in Plugin, StartCreate(p)
    PROVE  SupIs(p, "open", "none", starter.settings[p], << >>)
<1> DEFINE fresh == [NoSupervisor EXCEPT !.mode = "open", !.pref = starter.settings[p]]
<1>1. starter.settings[p] \in Preference
  BY DEF Types, StarterType, Settings
<1>2. /\ fresh \in SupType /\ fresh.mode = "open" /\ fresh.intent = "none"
      /\ fresh.pref = starter.settings[p] /\ fresh.inbox = << >>
  <2>1. /\ NoSupervisor \in SupType /\ NoSupervisor.intent = "none" /\ NoSupervisor.inbox = << >>
    BY Names, Revisions DEF NoSupervisor, NoPreference, Preference, SupType
  <2> HIDE DEF NoSupervisor
  <2> QED BY <1>1, <2>1, Names DEF SupType
<1>3. sup' = [sup EXCEPT ![p] = Launched(fresh)] \/ sup' = [sup EXCEPT ![p] = fresh]
  BY Zenon DEF StartCreate
<1> HIDE DEF fresh
<1>4. /\ Launched(fresh) \in SupType /\ Launched(fresh).mode = "open" /\ Launched(fresh).intent = "none"
      /\ Launched(fresh).pref = starter.settings[p] /\ Launched(fresh).inbox = << >>
  BY <1>2, Launching
<1>5. CASE sup' = [sup EXCEPT ![p] = Launched(fresh)]
  BY <1>4, <1>5, Replacing
<1>6. CASE sup' = [sup EXCEPT ![p] = fresh]
  BY <1>2, <1>6, Replacing
<1> QED BY <1>3, <1>5, <1>6

LifeSteps == StartBegin \/ StartAbort \/ StartStep \/ CloseBegin \/ CloseStep

\* Start and Close leave the calls alone.
LEMMA LifeLeaves ==
    ASSUME LifeSteps
    PROVE  UNCHANGED <<persist, req, pc, next, result, dropped, gone>>
  BY Zenon DEF LifeSteps, StartStep, CloseStep, StartBegin, StartAbort, StartLoad, StartSave, StartCommit, StartRolledBack,
     StartCreate, CloseBegin, FinishCloseStops, FinishClose, callVars

\* What Start and Close do to the starter.
LEMMA StarterMoves ==
    ASSUME Types, LifeSteps
    PROVE  starter' \in StarterType /\ lifecycle' \in {"notStarted", "starting", "started", "closing", "closed"}
           /\ startDone' \in BOOLEAN /\ registered' \in BOOLEAN /\ closer' \in {"idle", "waitStart", "stopping", "done"}
           /\ saved' \in Settings /\ settings' \in Settings /\ admission' \subseteq Plugin
<1> USE DEF Types, startVars, callVars
<1>1. CASE StartBegin
  <2> DEFINE n == starter.starts + 1
  <2>1. n \in Nat /\ starter' = [starter EXCEPT !.pc = "load", !.starts = n]
    BY <1>1 DEF StartBegin, StarterType
  <2> HIDE DEF n
  <2>2. starter' \in StarterType
    BY <2>1 DEF StarterType
  <2> QED BY <1>1, <2>2 DEF StartBegin
<1>2. CASE StartLoad
  <2> DEFINE loaded == [p \in Plugin |-> [saved[p] EXCEPT !.installed = TRUE]]
  <2>1. loaded \in Settings
    BY ZenonT(60) DEF Settings, Preference
  <2>2. \/ starter' = [starter EXCEPT !.settings = loaded, !.pc = "create"] /\ UNCHANGED <<lifecycle, startDone>>
        \/ starter' = [starter EXCEPT !.settings = loaded, !.pc = "save"] /\ UNCHANGED <<lifecycle, startDone>>
        \/ FinishFailedStart
    BY <1>2 DEF StartLoad
  <2> HIDE DEF loaded
  <2> QED BY <1>2, <2>1, <2>2 DEF StartLoad, FinishFailedStart, StarterType
<1>3. CASE StartSave \/ StartRolledBack
  BY <1>3 DEF StartSave, StartRolledBack, FinishFailedStart, StarterType
<1>4. CASE StartAbort
  BY <1>4 DEF StartAbort, StarterType
<1>5. CASE StartCommit
  BY <1>5 DEF StartCommit, StarterType
<1>6. CASE CloseBegin \/ FinishCloseStops \/ FinishClose \/ \E p \in Plugin : StartCreate(p)
  BY <1>6 DEF CloseBegin, FinishCloseStops, FinishClose, StartCreate
<1> QED BY <1>1, <1>2, <1>3, <1>4, <1>5, <1>6 DEF LifeSteps, StartStep, CloseStep

LEMMA LifeTypes == Types /\ LifeSteps => Types'
<1> SUFFICES ASSUME Types, LifeSteps PROVE Types'
  OBVIOUS
<1>1. sup' \in [Plugin -> SupType]
  <2>1. \/ sup' = sup
        \/ \E P : CloseSupervisors(P)
        \/ \E p \in Plugin : StartCreate(p)
    BY Zenon DEF LifeSteps, StartStep, CloseStep, StartBegin, StartAbort, StartLoad, StartSave, StartCommit, StartRolledBack,
       CloseBegin, FinishCloseStops, FinishClose
  <2> QED BY <2>1, ClosesSent, Creating DEF Types, SupIs
<1> QED BY <1>1, LifeLeaves, StarterMoves DEF Types

\* A call is made.
LEMMA Beginning ==
    ASSUME Types, NEW c \in Call, NEW r \in Request, Begin(c, r)
    PROVE  /\ pc[c] = "idle" /\ pc' \in [Call -> Places] /\ pc'[c] \in {"admission", "done"}
           /\ DOMAIN req' = Call /\ req'[c] = r /\ DOMAIN result' = Call
           /\ \A d \in Call \ {c} : pc'[d] = pc[d] /\ req'[d] = req[d] /\ result'[d] = result[d]
           /\ pc'[c] = "admission" => lifecycle = "started" /\ result' = result
           /\ pc'[c] = "done" => result'[c] # "ok"
           /\ UNCHANGED <<saved, settings, startVars, admission, persist, next, dropped, gone, sup>>
           /\ r.plugin \in Plugin /\ r.kind \in AllKinds /\ (r.kind = "config" => r.rev \in Revision)
<1>1. \/ TargetError # "" /\ Return(c, TargetError)
      \/ TargetError = "" /\ Goto(c, "admission")
  BY Zenon DEF Begin
<1>2. /\ pc[c] = "idle" /\ req' = [req EXCEPT ![c] = r]
      /\ UNCHANGED <<saved, settings, startVars, admission, persist, next, dropped, gone, sup>>
  BY Zenon DEF Begin
<1>3. r.plugin \in Plugin /\ r.kind \in AllKinds /\ (r.kind = "config" => r.rev \in Revision)
  BY ManagerAssumption DEF Request, AllKinds, Revision
<1>4. CASE TargetError # "" /\ Return(c, TargetError)
  <2>1. TargetError # "ok"
    BY DEF TargetError
  <2>2. pc' \in [Call -> Places] /\ pc'[c] = "done" /\ \A d \in Call \ {c} : pc'[d] = pc[d]
    BY <1>4, Names, OneMoves, Zenon DEF Return
  <2>3. DOMAIN result' = Call /\ result'[c] = TargetError /\ \A d \in Call \ {c} : result'[d] = result[d]
    BY <1>4, Names, OneMoves, Zenon DEF Return
  <2> QED BY <1>2, <1>3, <2>1, <2>2, <2>3 DEF Types
<1>5. CASE TargetError = "" /\ Goto(c, "admission")
  <2>1. lifecycle = "started"
    BY <1>5 DEF TargetError
  <2>2. pc' \in [Call -> Places] /\ pc'[c] = "admission" /\ \A d \in Call \ {c} : pc'[d] = pc[d]
    BY <1>5, Names, OneMoves, Zenon DEF Goto
  <2> QED BY <1>2, <1>3, <1>5, <2>1, <2>2 DEF Types, Goto
<1> QED BY <1>1, <1>4, <1>5

LEMMA BeginTypes == ASSUME Types, NEW c \in Call, NEW r \in Request, Begin(c, r) PROVE Types'
  BY Beginning DEF Types, startVars

\* Where a call goes.
LEMMA Going ==
    ASSUME Types, NEW c \in Call, NEW from, NEW to \in Places, Moves(c, from, to)
    PROVE  /\ pc[c] = from /\ pc' \in [Call -> Places] /\ pc'[c] = to /\ \A d \in Call \ {c} : pc'[d] = pc[d]
  BY OneMoves, Zenon DEF Moves

LEMMA CallGoes ==
    ASSUME Types, NEW c \in Call, Rows(c)
    PROVE  /\ pc' \in [Call -> Places] /\ \A d \in Call \ {c} : pc'[d] = pc[d]
           /\ pc'[c] # "idle" \/ pc[c] = "idle"
           /\ pc'[c] = pc[c] \/ pc[c] \in {"admission", "persist", "update", "save", "commit", "send", "sent", "waiting"}
<1>1. pc' = pc \/ \E from \in {"admission", "persist", "update", "save", "commit", "send", "sent", "waiting"}, to \in Places \ {"idle"} :
          Moves(c, from, to)
  BY Names DEF Rows
<1> QED BY <1>1, Going DEF Types

LEMMA CallTypes == ASSUME Types, NEW c \in Call, CallAlone(c) PROVE Types'
<1>1. Rows(c) /\ UNCHANGED <<startVars, req, dropped>> /\ gone' \subseteq Call /\ DOMAIN result' = Call
  BY CallMoves
<1>2. pc' \in [Call -> Places] /\ \A d \in Call : pc'[d] # "idle" => pc[d] # "idle"
  BY <1>1, CallGoes
<1>3. pc[c] # "idle" => req[c].plugin \in Plugin /\ (req[c].kind = "config" => req[c].rev \in Revision)
  BY DEF Types
<1>4. pc[c] \in {"update", "save", "commit", "send", "admission", "persist"} =>
        [settings EXCEPT ![req[c].plugin] = Updated(c, @)] \in Settings
  BY <1>3, PreferenceAfter DEF Types, Settings
<1>5. persist' \in BOOLEAN /\ admission' \subseteq Plugin
  <2>1. persist' = persist \/ persist' = TRUE \/ persist' = FALSE
    BY <1>1, Zenon DEF Rows, Tokens
  <2>2. \/ admission' = admission \/ admission' = admission \ {req[c].plugin}
        \/ pc[c] # "idle" /\ admission' = admission \cup {req[c].plugin}
    BY <1>1 DEF Rows, Moves, Tokens, Released
  <2> QED BY <1>3, <2>1, <2>2 DEF Types
<1>6. saved' \in Settings /\ settings' \in Settings /\ next' \in [Call -> Settings]
  BY <1>1, <1>4 DEF Rows, Moves, Quiet, Types
<1>7. sup' \in [Plugin -> SupType]
  <2>1. CASE sup' = sup
    BY <2>1 DEF Types
  <2>2. CASE /\ pc[c] = "send" /\ sup' = [sup EXCEPT ![req[c].plugin].inbox = Append(@, c)]
    <3> DEFINE p == req[c].plugin
               s == [sup[p] EXCEPT !.inbox = Append(@, c)]
    <3>1. p \in Plugin /\ sup[p] \in SupType
      BY <1>3, <2>2 DEF Types
    <3>2. Append(sup[p].inbox, c) \in Seq(Call \cup {CloseCmd})
      BY <3>1 DEF SupType
    <3>3. s \in SupType
      BY <3>1, <3>2 DEF SupType
    <3>4. sup' = [sup EXCEPT ![p] = s]
      BY <2>2
    <3> HIDE DEF s, p
    <3> QED BY <3>1, <3>3, <3>4 DEF Types
  <2>3. sup' = sup \/ (pc[c] = "send" /\ sup' = [sup EXCEPT ![req[c].plugin].inbox = Append(@, c)])
    BY <1>1, Zenon DEF Rows, Moves, Quiet
  <2> QED BY <2>1, <2>2, <2>3
<1> QED BY <1>1, <1>2, <1>5, <1>6, <1>7 DEF Types, startVars

\* Answers to calls that wait for a stop.
LEMMA Answering ==
    ASSUME Types, NEW p, NEW W, NEW r, Answered(p, W, r)
    PROVE  /\ pc' \in [Call -> Places] /\ DOMAIN result' = Call /\ admission' = admission /\ dropped' = dropped
           /\ \A c \in Call : c \in W => /\ pc[c] = "waiting" /\ pc'[c] = "done" /\ req[c].plugin = p
                                         /\ req[c].kind \in {"disable", "restart"}
           /\ \A c \in Call : c \notin W => pc'[c] = pc[c] /\ result'[c] = result[c]
  BY Names DEF Answered, ReturnAll, StopOwners, Types

\* An answer to the call whose command was taken.
LEMMA Answer ==
    ASSUME Types, NEW c \in Call, Told(c)
    PROVE  /\ pc' \in [Call -> Places] /\ DOMAIN result' = Call
           /\ \/ pc'[c] = "waiting" /\ pc' = [pc EXCEPT ![c] = "waiting"] /\ result' = result
              \/ pc'[c] = "done" /\ pc' = [pc EXCEPT ![c] = "done"]
           /\ \A d \in Call \ {c} : pc'[d] = pc[d] /\ result'[d] = result[d]
<1>1. CASE pc' = [pc EXCEPT ![c] = "waiting"] /\ result' = result
  <2>1. pc' \in [Call -> Places] /\ pc'[c] = "waiting" /\ \A d \in Call \ {c} : pc'[d] = pc[d]
    BY <1>1, Names, OneMoves, Zenon
  <2> QED BY <1>1, <2>1 DEF Types
<1>2. ASSUME pc' = [pc EXCEPT ![c] = "done"], NEW r, result' = [result EXCEPT ![c] = r]
      PROVE  /\ pc' \in [Call -> Places] /\ DOMAIN result' = Call /\ pc'[c] = "done"
             /\ \A d \in Call \ {c} : pc'[d] = pc[d] /\ result'[d] = result[d]
  <2>1. pc' \in [Call -> Places] /\ pc'[c] = "done" /\ \A d \in Call \ {c} : pc'[d] = pc[d]
    BY <1>2, Names, OneMoves, Zenon
  <2> QED BY <1>2, <2>1 DEF Types
<1> QED BY <1>1, <1>2 DEF Told

\* A refused command.
LEMMA Refusing ==
    ASSUME Types, NEW p \in Plugin, NEW c \in Call, Refusal(p, c)
    PROVE  /\ pc' \in [Call -> Places] /\ DOMAIN result' = Call
           /\ \/ pc[c] # "sent" /\ UNCHANGED <<admission, pc, result>>
              \/ pc[c] = "sent" /\ Released(c) /\ pc'[c] = "done" /\ result'[c] # "ok"
           /\ \A d \in Call \ {c} : pc'[d] = pc[d] /\ result'[d] = result[d]
<1>1. CASE UNCHANGED <<admission, pc, result>> /\ pc[c] # "sent"
  BY <1>1 DEF Types
<1>2. ASSUME pc[c] = "sent", Released(c), pc' = [pc EXCEPT ![c] = "done"], NEW r, r # "ok", result' = [result EXCEPT ![c] = r]
      PROVE  /\ pc' \in [Call -> Places] /\ DOMAIN result' = Call
             /\ pc[c] = "sent" /\ Released(c) /\ pc'[c] = "done" /\ result'[c] # "ok"
             /\ \A d \in Call \ {c} : pc'[d] = pc[d] /\ result'[d] = result[d]
  <2>1. pc' \in [Call -> Places] /\ pc'[c] = "done" /\ \A d \in Call \ {c} : pc'[d] = pc[d]
    BY <1>2, Names, OneMoves, Zenon
  <2> QED BY <1>2, <2>1 DEF Types
<1> QED BY <1>1, <1>2 DEF Refusal

\* What a supervisor does to the calls.
LEMMA SupCalls ==
    ASSUME Types, NEW p \in Plugin, SupRows(p)
    PROVE  /\ pc' \in [Call -> Places] /\ DOMAIN result' = Call /\ sup' \in [Plugin -> SupType]
           /\ \A q \in Plugin \ {p} : sup'[q] = sup[q]
           /\ \A c \in Call :
                 /\ pc'[c] = pc[c] \/ (pc[c] = "sent" /\ pc'[c] \in {"waiting", "done"}) \/ (pc[c] = "waiting" /\ pc'[c] = "done")
                 /\ result'[c] = result[c] \/ pc'[c] = "done"
                 /\ c \in dropped' => c \in dropped \/ pc[c] = "sent" \/ InInbox(p, c)
           /\ admission' = admission \/ \E c \in Call : pc[c] = "sent" /\ Released(c)
<1>1. ASSUME NEW c \in Call, Refusal(p, c)
      PROVE  /\ pc' \in [Call -> Places] /\ DOMAIN result' = Call /\ sup' \in [Plugin -> SupType]
             /\ \A q \in Plugin \ {p} : sup'[q] = sup[q]
             /\ \A d \in Call :
                   /\ pc'[d] = pc[d] \/ (pc[d] = "sent" /\ pc'[d] \in {"waiting", "done"})
                   /\ result'[d] = result[d] \/ pc'[d] = "done"
                   /\ d \in dropped' => d \in dropped \/ InInbox(p, d)
             /\ admission' = admission \/ (pc[c] = "sent" /\ Released(c))
  <2>1. InInbox(p, c)
    <3>1. sup[p].inbox # << >> /\ c = Head(sup[p].inbox) /\ sup[p].inbox \in Seq(Call \cup {CloseCmd})
      BY <1>1 DEF Refusal, Taken, Types, SupType
    <3> QED BY <3>1 DEF InInbox
  <2>2. \A d \in Call : d \in dropped' => d \in dropped \/ d = c
    BY <1>1 DEF Refusal
  <2>3. sup' \in [Plugin -> SupType] /\ \A q \in Plugin \ {p} : sup'[q] = sup[q]
    BY <1>1, Zenon DEF Refusal, SupIs
  <2> QED BY <1>1, <2>1, <2>2, <2>3, Refusing
<1>2. ASSUME NEW c \in Call, Admission(p, c)
      PROVE  /\ pc' \in [Call -> Places] /\ DOMAIN result' = Call /\ sup' \in [Plugin -> SupType]
             /\ \A q \in Plugin \ {p} : sup'[q] = sup[q]
             /\ \A d \in Call :
                   /\ pc'[d] = pc[d] \/ (pc[d] = "sent" /\ pc'[d] \in {"waiting", "done"})
                   /\ result'[d] = result[d] \/ pc'[d] = "done"
                   /\ d \in dropped' => d \in dropped
             /\ pc[c] = "sent" /\ Released(c)
  <2>1. pc[c] = "sent" /\ dropped' = dropped /\ Told(c) /\ Released(c)
    BY <1>2, Zenon DEF Admission, Told
  <2>2. sup' \in [Plugin -> SupType] /\ \A q \in Plugin \ {p} : sup'[q] = sup[q]
    BY <1>2, Zenon DEF Admission, SupIs
  <2> QED BY <2>1, <2>2, Answer
<1>3. ASSUME TakesClose(p) \/ StopEnds(p)
      PROVE  /\ sup' \in [Plugin -> SupType] /\ \A q \in Plugin \ {p} : sup'[q] = sup[q]
             /\ \E W, r : Answered(p, W, r)
  BY <1>3, Zenon DEF TakesClose, StopEnds, SupIs
<1>4. CASE TakesClose(p) \/ StopEnds(p)
  <2>1. PICK W, r : Answered(p, W, r)
    BY <1>3, <1>4
  <2> QED BY <1>3, <1>4, <2>1, Answering
<1>5. CASE SessionChanges(p)
  BY <1>5 DEF SessionChanges, SupIs, Types
<1> QED BY <1>1, <1>2, <1>4, <1>5 DEF SupRows, TakesCommand

LEMMA SupTypes == ASSUME Types, NEW p \in Plugin, SupervisorMoves(p) PROVE Types'
<1>1. SupRows(p) /\ UNCHANGED <<saved, settings, startVars, persist, req, next, gone>>
  BY SupMoves DEF restOfSup
<1>2. admission' \subseteq Plugin
  BY <1>1, SupCalls DEF Released, Types
<1>3. \A c \in Call : pc'[c] # "idle" => pc[c] # "idle"
  BY <1>1, SupCalls
<1> QED BY <1>1, <1>2, <1>3, SupCalls DEF Types, startVars

\* Who takes a step.
LEMMA WhoMoves ==
    ASSUME Next
    PROVE  \/ LifeSteps
           \/ \E c \in Call, r \in Request : Begin(c, r)
           \/ \E c \in Call : CallAlone(c)
           \/ \E p \in Plugin : SupervisorMoves(p)
  BY Zenon DEF Next, LifeSteps, CallAlone, SupervisorMoves

LEMMA TypesStep == Types /\ [Next]_vars => Types'
<1> SUFFICES ASSUME Types, [Next]_vars PROVE Types'
  OBVIOUS
<1>1. CASE UNCHANGED vars
  BY <1>1 DEF vars, startVars, callVars, Types
<1> QED BY <1>1, WhoMoves, LifeTypes, BeginTypes, CallTypes, SupTypes

-----------------------------------------------------------------------------
(* Start and Close keep the invariant. *)

LEMMA LifeKept ==
    ASSUME LifeInv, UNCHANGED startVars PROVE LifeInv'
  BY DEF LifeInv, startVars

\* What each step of Start does to its records.
LEMMA LifeLife ==
    ASSUME Types, LifeInv, LifeSteps PROVE LifeInv'
<1> USE DEF LifeInv, Types, StarterType
<1>1. CASE StartBegin
  BY <1>1 DEF StartBegin
<1>2. CASE StartLoad
  <2>1. /\ starter.pc = "load" /\ UNCHANGED <<closer, registered>>
        /\ \/ starter'.pc \in {"create", "save"} /\ UNCHANGED <<lifecycle, startDone>>
           \/ FinishFailedStart
    BY <1>2 DEF StartLoad
  <2> QED BY <2>1 DEF FinishFailedStart
<1>3. CASE StartSave \/ StartRolledBack
  BY <1>3 DEF StartSave, StartRolledBack, FinishFailedStart
<1>4. CASE StartAbort
  BY <1>4 DEF StartAbort
<1>5. CASE StartCommit
  BY <1>5 DEF StartCommit
<1>6. CASE CloseBegin \/ FinishCloseStops \/ FinishClose
  BY <1>6 DEF CloseBegin, FinishCloseStops, FinishClose, StartFinished
<1>7. CASE \E p \in Plugin : StartCreate(p)
  BY <1>7, LifeKept DEF StartCreate
<1> QED BY <1>1, <1>2, <1>3, <1>4, <1>5, <1>6, <1>7 DEF LifeSteps, StartStep, CloseStep

\* A Close reaches the inbox.
LEMMA InboxGrows ==
    ASSUME Types, NEW P, CloseSupervisors(P), NEW p \in Plugin
    PROVE  /\ \A x : InInbox(p, x) => InInbox(p, x)'
           /\ p \in P => InInbox(p, CloseCmd)'
           /\ \A i \in DOMAIN sup'[p].inbox : sup'[p].inbox[i] # CloseCmd => i \in DOMAIN sup[p].inbox /\ sup'[p].inbox[i] = sup[p].inbox[i]
           /\ p \notin P => sup'[p].inbox = sup[p].inbox
<1>1. sup[p].inbox \in Seq(Call \cup {CloseCmd})
  BY DEF Types, SupType
<1>2. sup'[p].inbox = IF p \in P THEN Append(sup[p].inbox, CloseCmd) ELSE sup[p].inbox
  BY ClosesSent
<1>3. CASE p \notin P
  BY <1>2, <1>3 DEF InInbox
<1>4. CASE p \in P
  <2>1. /\ sup'[p].inbox = Append(sup[p].inbox, CloseCmd)
        /\ DOMAIN sup[p].inbox = 1 .. Len(sup[p].inbox) /\ DOMAIN sup'[p].inbox = 1 .. Len(sup[p].inbox) + 1
        /\ Len(sup[p].inbox) \in Nat
    BY <1>1, <1>2, <1>4
  <2>2. /\ \A i \in 1 .. Len(sup[p].inbox) : sup'[p].inbox[i] = sup[p].inbox[i]
        /\ sup'[p].inbox[Len(sup[p].inbox) + 1] = CloseCmd
    BY <1>1, <2>1
  <2>3. InInbox(p, CloseCmd)' /\ \A x : InInbox(p, x) => InInbox(p, x)'
    BY <2>1, <2>2 DEF InInbox
  <2>4. \A i \in DOMAIN sup'[p].inbox : sup'[p].inbox[i] # CloseCmd => i \in DOMAIN sup[p].inbox /\ sup'[p].inbox[i] = sup[p].inbox[i]
    BY <2>1, <2>2
  <2> QED BY <1>4, <2>3, <2>4
<1> QED BY <1>3, <1>4

LEMMA LifeSup ==
    ASSUME Types, LifeInv, SupInv, LifeSteps PROVE SupInv'
<1> USE DEF SupInv, LifeInv, AllClosed
<1>0. starter \in StarterType
  BY DEF Types
<1>1. CASE StartBegin
  <2>1. /\ starter.pc = "idle" /\ ~registered /\ starter'.pc = "load" /\ closer = "idle"
        /\ UNCHANGED <<saved, closer, registered, sup>>
    BY <1>0, <1>1 DEF StartBegin, StarterType
  <2> QED BY <2>1
<1>2. CASE StartLoad
  <2> DEFINE loaded == [p \in Plugin |-> [saved[p] EXCEPT !.installed = TRUE]]
  <2>1. /\ starter.pc = "load" /\ UNCHANGED <<saved, closer, registered, sup>>
        /\ \/ starter' = [starter EXCEPT !.settings = loaded, !.pc = IF loaded = saved THEN "create" ELSE "save"]
           \/ starter' = [starter EXCEPT !.pc = "idle"]
    BY <1>2, Zenon DEF StartLoad, FinishFailedStart
  <2> HIDE DEF loaded
  <2>2. \/ starter'.pc = "create" /\ starter'.settings = saved
        \/ starter'.pc \in {"save", "idle"}
    BY <1>0, <2>1 DEF StarterType
  <2>3. ~registered /\ AllClosed /\ AllClosed' /\ closer # "done"
    BY <2>1 DEF AllClosed
  <2> QED BY <2>1, <2>2, <2>3
<1>3. CASE StartSave
  <2>1. /\ starter.pc = "save" /\ UNCHANGED <<closer, registered, sup>>
        /\ \/ saved' = starter.settings /\ starter'.pc = "create" /\ starter'.settings = starter.settings
           \/ starter'.pc = "idle"
    BY <1>0, <1>3 DEF StartSave, FinishFailedStart, StarterType
  <2>2. ~registered /\ AllClosed /\ AllClosed' /\ closer # "done"
    BY <2>1 DEF AllClosed
  <2> QED BY <2>1, <2>2
<1>4. ASSUME NEW p \in Plugin, StartCreate(p) PROVE SupInv'
  <2>1. /\ starter.pc = "create" /\ UNCHANGED <<saved, starter, registered, closer>>
        /\ sup'[p].mode = "open" /\ sup'[p].intent = "none" /\ sup'[p].pref = saved[p] /\ sup'[p].inbox = << >>
        /\ \A q \in Plugin \ {p} : sup'[q] = sup[q]
    BY ZenonT(60), <1>4, Creating DEF StartCreate, SupIs, startVars, Types
  <2>2. ~registered /\ closer # "done"
    BY <2>1
  <2> QED BY <2>1, <2>2
<1>5. CASE StartAbort
  <2>1. starter.pc = "create" /\ starter'.pc = "rollback" /\ UNCHANGED <<closer, registered>>
    BY <1>0, <1>5 DEF StartAbort, StarterType
  <2> QED BY <2>1
<1>6. CASE StartCommit
  <2>1. /\ starter.pc = "create" /\ UNCHANGED closer
        /\ \/ starter'.pc = "rollback" /\ UNCHANGED registered
           \/ starter'.pc = "idle" /\ registered' = TRUE /\ UNCHANGED sup
        /\ \A p \in Plugin : sup[p].mode = "open"
    BY <1>0, <1>6 DEF StartCommit, StarterType, Created
  <2>2. \A p \in Plugin : sup[p].inbox = << >> /\ sup[p].intent = "none" /\ ~InInbox(p, CloseCmd)
    BY <2>1 DEF InInbox
  <2>3. CASE starter'.pc = "idle" /\ registered' = TRUE /\ UNCHANGED sup
    <3>1. \A p \in Plugin : ~InInbox(p, CloseCmd)'
      BY <2>2, <2>3 DEF InInbox
    <3> QED BY <2>1, <2>2, <2>3, <3>1
  <2>4. CASE starter'.pc = "rollback" /\ UNCHANGED registered
    <3>1. ~registered /\ closer \notin {"stopping", "done"} /\ closer' = closer
      BY <2>1
    <3> QED BY <2>4, <3>1
  <2> QED BY <2>1, <2>3, <2>4
<1>7. CASE StartRolledBack
  <2>1. starter.pc = "rollback" /\ starter'.pc = "idle" /\ UNCHANGED <<closer, registered, sup>> /\ AllClosed
    BY <1>0, <1>7, Zenon DEF StartRolledBack, FinishFailedStart, StarterType
  <2> QED BY <2>1
<1>8. CASE CloseBegin
  <2>1. closer = "idle" /\ closer' = "waitStart" /\ UNCHANGED <<saved, starter, registered, sup>>
    BY <1>8, Zenon DEF CloseBegin
  <2>2. \A p \in Plugin : \A x : InInbox(p, x)' <=> InInbox(p, x)
    BY <2>1 DEF InInbox
  <2> QED BY <2>1, <2>2
<1>9. CASE FinishCloseStops
  <2>1. /\ closer = "waitStart" /\ startDone /\ closer' = "stopping" /\ UNCHANGED <<saved, starter, registered>>
        /\ (registered /\ CloseSupervisors(Plugin)) \/ (~registered /\ UNCHANGED sup)
    BY <1>9, Zenon DEF FinishCloseStops, StartFinished
  <2>2. registered => \A p \in Plugin : InInbox(p, CloseCmd)'
    BY <2>1, InboxGrows
  <2> QED BY <2>1, <2>2
<1>10. CASE FinishClose
  <2>1. /\ closer = "stopping" /\ closer' = "done" /\ UNCHANGED <<saved, starter, registered, sup>>
        /\ registered => AllClosed
    BY <1>10, Zenon DEF FinishClose
  <2> QED BY <2>1
<1> QED
  BY <1>1, <1>2, <1>3, <1>4, <1>5, <1>6, <1>7, <1>8, <1>9, <1>10, Zenon DEF LifeSteps, StartStep, CloseStep

\* Before the supervisors are registered no call is under way.
NoCalls == \A c \in Call : pc[c] \in {"idle", "done"} /\ result[c] # "ok"

\* What Start and Close do to what the calls rely on.
LEMMA LifeEffects ==
    ASSUME Types, LifeInv, SupInv, CallInv, LifeSteps
    PROVE  /\ registered => registered'
           /\ ~registered => NoCalls
           /\ registered => UNCHANGED <<saved, settings, admission>>
           /\ admission' = admission \/ admission' = Plugin
           /\ registered => sup' = sup \/ CloseSupervisors(Plugin)
           /\ registered' /\ ~registered => settings' = saved /\ UNCHANGED <<saved, sup>> /\ \A p \in Plugin : sup[p].pref = saved[p]
           /\ lifecycle' = "started" => registered' /\ ~registered
           /\ \A p \in Plugin :
                 \/ sup'[p].inbox = << >>
                 \/ sup'[p] = sup[p]
                 \/ \E P : CloseSupervisors(P)
<1> USE DEF LifeInv
<1>0. starter \in StarterType
  BY DEF Types
<1>1. ~registered => NoCalls
  BY DEF CallInv, NoCalls, Types
<1>2. CASE StartBegin \/ StartLoad \/ StartSave \/ StartRolledBack
  <2>1. /\ ~registered /\ UNCHANGED <<registered, sup, admission>>
        /\ lifecycle' # "started"
    <3>1. starter.pc \in {"load", "save", "rollback"} \/ lifecycle = "notStarted"
      BY <1>2 DEF StartBegin, StartLoad, StartSave, StartRolledBack
    <3>2. ~registered /\ lifecycle # "started"
      BY <3>1
    <3>3. lifecycle' \in {lifecycle, "notStarted", "starting"} /\ UNCHANGED <<registered, sup, admission>>
      BY <1>2 DEF StartBegin, StartLoad, StartSave, StartRolledBack, FinishFailedStart
    <3> QED BY <3>2, <3>3
  <2> QED BY <1>1, <2>1
<1>3. ASSUME NEW q \in Plugin, StartCreate(q)
      PROVE  /\ ~registered /\ UNCHANGED <<registered, admission, lifecycle>> /\ lifecycle # "started"
             /\ \A p \in Plugin : sup'[p].inbox = << >> \/ sup'[p] = sup[p]
  <2>1. starter.pc = "create" /\ UNCHANGED <<registered, admission, lifecycle>>
    BY <1>3 DEF StartCreate, startVars
  <2> QED BY <1>3, <2>1, Creating DEF SupIs
<1>4. CASE StartAbort
  <2>1. starter.pc = "create" /\ UNCHANGED <<registered, admission, lifecycle>> /\ CloseSupervisors(Created)
    BY <1>4, Zenon DEF StartAbort
  <2> QED BY <1>1, <2>1
<1>5. CASE StartCommit
  <2>1. starter.pc = "create" /\ saved' = saved /\ Created = Plugin
    BY <1>5, Zenon DEF StartCommit
  <2>2. ~registered /\ lifecycle # "started"
    BY <2>1
  <2>3. CASE lifecycle # "starting"
    <3>1. UNCHANGED <<registered, admission, lifecycle>> /\ CloseSupervisors(Created)
      BY <1>5, <2>3, Zenon DEF StartCommit
    <3> QED BY <1>1, <2>2, <3>1
  <2>4. CASE lifecycle = "starting"
    <3>1. settings' = starter.settings /\ registered' = TRUE /\ admission' = Plugin /\ UNCHANGED sup
      BY <1>5, <2>4, Zenon DEF StartCommit
    <3>2. starter.settings = saved /\ \A p \in Plugin : sup[p].pref = saved[p]
      BY <2>1 DEF SupInv, Created
    <3> QED BY <1>1, <2>1, <2>2, <3>1, <3>2
  <2> QED BY <2>3, <2>4
<1>6. CASE CloseBegin \/ FinishClose
  <2>1. UNCHANGED <<saved, settings, registered, sup, admission>> /\ lifecycle' # "started"
    BY <1>6 DEF CloseBegin, FinishClose
  <2> QED BY <1>1, <2>1
<1>7. CASE FinishCloseStops
  <2>1. /\ UNCHANGED <<saved, settings, registered, admission, lifecycle>> /\ closer = "waitStart"
        /\ (registered /\ CloseSupervisors(Plugin)) \/ (~registered /\ UNCHANGED sup)
    BY <1>7, Zenon DEF FinishCloseStops
  <2> QED BY <1>1, <2>1
<1>8. CASE \E q \in Plugin : StartCreate(q)
  BY <1>1, <1>3, <1>8
<1> QED
  BY <1>2, <1>4, <1>5, <1>6, <1>7, <1>8, Zenon DEF LifeSteps, StartStep, CloseStep

LEMMA LifeQueue ==
    ASSUME Types, LifeInv, SupInv, CallInv, QueueInv, LifeSteps PROVE QueueInv'
<1>1. UNCHANGED <<req, pc>>
  BY LifeLeaves
<1>2. ASSUME NEW p \in Plugin, NEW i \in DOMAIN sup'[p].inbox, sup'[p].inbox[i] \in Call
      PROVE  i \in DOMAIN sup[p].inbox /\ sup[p].inbox[i] = sup'[p].inbox[i]
  <2>1. sup'[p].inbox[i] # CloseCmd /\ sup'[p].inbox # << >>
    BY <1>2, ManagerAssumption
  <2>2. CASE sup'[p] = sup[p]
    BY <1>2, <2>2
  <2>3. CASE \E P : CloseSupervisors(P)
    BY <1>2, <2>1, <2>3, InboxGrows
  <2> QED BY <2>1, <2>2, <2>3, LifeEffects
<1>3. \A p \in Plugin : \A i \in DOMAIN sup'[p].inbox :
         LET c == sup'[p].inbox[i] IN c \in Call => req[c].plugin = p /\ pc[c] \in {"sent", "waiting", "done"}
  BY <1>2 DEF QueueInv
<1>4. ASSUME NEW c \in Call, pc[c] \in {"sent", "waiting"}
      PROVE  LET p == req[c].plugin IN
             /\ sup'[p].mode = sup[p].mode /\ sup'[p].intent = sup[p].intent
             /\ \A x : InInbox(p, x) => InInbox(p, x)'
  <2>1. registered /\ req[c].plugin \in Plugin
    BY <1>4 DEF CallInv, Types
  <2>2. sup' = sup \/ CloseSupervisors(Plugin)
    BY <2>1, LifeEffects
  <2>3. sup' = sup => \A p \in Plugin : \A x : InInbox(p, x) => InInbox(p, x)'
    BY DEF InInbox
  <2>4. CloseSupervisors(Plugin) => \A p \in Plugin : \A x : InInbox(p, x) => InInbox(p, x)'
    BY InboxGrows
  <2>5. \A p \in Plugin : sup'[p].mode = sup[p].mode /\ sup'[p].intent = sup[p].intent
    BY <2>2, ClosesSent
  <2>6. \A p \in Plugin : \A x : InInbox(p, x) => InInbox(p, x)'
    BY <2>2, <2>3, <2>4
  <2> QED BY <1>1, <2>1, <2>5, <2>6
<1>5. ASSUME NEW c \in Call
      PROVE  LET p == req[c].plugin IN
             /\ pc[c] = "sent" => sup'[p].mode = "closed" \/ InInbox(p, c)'
             /\ pc[c] = "waiting" /\ req[c].kind \in {"disable", "restart"} => sup'[p].intent # "none" \/ sup'[p].mode = "closed"
  BY ZenonT(60), <1>4 DEF QueueInv
<1>6. QueueInv' <=>
        /\ \A p \in Plugin : \A i \in DOMAIN sup'[p].inbox :
              LET c == sup'[p].inbox[i] IN c \in Call => req'[c].plugin = p /\ pc'[c] \in {"sent", "waiting", "done"}
        /\ \A c \in Call :
              /\ pc'[c] = "sent" => sup'[req'[c].plugin].mode = "closed" \/ InInbox(req[c].plugin, c)'
              /\ pc'[c] = "waiting" /\ req'[c].kind \in {"disable", "restart"} =>
                    sup'[req'[c].plugin].intent # "none" \/ sup'[req'[c].plugin].mode = "closed"
  BY <1>1 DEF QueueInv, InInbox
<1> QED BY <1>1, <1>3, <1>5, <1>6

LEMMA LifeRest ==
    ASSUME Types, LifeInv, SupInv, CallInv, TokenInv, SavedInv, FollowInv, LifeSteps
    PROVE  CallInv' /\ TokenInv' /\ SavedInv' /\ FollowInv'
<1>1. UNCHANGED <<persist, req, pc, next, result, dropped, gone>>
  BY LifeLeaves
<1>u. /\ \A c \in Call : Persistent(c)' = Persistent(c) /\ Writes(c)' = Writes(c)
      /\ \A c \in Call, p \in Plugin : Admits(c, p)' = Admits(c, p) /\ Saved(c, p)' = Saved(c, p)
      /\ \A c \in Call : \A f : Updated(c, f)' = Updated(c, f') /\ Refused(c, f)' = Refused(c, f')
  BY <1>1 DEF Persistent, Writes, Admits, Saved, Updated, Refused
<1>2. CallInv'
  <2>1. registered => registered'
    BY LifeEffects
  <2>2. ASSUME NEW c \in Call, pc[c] \notin {"idle", "done"} \/ result[c] = "ok" PROVE registered'
    BY <2>1, <2>2 DEF CallInv
  <2> QED BY <1>1, <1>u, <2>2 DEF CallInv
<1>3. TokenInv'
  <2>1. CASE registered
    <3>1. admission' = admission
      BY <2>1, LifeEffects
    <3> QED BY <1>1, <1>u, <3>1 DEF TokenInv
  <2>2. CASE ~registered
    <3>1. NoCalls
      BY <2>2, LifeEffects
    <3>2. \A c \in Call, p \in Plugin : ~Admits(c, p) /\ ~Writes(c)
      BY <3>1 DEF NoCalls, Admits, Writes
    <3>3. \A p \in Plugin : p \in admission /\ p \in admission'
      <4>1. \A p \in Plugin : p \in admission
        BY <3>2 DEF TokenInv
      <4> QED BY <4>1, LifeEffects
    <3> QED BY <1>1, <1>u, <3>2, <3>3 DEF TokenInv
  <2> QED BY <2>1, <2>2
<1>4. SavedInv'
  <2>1. CASE registered
    <3>1. UNCHANGED <<saved, settings>> /\ registered' /\ (sup' = sup \/ CloseSupervisors(Plugin))
      BY <2>1, LifeEffects
    <3>2. \A p \in Plugin : sup'[p].pref = sup[p].pref
      BY <3>1, ClosesSent
    <3>3. \A c \in Call : pc[c] = "waiting" \/ result[c] = "ok" => req[c].plugin \in Plugin
      BY DEF CallInv, Types
    <3>4. \A c \in Call : req[c].kind = "config" /\ (pc[c] = "waiting" \/ result[c] = "ok") => sup'[req[c].plugin].pref = sup[req[c].plugin].pref
      BY <3>2, <3>3
    <3> QED BY <1>1, <1>u, <2>1, <3>1, <3>4 DEF SavedInv
  <2>2. CASE ~registered
    <3>1. NoCalls
      BY <2>2, LifeEffects
    <3>2. registered' => settings' = saved'
      BY <2>2, LifeEffects
    <3> QED BY <1>1, <1>u, <3>1, <3>2 DEF SavedInv, NoCalls
  <2> QED BY <2>1, <2>2
<1>5. FollowInv'
  <2> SUFFICES ASSUME lifecycle' = "started" PROVE FollowInv'
    BY DEF FollowInv
  <2>1. NoCalls /\ saved' = saved /\ sup' = sup /\ \A p \in Plugin : sup[p].pref = saved[p]
    BY LifeEffects
  <2>2. \A c \in Call, p \in Plugin : ~Saved(c, p)
    BY <2>1 DEF NoCalls, Saved
  <2>3. \A p \in Plugin : saved[p].config \in Nat
    BY Revisions DEF Types, Settings, Preference
  <2> QED BY <1>1, <1>u, <2>1, <2>2, <2>3 DEF FollowInv
<1> QED BY <1>2, <1>3, <1>4, <1>5

LEMMA LifeManager == ASSUME Types, ManagerInv, LifeSteps PROVE ManagerInv'
  BY LifeLife, LifeSup, LifeQueue, LifeRest, Zenon DEF ManagerInv

-----------------------------------------------------------------------------
(* A new call keeps the invariant. *)

LEMMA BeginManager ==
    ASSUME Types, ManagerInv, NEW c \in Call, NEW r \in Request, Begin(c, r) PROVE ManagerInv'
<1> USE DEF ManagerInv
<1>1. /\ pc[c] = "idle" /\ pc'[c] \in {"admission", "done"} /\ req'[c] = r
      /\ pc' \in [Call -> Places] /\ DOMAIN req' = Call /\ DOMAIN result' = Call
      /\ \A d \in Call \ {c} : pc'[d] = pc[d] /\ req'[d] = req[d] /\ result'[d] = result[d]
      /\ pc'[c] = "admission" => lifecycle = "started" /\ result' = result
      /\ pc'[c] = "done" => result'[c] # "ok"
      /\ UNCHANGED <<saved, settings, startVars, admission, persist, next, dropped, gone, sup>>
  BY Beginning
<1>2. result[c] # "ok" /\ result'[c] # "ok" /\ c \notin dropped /\ dropped \subseteq Call
  BY <1>1 DEF CallInv
<1>3. /\ ~Writes(c) /\ ~Writes(c)' /\ \A p \in Plugin : ~Admits(c, p) /\ ~Admits(c, p)' /\ ~Saved(c, p) /\ ~Saved(c, p)'
      /\ \A p \in Plugin : \A x : InInbox(p, x)' = InInbox(p, x)
  BY <1>1 DEF Writes, Admits, Saved, InInbox
<1>4. ASSUME NEW d \in Call \ {c}
      PROVE  /\ Writes(d)' = Writes(d) /\ Persistent(d)' = Persistent(d)
             /\ \A p \in Plugin : Admits(d, p)' = Admits(d, p) /\ Saved(d, p)' = Saved(d, p)
             /\ \A f : Updated(d, f)' = Updated(d, f') /\ Refused(d, f)' = Refused(d, f')
             /\ pc'[d] = pc[d] /\ req'[d] = req[d] /\ result'[d] = result[d]
  BY <1>1 DEF Writes, Admits, Saved, Persistent, Updated, Refused
<1>5. LifeInv' /\ SupInv'
  BY <1>1, <1>3 DEF LifeInv, SupInv, AllClosed, startVars
<1>6. CallInv'
  <2>1. lifecycle = "started" => registered
    BY DEF LifeInv
  <2> QED BY <1>1, <1>2, <1>4, <2>1 DEF CallInv, startVars
<1>7. TokenInv'
  <2>1. \A d \in Call : (Writes(d)' <=> Writes(d)) /\ \A p \in Plugin : Admits(d, p)' <=> Admits(d, p)
    BY <1>3, <1>4
  <2> QED BY <1>1, <2>1, Zenon DEF TokenInv
<1>8. QueueInv'
  <2>1. ASSUME NEW p \in Plugin, NEW i \in DOMAIN sup[p].inbox, sup[p].inbox[i] \in Call
        PROVE  req'[sup[p].inbox[i]].plugin = p /\ pc'[sup[p].inbox[i]] \in {"sent", "waiting", "done"}
    <3>1. sup[p].inbox[i] \in Call \ {c}
      BY <1>1, <2>1 DEF QueueInv
    <3> QED BY <1>4, <2>1, <3>1 DEF QueueInv
  <2>2. ASSUME NEW d \in Call
        PROVE  /\ pc'[d] = "sent" => sup'[req'[d].plugin].mode = "closed" \/ InInbox(req[d].plugin, d)
               /\ pc'[d] = "waiting" /\ req'[d].kind \in {"disable", "restart"} =>
                     sup'[req'[d].plugin].intent # "none" \/ sup'[req'[d].plugin].mode = "closed"
    BY <1>1, <1>4 DEF QueueInv
  <2>3. ASSUME NEW d \in Call, pc'[d] = "sent" PROVE InInbox(req[d].plugin, d) => InInbox(req[d].plugin, d)'
    <3>1. req'[d] = req[d]
      BY <1>1, <1>4, <2>3
    <3> QED BY <1>1, <3>1 DEF InInbox
  <2>4. QueueInv' <=>
           /\ \A p \in Plugin : \A i \in DOMAIN sup'[p].inbox :
                 LET d == sup'[p].inbox[i] IN d \in Call => req'[d].plugin = p /\ pc'[d] \in {"sent", "waiting", "done"}
           /\ \A d \in Call :
                 /\ pc'[d] = "sent" => sup'[req'[d].plugin].mode = "closed" \/ InInbox(req[d].plugin, d)'
                 /\ pc'[d] = "waiting" /\ req'[d].kind \in {"disable", "restart"} =>
                       sup'[req'[d].plugin].intent # "none" \/ sup'[req'[d].plugin].mode = "closed"
    BY DEF QueueInv
  <2>5. /\ \A p \in Plugin : \A i \in DOMAIN sup'[p].inbox :
              LET d == sup'[p].inbox[i] IN d \in Call => req'[d].plugin = p /\ pc'[d] \in {"sent", "waiting", "done"}
        /\ \A d \in Call :
              /\ pc'[d] = "sent" => sup'[req'[d].plugin].mode = "closed" \/ InInbox(req[d].plugin, d)'
              /\ pc'[d] = "waiting" /\ req'[d].kind \in {"disable", "restart"} =>
                    sup'[req'[d].plugin].intent # "none" \/ sup'[req'[d].plugin].mode = "closed"
    BY <1>1, <2>1, <2>2, <2>3
  <2> QED BY <2>4, <2>5
<1>9. SavedInv'
  BY <1>1, <1>2, <1>4 DEF SavedInv, startVars
<1>10. FollowInv'
  <2>1. \A d \in Call, p \in Plugin : Saved(d, p) <=> Saved(d, p)'
    BY <1>3, <1>4
  <2>2. \A d \in Call, p \in Plugin : Saved(d, p) => d # c
    BY <1>3
  <2>3. \A d \in dropped : req'[d] = req[d]
    BY <1>2, <1>4
  <2> QED BY <1>1, <1>4, <2>1, <2>2, <2>3 DEF FollowInv, startVars
<1> QED BY <1>5, <1>6, <1>7, <1>8, <1>9, <1>10

-----------------------------------------------------------------------------
(* The steps of the calls keep the invariant. *)

\* Applying a call twice is applying it once.
LEMMA UpdatedTwice ==
    ASSUME NEW f \in Preference, NEW c \in Call, req[c].kind = "config" => req[c].rev \in Revision
    PROVE  Updated(c, Updated(c, f)) = Updated(c, f)
<1>1. Updated(c, f) \in Preference /\ Updated(c, Updated(c, f)) \in Preference
  BY PreferenceAfter
<1> QED BY <1>1, PreferenceAfter, PreferenceIs

\* What a call reads of the calls that do not move.
LEMMA OthersStay ==
    ASSUME Types, NEW c \in Call, CallAlone(c)
    PROVE  /\ \A d \in Call : /\ Persistent(d)' = Persistent(d) /\ req'[d] = req[d]
                              /\ \A f : Updated(d, f)' = Updated(d, f') /\ Refused(d, f)' = Refused(d, f')
           /\ \A d \in Call \ {c} :
                 /\ pc'[d] = pc[d] /\ result'[d] = result[d] /\ Writes(d)' = Writes(d)
                 /\ \A p \in Plugin : Admits(d, p)' = Admits(d, p) /\ Saved(d, p)' = Saved(d, p)
<1>1. UNCHANGED <<startVars, req, dropped>> /\ Rows(c) /\ \A d \in Call \ {c} : result'[d] = result[d]
  BY CallMoves
<1>2. \A d \in Call \ {c} : pc'[d] = pc[d]
  BY <1>1, CallGoes
<1> QED BY <1>1, <1>2 DEF Persistent, Updated, Refused, Writes, Admits, Saved

LEMMA CallCallInv ==
    ASSUME Types, CallInv, NEW c \in Call, CallAlone(c) PROVE CallInv'
<1>1. /\ UNCHANGED <<startVars, req, dropped>> /\ Rows(c) 
      /\ result'[c] # "ok" \/ result' = result \/ (pc[c] = "waiting" /\ pc' = [pc EXCEPT ![c] = "done"])
  BY CallMoves
<1>2. /\ pc' \in [Call -> Places] /\ \A d \in Call \ {c} : pc'[d] = pc[d]
      /\ pc'[c] # "idle" \/ pc[c] = "idle"
      /\ pc'[c] = pc[c] \/ pc[c] \in {"admission", "persist", "update", "save", "commit", "send", "sent", "waiting"}
  BY <1>1, CallGoes
<1>3. pc'[c] \in {"persist", "update", "save", "commit"} => Persistent(c)
  <2>1. ASSUME NEW from, NEW to \in Places, Moves(c, from, to) PROVE pc[c] = from /\ pc'[c] = to
    BY <2>1, Going
  <2>2. \/ pc' = pc
        \/ Moves(c, "admission", IF Persistent(c) THEN "persist" ELSE "send")
        \/ \E from \in {"persist", "update", "save", "commit"}, to \in Places : Moves(c, from, to)
        \/ \E from \in Places, to \in {"send", "sent", "done"} : Moves(c, from, to)
    BY <1>1, Names DEF Rows, Types
  <2>3. CASE Moves(c, "admission", IF Persistent(c) THEN "persist" ELSE "send")
    <3>1. pc'[c] = IF Persistent(c) THEN "persist" ELSE "send"
      BY <2>1, <2>3, Names
    <3> QED BY <3>1
  <2>4. CASE \E from \in {"persist", "update", "save", "commit"}, to \in Places : Moves(c, from, to)
    BY <2>1, <2>4 DEF CallInv
  <2>5. CASE \E from \in Places, to \in {"send", "sent", "done"} : Moves(c, from, to)
    BY <2>1, <2>5, Names
  <2> QED BY <2>2, <2>3, <2>4, <2>5 DEF CallInv
<1>4. ASSUME result'[c] = "ok" PROVE registered /\ pc'[c] = "done"
  <2>1. CASE result' = result
    BY <1>2, <1>4, <2>1 DEF CallInv
  <2>2. CASE pc[c] = "waiting" /\ pc' = [pc EXCEPT ![c] = "done"]
    BY <2>2 DEF CallInv, Types
  <2> QED BY <1>1, <1>4, <2>1, <2>2
<1>5. \A d \in Call : pc'[d] \notin {"idle", "done"} => registered
  BY <1>2 DEF CallInv
<1> QED BY <1>1, <1>2, <1>3, <1>4, <1>5, OthersStay DEF CallInv, startVars

\* What a step of a call does to the tokens.
Inside(c) == pc[c] \in {"persist", "update", "save", "commit", "send", "sent"}

LEMMA CallTokens ==
    ASSUME Types, NEW c \in Call, Rows(c)
    PROVE  /\ \/ (Writes(c)' <=> Writes(c)) /\ persist' = persist
              \/ ~Writes(c) /\ Writes(c)' /\ persist /\ ~persist'
              \/ Writes(c) /\ ~Writes(c)' /\ persist'
           /\ \/ (Inside(c)' <=> Inside(c)) /\ admission' = admission
              \/ ~Inside(c) /\ Inside(c)' /\ req[c].plugin \in admission /\ admission' = admission \ {req[c].plugin}
              \/ Inside(c) /\ ~Inside(c)' /\ Released(c)
<1> USE Names DEF Writes, Inside
<1>0. ASSUME NEW from, NEW to \in Places, Moves(c, from, to) PROVE pc[c] = from /\ pc'[c] = to
  BY <1>0, Going
<1> DEFINE place == IF Persistent(c) THEN "persist" ELSE "send"
<1>p. place \in Places /\ place \in {"persist", "send"}
  OBVIOUS
<1> HIDE DEF place
<1> DEFINE enters == Moves(c, "admission", place) /\ req[c].plugin \in admission /\ admission' = admission \ {req[c].plugin} /\ persist' = persist
           writes == Moves(c, "persist", "update") /\ persist /\ persist' = FALSE /\ admission' = admission
           leaves == \E from \in {"persist", "send", "sent"} : Moves(c, from, "done") /\ Released(c) /\ persist' = persist
           fails  == \E from \in {"update", "save"} : Moves(c, from, "done") /\ Released(c) /\ persist' = TRUE
           wrote  == \E from \in {"update", "commit"} : Moves(c, from, "send") /\ admission' = admission /\ persist' = TRUE
           holds  == \E from \in {"update", "save"}, to \in {"save", "commit"} : Moves(c, from, to) /\ Tokens
           stays  == Tokens /\ (pc' = pc \/ Moves(c, "send", "sent") \/ \E from \in {"admission", "waiting"} : Moves(c, from, "done"))
<1>1. enters \/ writes \/ leaves \/ fails \/ wrote \/ holds \/ stays
  BY DEF Rows, Tokens, place
<1>2. CASE enters
  BY <1>0, <1>2, <1>p
<1>3. CASE writes
  BY <1>0, <1>3
<1>4. CASE leaves
  BY <1>0, <1>4
<1>5. CASE fails
  BY <1>0, <1>5
<1>6. CASE wrote
  BY <1>0, <1>6
<1>7. CASE holds
  BY <1>0, <1>7 DEF Tokens
<1>8. CASE stays
  BY <1>0, <1>8 DEF Tokens
<1> HIDE DEF enters, writes, leaves, fails, wrote, holds, stays
<1> QED BY <1>1, <1>2, <1>3, <1>4, <1>5, <1>6, <1>7, <1>8

LEMMA CallTokenInv ==
    ASSUME Types, TokenInv, NEW c \in Call, CallAlone(c) PROVE TokenInv'
<1>1. Rows(c) /\ UNCHANGED req
  BY CallMoves
<1>2. \A d \in Call \ {c} : Writes(d)' = Writes(d) /\ \A p \in Plugin : Admits(d, p)' = Admits(d, p)
  BY OthersStay
<1>3. \A p \in Plugin : (Admits(c, p) <=> Inside(c) /\ req[c].plugin = p) /\ (Admits(c, p)' <=> Inside(c)' /\ req[c].plugin = p)
  BY <1>1 DEF Admits, Inside
<1>4. /\ persist' <=> \A d \in Call : ~Writes(d)'
      /\ \A d, e \in Call : Writes(d)' /\ Writes(e)' => d = e
  BY <1>1, <1>2, CallTokens DEF TokenInv, Types
<1>5. ASSUME NEW p \in Plugin
      PROVE  /\ p \in admission' <=> \A d \in Call : ~Admits(d, p)'
             /\ \A d, e \in Call : Admits(d, p)' /\ Admits(e, p)' => d = e
  <2>1. CASE (Inside(c)' <=> Inside(c)) /\ admission' = admission
    BY <1>2, <1>3, <2>1 DEF TokenInv
  <2>2. CASE ~Inside(c) /\ Inside(c)' /\ req[c].plugin \in admission /\ admission' = admission \ {req[c].plugin}
    BY <1>2, <1>3, <2>2 DEF TokenInv
  <2>3. CASE Inside(c) /\ ~Inside(c)' /\ Released(c)
    BY <1>2, <1>3, <2>3 DEF TokenInv, Released
  <2> QED BY <1>1, <2>1, <2>2, <2>3, CallTokens
<1> QED BY <1>4, <1>5 DEF TokenInv

\* A command goes to the end of its supervisor's inbox.
LEMMA CommandSent ==
    ASSUME Types, NEW c \in Call, NEW p \in Plugin, sup' = [sup EXCEPT ![p].inbox = Append(@, c)]
    PROVE  /\ \A q \in Plugin :
                 /\ sup'[q].mode = sup[q].mode /\ sup'[q].intent = sup[q].intent /\ sup'[q].pref = sup[q].pref
                 /\ \A x : InInbox(q, x)' => InInbox(q, x) \/ (x = c /\ q = p)
                 /\ \A x : InInbox(q, x) => InInbox(q, x)'
                 /\ \A i \in DOMAIN sup'[q].inbox : \/ i \in DOMAIN sup[q].inbox /\ sup'[q].inbox[i] = sup[q].inbox[i]
                                                    \/ sup'[q].inbox[i] = c /\ q = p
           /\ \A q \in Plugin : q = p => InInbox(q, c)'
<1>1. ASSUME NEW q \in Plugin PROVE sup[q].inbox \in Seq(Call \cup {CloseCmd})
  BY DEF Types, SupType
<1>2. /\ \A q \in Plugin \ {p} : sup'[q] = sup[q]
      /\ sup'[p] = [sup[p] EXCEPT !.inbox = Append(sup[p].inbox, c)]
  BY DEF Types
<1>3. /\ sup'[p].mode = sup[p].mode /\ sup'[p].intent = sup[p].intent /\ sup'[p].pref = sup[p].pref
      /\ sup'[p].inbox = Append(sup[p].inbox, c)
  <2>1. sup[p] \in SupType
    BY DEF Types
  <2> QED BY <1>2, <2>1 DEF SupType
<1>4. /\ DOMAIN sup[p].inbox = 1 .. Len(sup[p].inbox) /\ DOMAIN sup'[p].inbox = 1 .. Len(sup[p].inbox) + 1
      /\ Len(sup[p].inbox) \in Nat
      /\ \A i \in 1 .. Len(sup[p].inbox) : sup'[p].inbox[i] = sup[p].inbox[i]
      /\ sup'[p].inbox[Len(sup[p].inbox) + 1] = c
  BY <1>1, <1>3
<1>5. /\ \A x : InInbox(p, x)' => InInbox(p, x) \/ x = c
      /\ \A x : InInbox(p, x) => InInbox(p, x)'
      /\ InInbox(p, c)'
      /\ \A i \in DOMAIN sup'[p].inbox : \/ i \in DOMAIN sup[p].inbox /\ sup'[p].inbox[i] = sup[p].inbox[i]
                                         \/ sup'[p].inbox[i] = c
  BY <1>4 DEF InInbox
<1> QED BY <1>2, <1>3, <1>5 DEF InInbox

\* What a call does to the supervisors, and where calls that were sent go.
LEMMA CallSups ==
    ASSUME Types, NEW c \in Call, Rows(c), pc[c] # "idle"
    PROVE  /\ \/ sup' = sup /\ pc'[c] # "sent"
              \/ sup' = sup /\ pc'[c] = "sent" /\ pc[c] = "sent"
              \/ pc[c] = "send" /\ pc'[c] = "sent" /\ sup' = [sup EXCEPT ![req[c].plugin].inbox = Append(@, c)]
           /\ pc[c] \in {"sent", "waiting", "done"} => pc'[c] \in {"sent", "waiting", "done"}
           /\ pc'[c] = "waiting" => pc[c] = "waiting"
<1> USE Names DEF Quiet
<1>0. ASSUME NEW from, NEW to \in Places, Moves(c, from, to) PROVE pc[c] = from /\ pc'[c] = to
  BY <1>0, Going
<1> DEFINE sends == Moves(c, "send", "sent") /\ sup' = [sup EXCEPT ![req[c].plugin].inbox = Append(@, c)]
           early == \E from \in {"admission", "persist", "update", "save", "commit", "send"},
                       to \in {"persist", "update", "save", "commit", "send", "done"} : Moves(c, from, to) /\ sup' = sup
           ends  == \E from \in {"sent", "waiting"} : Moves(c, from, "done") /\ sup' = sup
           stays == pc' = pc /\ sup' = sup
<1>1. sends \/ early \/ ends \/ stays
  BY DEF Rows
<1>2. CASE sends
  BY <1>0, <1>2
<1>3. CASE early
  BY <1>0, <1>3
<1>4. CASE ends
  BY <1>0, <1>4
<1>5. CASE stays
  BY <1>5
<1> HIDE DEF sends, early, ends, stays
<1> QED BY <1>1, <1>2, <1>3, <1>4, <1>5

LEMMA CallInboxes ==
    ASSUME Types, NEW c \in Call, Rows(c)
    PROVE  \A q \in Plugin :
              /\ sup'[q].mode = sup[q].mode /\ sup'[q].intent = sup[q].intent /\ sup'[q].pref = sup[q].pref
              /\ \A x : InInbox(q, x)' => InInbox(q, x) \/ (x = c /\ q = req[c].plugin)
              /\ \A x : InInbox(q, x) => InInbox(q, x)'
              /\ \A i \in DOMAIN sup'[q].inbox : \/ i \in DOMAIN sup[q].inbox /\ sup'[q].inbox[i] = sup[q].inbox[i]
                                                 \/ sup'[q].inbox[i] = c /\ q = req[c].plugin /\ pc'[c] = "sent"
              /\ sup'[q].inbox # sup[q].inbox => pc[c] = "send"
              /\ pc'[c] = "sent" /\ pc[c] # "sent" /\ q = req[c].plugin => InInbox(q, c)'
<1>1. CASE sup' = sup
  <2>1. \A q, x : InInbox(q, x)' = InInbox(q, x)
    BY <1>1 DEF InInbox
  <2>2. pc[c] # "idle" => ~(pc'[c] = "sent" /\ pc[c] # "sent") \/ \E x : sup' = [sup EXCEPT ![req[c].plugin].inbox = Append(@, c)] /\ pc[c] = "send"
    BY CallSups
  <2>3. pc[c] = "idle" => pc'[c] # "sent"
    BY CallGoes, Names
  <2>4. CASE ~(pc'[c] = "sent" /\ pc[c] # "sent")
    BY <1>1, <2>1, <2>4
  <2>5. CASE pc[c] = "send" /\ sup' = [sup EXCEPT ![req[c].plugin].inbox = Append(@, c)]
    <3>1. req[c].plugin \in Plugin
      BY <2>5 DEF Types
    <3> QED BY <1>1, <2>1, <2>5, <3>1, CommandSent
  <2> QED BY <2>2, <2>3, <2>4, <2>5
<1>2. CASE sup' # sup
  <2>1. pc[c] = "send" /\ pc'[c] = "sent" /\ sup' = [sup EXCEPT ![req[c].plugin].inbox = Append(@, c)]
    <3>1. pc[c] # "idle"
      <4>1. \/ \E from \in Places \ {"idle"} : \E to : Moves(c, from, to)
            \/ sup' = sup
        BY Names DEF Rows, Quiet, Places
      <4> QED BY <1>2, <4>1 DEF Moves
    <3> QED BY <1>2, <3>1, CallSups
  <2>2. req[c].plugin \in Plugin
    BY <2>1 DEF Types
  <2>3. PICK p \in Plugin : sup' = [sup EXCEPT ![p].inbox = Append(@, c)] /\ p = req[c].plugin
    BY <2>1, <2>2
  <2>4. /\ \A q \in Plugin :
              /\ sup'[q].mode = sup[q].mode /\ sup'[q].intent = sup[q].intent /\ sup'[q].pref = sup[q].pref
              /\ \A x : InInbox(q, x)' => InInbox(q, x) \/ (x = c /\ q = p)
              /\ \A x : InInbox(q, x) => InInbox(q, x)'
              /\ \A i \in DOMAIN sup'[q].inbox : \/ i \in DOMAIN sup[q].inbox /\ sup'[q].inbox[i] = sup[q].inbox[i]
                                                 \/ sup'[q].inbox[i] = c /\ q = p
        /\ \A q \in Plugin : q = p => InInbox(q, c)'
    <3>1. sup' = [sup EXCEPT ![p].inbox = Append(@, c)]
      BY <2>3
    <3> HIDE <2>3
    <3> QED BY ZenonT(60), <3>1, CommandSent
  <2> QED BY <2>1, <2>3, <2>4
<1> QED BY <1>1, <1>2

LEMMA CallQueueInv ==
    ASSUME Types, QueueInv, NEW c \in Call, CallAlone(c) PROVE QueueInv'
<1>1. Rows(c) /\ UNCHANGED req
  BY CallMoves
<1>2. /\ \A d \in Call \ {c} : pc'[d] = pc[d]
      /\ pc[c] \in {"sent", "waiting", "done"} => pc'[c] \in {"sent", "waiting", "done"}
      /\ pc'[c] = "waiting" => pc[c] = "waiting"
  <2>1. pc[c] = "idle" => pc'[c] = pc[c]
    BY <1>1, CallGoes
  <2> QED BY <1>1, <2>1, CallGoes, CallSups
<1>3. ASSUME NEW p \in Plugin, NEW i \in DOMAIN sup'[p].inbox, sup'[p].inbox[i] \in Call
      PROVE  req[sup'[p].inbox[i]].plugin = p /\ pc'[sup'[p].inbox[i]] \in {"sent", "waiting", "done"}
  <2>1. CASE i \in DOMAIN sup[p].inbox /\ sup'[p].inbox[i] = sup[p].inbox[i]
    <3>1. req[sup[p].inbox[i]].plugin = p /\ pc[sup[p].inbox[i]] \in {"sent", "waiting", "done"}
      BY <1>3, <2>1 DEF QueueInv
    <3> QED BY <1>2, <1>3, <2>1, <3>1
  <2>2. CASE sup'[p].inbox[i] = c /\ p = req[c].plugin /\ pc'[c] = "sent"
    BY <2>2
  <2> QED BY <1>1, <2>1, <2>2, CallInboxes
<1>4. ASSUME NEW d \in Call, NEW p \in Plugin, p = req[d].plugin
      PROVE  /\ pc'[d] = "sent" => sup'[p].mode = "closed" \/ InInbox(p, d)'
             /\ pc'[d] = "waiting" /\ req[d].kind \in {"disable", "restart"} => sup'[p].intent # "none" \/ sup'[p].mode = "closed"
  <2>1. sup'[p].mode = sup[p].mode /\ sup'[p].intent = sup[p].intent /\ (InInbox(p, d) => InInbox(p, d)')
    BY <1>1, CallInboxes
  <2>2. CASE pc'[d] = "sent" /\ pc[d] # "sent"
    <3>1. d = c
      BY <1>2, <2>2
    <3> QED BY <1>1, <1>4, <2>2, <3>1, CallInboxes
  <2>3. InInbox(req[d].plugin, d) <=> InInbox(p, d)
    BY <1>4
  <2>4. CASE pc'[d] # "sent" \/ pc[d] = "sent"
    BY <1>2, <1>4, <2>1, <2>3, <2>4 DEF QueueInv
  <2> QED BY <2>2, <2>4
<1>5. \A d \in Call : pc'[d] # "idle" => req[d].plugin \in Plugin
  <2>1. \A d \in Call : pc'[d] # "idle" => pc[d] # "idle"
    BY <1>1, CallGoes
  <2> QED BY <2>1 DEF Types
<1>6. QueueInv' <=>
         /\ \A p \in Plugin : \A i \in DOMAIN sup'[p].inbox :
               LET d == sup'[p].inbox[i] IN d \in Call => req'[d].plugin = p /\ pc'[d] \in {"sent", "waiting", "done"}
         /\ \A d \in Call :
               /\ pc'[d] = "sent" => sup'[req'[d].plugin].mode = "closed" \/ InInbox(req[d].plugin, d)'
               /\ pc'[d] = "waiting" /\ req'[d].kind \in {"disable", "restart"} =>
                     sup'[req'[d].plugin].intent # "none" \/ sup'[req'[d].plugin].mode = "closed"
  BY DEF QueueInv
<1>7. ASSUME NEW d \in Call
      PROVE  /\ pc'[d] = "sent" => sup'[req'[d].plugin].mode = "closed" \/ InInbox(req[d].plugin, d)'
             /\ pc'[d] = "waiting" /\ req'[d].kind \in {"disable", "restart"} =>
                   sup'[req'[d].plugin].intent # "none" \/ sup'[req'[d].plugin].mode = "closed"
  <2>1. CASE pc'[d] = "idle"
    BY <2>1
  <2>2. CASE pc'[d] # "idle"
    <3>1. PICK p \in Plugin : p = req[d].plugin
      BY <1>5, <2>2
    <3>2. InInbox(p, d)' => InInbox(req[d].plugin, d)'
      BY <1>1, <3>1 DEF InInbox
    <3> QED BY <1>1, <1>4, <3>1, <3>2
  <2> QED BY <2>1, <2>2
<1> QED BY <1>1, <1>3, <1>6, <1>7

LEMMA CallSupInv ==
    ASSUME Types, LifeInv, SupInv, CallInv, NEW c \in Call, CallAlone(c) PROVE SupInv'
<1>1. Rows(c) /\ UNCHANGED startVars
  BY CallMoves
<1>2. \A p \in Plugin :
         /\ sup'[p].mode = sup[p].mode /\ sup'[p].intent = sup[p].intent /\ sup'[p].pref = sup[p].pref
         /\ InInbox(p, CloseCmd)' <=> InInbox(p, CloseCmd)
         /\ sup'[p].inbox # sup[p].inbox => pc[c] = "send"
  BY <1>1, CallInboxes, ManagerAssumption
<1>3. starter.pc = "create" => pc[c] \notin {"send", "save"}
  BY DEF LifeInv, CallInv
<1>4. starter.pc = "create" => saved' = saved /\ \A p \in Plugin : sup'[p].inbox = sup[p].inbox
  <2>1. saved' = saved \/ Moves(c, "save", "commit")
    BY <1>1 DEF Rows, Quiet
  <2> QED BY <1>2, <1>3, <2>1 DEF Moves
<1> QED BY <1>1, <1>2, <1>4 DEF SupInv, startVars, AllClosed

\* What a step of a call does to what is saved.
Stays(c) ==
    /\ UNCHANGED <<saved, settings>>
    /\ \/ pc'[c] \notin {"save", "commit"}
       \/ pc'[c] = pc[c] /\ next' = next
    /\ pc[c] = "commit" => pc'[c] = pc[c]
    /\ pc'[c] \in {"send", "sent"} /\ Persistent(c) => pc[c] \in {"send", "sent"}
    /\ pc[c] \in {"send", "sent"} /\ Persistent(c) => pc'[c] \in {"send", "sent"} \/ sup[req[c].plugin].mode = "closed"
    /\ \A d \in Call \ {c} : next'[d] = next[d]
Changes(c) == /\ pc[c] = "update" /\ pc'[c] \in {"save", "send"} /\ UNCHANGED <<saved, settings>>
              /\ ~Refused(c, settings[req[c].plugin])
              /\ next' = [next EXCEPT ![c] = [settings EXCEPT ![req[c].plugin] = Updated(c, @)]]
              /\ (pc'[c] = "send" => next'[c] = settings)
Writing(c) == pc[c] = "save" /\ pc'[c] = "commit" /\ saved' = next[c] /\ UNCHANGED <<settings, next>>
Written(c) == pc[c] = "commit" /\ pc'[c] = "send" /\ settings' = next[c] /\ UNCHANGED <<saved, next>>

LEMMA CallSaves ==
    ASSUME Types, NEW c \in Call, Rows(c)
    PROVE  Stays(c) \/ Changes(c) \/ Writing(c) \/ Written(c)
<1> USE Names DEF Quiet
<1>0. ASSUME NEW from, NEW to \in Places, Moves(c, from, to) PROVE pc[c] = from /\ pc'[c] = to
  BY <1>0, Going
<1> DEFINE place == IF Persistent(c) THEN "persist" ELSE "send"
           early  == \E from \in {"admission", "persist"}, to \in {"persist", "update", "done"} : Moves(c, from, to) /\ UNCHANGED <<saved, settings, next>>
           plain  == ~Persistent(c) /\ Moves(c, "admission", "send") /\ UNCHANGED <<saved, settings, next>>
           enter  == Moves(c, "admission", place) /\ UNCHANGED <<saved, settings, next>>
           stops  == /\ \E from \in {"update", "save", "waiting"} : Moves(c, from, "done")
                     /\ UNCHANGED <<saved, settings>>
                     /\ next' = next \/ next' = [next EXCEPT ![c] = [settings EXCEPT ![req[c].plugin] = Updated(c, @)]]
           change == /\ \E to \in {"save", "send"} : Moves(c, "update", to) /\ (to = "send" => next'[c] = settings)
                     /\ UNCHANGED <<saved, settings>>
                     /\ ~Refused(c, settings[req[c].plugin])
                     /\ next' = [next EXCEPT ![c] = [settings EXCEPT ![req[c].plugin] = Updated(c, @)]]
           write  == Moves(c, "save", "commit") /\ saved' = next[c] /\ UNCHANGED <<settings, next>>
           wrote  == Moves(c, "commit", "send") /\ settings' = next[c] /\ UNCHANGED <<saved, next>>
           send   == Moves(c, "send", "sent") /\ UNCHANGED <<saved, settings, next>>
           leave  == /\ \E from \in {"send", "sent"} : Moves(c, from, "done")
                     /\ sup[req[c].plugin].mode = "closed" \/ ~Persistent(c)
                     /\ UNCHANGED <<saved, settings, next>>
           same   == pc' = pc /\ UNCHANGED <<saved, settings, next>>
<1>1. early \/ plain \/ stops \/ change \/ write \/ wrote \/ send \/ leave \/ same
  <2>1. place = "persist" \/ (place = "send" /\ ~Persistent(c))
    OBVIOUS
  <2>2. enter \/ early \/ stops \/ change \/ write \/ wrote \/ send \/ leave \/ same
    BY DEF Rows
  <2> HIDE DEF place
  <2>3. enter => early \/ plain
    BY <2>1
  <2> QED BY <2>2, <2>3
<1>2. CASE early
  BY <1>0, <1>2 DEF Stays
<1>3. CASE plain
  BY <1>0, <1>3 DEF Stays
<1>4. CASE stops
  <2>1. \A d \in Call \ {c} : next'[d] = next[d]
    BY <1>4 DEF Types
  <2>2. pc[c] \in {"update", "save", "waiting"} /\ pc'[c] = "done" /\ UNCHANGED <<saved, settings>>
    BY <1>0, <1>4
  <2> HIDE DEF stops
  <2> QED BY <2>1, <2>2 DEF Stays
<1>5. CASE change
  BY <1>0, <1>5 DEF Changes
<1>6. CASE write
  BY <1>0, <1>6 DEF Writing
<1>7. CASE wrote
  BY <1>0, <1>7 DEF Written
<1>8. CASE send
  BY <1>0, <1>8 DEF Stays
<1>9. CASE leave
  BY <1>0, <1>9 DEF Stays
<1>10. CASE same
  BY <1>10 DEF Stays
<1> HIDE DEF early, plain, enter, stops, change, write, wrote, send, leave, same
<1> QED BY <1>1, <1>2, <1>3, <1>4, <1>5, <1>6, <1>7, <1>8, <1>9, <1>10

\* Only the holder of the persist token writes.
LEMMA OneWriter ==
    ASSUME TokenInv, NEW c \in Call, Writes(c)
    PROVE  \A d \in Call \ {c} : pc[d] \notin {"update", "save", "commit"}
  BY DEF TokenInv, Writes

LEMMA StoreIsSettings ==
    ASSUME Types, CallInv, TokenInv, SavedInv, NEW c \in Call, pc[c] \in {"update", "save"}
    PROVE  settings = saved /\ Persistent(c) /\ req[c].plugin \in Plugin /\ registered
           /\ (req[c].kind = "config" => req[c].rev \in Revision)
<1>1. Writes(c)
  BY DEF Writes
<1>2. \A d \in Call : pc[d] # "commit"
  BY <1>1, OneWriter
<1> QED BY <1>2 DEF SavedInv, CallInv, Types

\* A Save changes the plugin of its call, and never takes a Config back.
LEMMA CallWrites ==
    ASSUME Types, CallInv, TokenInv, SavedInv, NEW c \in Call, Writing(c)
    PROVE  /\ saved' = [saved EXCEPT ![req[c].plugin] = Updated(c, @)]
           /\ saved'[req[c].plugin] = Updated(c, saved[req[c].plugin])
           /\ Updated(c, saved'[req[c].plugin]) = saved'[req[c].plugin]
           /\ \A q \in Plugin : q # req[c].plugin => saved'[q] = saved[q]
           /\ \A q \in Plugin : saved'[q].config >= saved[q].config
<1>1. /\ settings = saved /\ Persistent(c) /\ req[c].plugin \in Plugin /\ pc[c] = "save"
      /\ req[c].kind = "config" => req[c].rev \in Revision
  BY StoreIsSettings DEF Writing
<1>2. saved' = [saved EXCEPT ![req[c].plugin] = Updated(c, @)] /\ ~Refused(c, saved[req[c].plugin])
  BY <1>1 DEF SavedInv, Writing
<1>3. \A q \in Plugin : saved[q] \in Preference /\ saved[q].config \in Nat
  BY Revisions DEF Types, Settings, Preference
<1>4. /\ saved'[req[c].plugin] = Updated(c, saved[req[c].plugin])
      /\ \A q \in Plugin : q # req[c].plugin => saved'[q] = saved[q]
  BY <1>1, <1>2 DEF Types, Settings
<1>5. Updated(c, saved'[req[c].plugin]) = saved'[req[c].plugin]
  BY <1>1, <1>3, <1>4, UpdatedTwice
<1>6. Updated(c, saved[req[c].plugin]).config = IF req[c].kind = "config" THEN req[c].rev ELSE saved[req[c].plugin].config
  BY <1>1, <1>3, PreferenceAfter
<1>7. saved'[req[c].plugin].config >= saved[req[c].plugin].config
  <2>1. saved[req[c].plugin].config \in Nat
    BY <1>1, <1>3
  <2>2. CASE req[c].kind = "config"
    <3>1. req[c].rev \in Nat
      BY <1>1, <2>2, Revisions
    <3>2. ~(req[c].rev < saved[req[c].plugin].config)
      BY <1>2, <2>2 DEF Refused
    <3>3. saved'[req[c].plugin].config = req[c].rev
      BY <1>4, <1>6, <2>2
    <3> HIDE DEF Refused
    <3> QED BY <2>1, <3>1, <3>2, <3>3
  <2>3. CASE req[c].kind # "config"
    BY <1>4, <1>6, <2>1, <2>3
  <2> QED BY <2>2, <2>3
<1> QED BY <1>2, <1>3, <1>4, <1>5, <1>7

LEMMA CallMonotone ==
    ASSUME Types, CallInv, TokenInv, SavedInv, NEW c \in Call, Rows(c)
    PROVE  \A q \in Plugin : saved[q].config \in Nat /\ saved'[q].config >= saved[q].config
<1>1. \A q \in Plugin : saved[q].config \in Nat
  BY Revisions DEF Types, Settings, Preference
<1>2. saved' = saved \/ Writing(c)
  BY CallSaves DEF Stays, Changes, Written
<1> QED BY <1>1, <1>2, CallWrites

LEMMA CallSavedInv ==
    ASSUME Types, LifeInv, CallInv, TokenInv, SavedInv, NEW c \in Call, CallAlone(c) PROVE SavedInv'
<1>1. /\ Rows(c) /\ UNCHANGED <<startVars, req>> /\ registered' = registered
      /\ \A d \in Call \ {c} : result'[d] = result[d] /\ pc'[d] = pc[d]
      /\ result'[c] # "ok" \/ result' = result \/ pc[c] = "waiting"
  BY CallMoves, OthersStay DEF startVars
<1>2. /\ \A d \in Call : Persistent(d)' = Persistent(d) /\ \A f : Updated(d, f)' = Updated(d, f') /\ Refused(d, f)' = Refused(d, f')
  BY OthersStay
<1>3. \A p \in Plugin : sup'[p].pref = sup[p].pref /\ saved[p].config \in Nat /\ saved'[p].config >= saved[p].config
  BY <1>1, CallInboxes, CallMonotone
<1>4. ASSUME NEW d \in Call, req[d].kind = "config", pc'[d] = "waiting" \/ result'[d] = "ok"
      PROVE  saved'[req[d].plugin].config >= req[d].rev /\ sup'[req[d].plugin].pref.config >= req[d].rev
  <2>1. pc[d] = "waiting" \/ result[d] = "ok"
    <3>1. pc'[c] = "waiting" => pc[c] = "waiting"
      <4>1. pc[c] = "idle" => pc'[c] = pc[c]
        BY <1>1, CallGoes
      <4> QED BY <1>1, <4>1, CallSups
    <3> QED BY <1>1, <1>4, <3>1
  <2>2. req[d].plugin \in Plugin /\ req[d].rev \in Nat
    BY <1>4, <2>1, Revisions DEF CallInv, Types
  <2>3. saved[req[d].plugin].config >= req[d].rev /\ sup[req[d].plugin].pref.config >= req[d].rev
    BY <1>4, <2>1 DEF SavedInv
  <2>4. saved'[req[d].plugin].config \in Nat
    BY <2>2, CallTypes, Revisions DEF Types, Settings, Preference
  <2>5. saved[req[d].plugin].config \in Nat /\ saved'[req[d].plugin].config >= saved[req[d].plugin].config
        /\ sup'[req[d].plugin].pref = sup[req[d].plugin].pref
    BY <1>3, <2>2
  <2> QED BY <2>2, <2>3, <2>4, <2>5
<1>5. SavedInv' <=>
         /\ registered' => settings' = saved' \/ \E d \in Call : pc'[d] = "commit"
         /\ \A d \in Call :
               /\ pc'[d] = "save" => next'[d] = [settings' EXCEPT ![req[d].plugin] = Updated(d, @)] /\ ~Refused(d, settings'[req[d].plugin])
               /\ pc'[d] = "commit" => next'[d] = saved'
               /\ pc'[d] \in {"commit", "send", "sent"} /\ Persistent(d) => Updated(d, saved'[req[d].plugin]) = saved'[req[d].plugin]
               /\ req[d].kind = "config" /\ (pc'[d] = "waiting" \/ result'[d] = "ok") =>
                     saved'[req[d].plugin].config >= req[d].rev /\ sup'[req[d].plugin].pref.config >= req[d].rev
  BY <1>1, <1>2 DEF SavedInv
<1> DEFINE first == registered => settings' = saved' \/ \E d \in Call : pc'[d] = "commit"
           rest(d) == /\ pc'[d] = "save" => next'[d] = [settings' EXCEPT ![req[d].plugin] = Updated(d, @)] /\ ~Refused(d, settings'[req[d].plugin])
                      /\ pc'[d] = "commit" => next'[d] = saved'
                      /\ pc'[d] \in {"commit", "send", "sent"} /\ Persistent(d) => Updated(d, saved'[req[d].plugin]) = saved'[req[d].plugin]
<1>6. CASE Stays(c)
  <2>1. first
    BY <1>1, <1>6 DEF Stays, SavedInv
  <2>2. ASSUME NEW d \in Call PROVE rest(d)
    <3>1. CASE d = c
      BY <1>6, <3>1 DEF Stays, SavedInv
    <3>2. CASE d # c
      BY <1>1, <1>6, <3>2 DEF Stays, SavedInv
    <3> QED BY <3>1, <3>2
  <2> QED BY <1>1, <1>4, <1>5, <2>1, <2>2
<1>7. CASE Changes(c)
  <2>1. settings = saved /\ Persistent(c) /\ req[c].plugin \in Plugin /\ Writes(c)
    BY <1>7, StoreIsSettings DEF Changes, Writes
  <2>2. first
    BY <1>7, <2>1 DEF Changes
  <2>3. next'[c] = [settings EXCEPT ![req[c].plugin] = Updated(c, @)]
    BY <1>7 DEF Changes, Types
  <2>4. rest(c)
    <3>1. CASE pc'[c] = "save"
      BY <1>7, <2>3, <3>1 DEF Changes
    <3>2. CASE pc'[c] = "send"
      <4>1. Updated(c, settings[req[c].plugin]) = settings[req[c].plugin]
        BY <1>7, <2>1, <2>3, <3>2 DEF Changes, Types, Settings
      <4> QED BY <1>7, <2>1, <3>2, <4>1 DEF Changes
    <3> QED BY <1>7, <3>1, <3>2 DEF Changes
  <2>5. ASSUME NEW d \in Call \ {c} PROVE rest(d)
    <3>1. next'[d] = next[d]
      BY <1>7 DEF Changes, Types
    <3> QED BY <1>1, <1>7, <3>1 DEF Changes, SavedInv
  <2> QED BY <1>1, <1>4, <1>5, <2>2, <2>4, <2>5
<1>8. CASE Writing(c)
  <2>1. /\ pc[c] = "save" /\ pc'[c] = "commit" /\ saved' = next[c] /\ settings' = settings /\ next' = next /\ Writes(c) /\ Inside(c)
    BY <1>8 DEF Writing, Writes, Inside
  <2>2. first
    BY <2>1
  <2>3. rest(c)
    BY <1>8, <2>1, CallWrites
  <2>4. ASSUME NEW d \in Call \ {c} PROVE rest(d)
    <3>1. pc'[d] \notin {"save", "commit"}
      BY <1>1, <2>1, OneWriter
    <3>2. ASSUME pc'[d] \in {"send", "sent"} PROVE req[d].plugin \in Plugin /\ req[d].plugin # req[c].plugin
      <4>1. req[d].plugin \in Plugin /\ req[c].plugin \in Plugin /\ pc[d] \in {"send", "sent"}
        BY <1>1, <2>1, <3>2 DEF Types
      <4>2. CASE req[d].plugin = req[c].plugin
        <5>1. PICK p \in Plugin : p = req[c].plugin
          BY <4>1
        <5>2. Admits(c, p) /\ Admits(d, p)
          BY <2>1, <4>1, <4>2, <5>1 DEF Admits
        <5> QED BY <5>2 DEF TokenInv
      <4> QED BY <4>1, <4>2
    <3>3. pc'[d] \in {"send", "sent"} => saved'[req[d].plugin] = saved[req[d].plugin]
      BY <1>8, <3>2, CallWrites
    <3> QED BY <1>1, <3>1, <3>3 DEF SavedInv
  <2> QED BY <1>1, <1>4, <1>5, <2>2, <2>3, <2>4
<1>9. CASE Written(c)
  <2>1. /\ pc[c] = "commit" /\ pc'[c] = "send" /\ settings' = saved /\ saved' = saved /\ next' = next /\ Writes(c)
    BY <1>9 DEF Written, Writes, SavedInv
  <2>2. ASSUME NEW d \in Call PROVE rest(d)
    <3>1. CASE d = c
      BY <2>1, <3>1 DEF SavedInv
    <3>2. CASE d # c
      <4>1. pc'[d] \notin {"save", "commit"}
        BY <1>1, <2>1, <3>2, OneWriter
      <4> QED BY <1>1, <2>1, <3>2, <4>1 DEF SavedInv
    <3> QED BY <3>1, <3>2
  <2> QED BY <1>1, <1>4, <1>5, <2>1, <2>2
<1> QED BY <1>1, <1>6, <1>7, <1>8, <1>9, CallSaves

LEMMA CallFollowInv ==
    ASSUME Types, LifeInv, SupInv, CallInv, TokenInv, SavedInv, FollowInv, NEW c \in Call, CallAlone(c)
    PROVE  FollowInv'
<1> SUFFICES ASSUME lifecycle' = "started", NEW p \in Plugin
             PROVE  /\ sup'[p].pref.config <= saved'[p].config
                    /\ (\A d \in dropped' : req'[d].plugin # p) =>
                          /\ \A d \in Call : Saved(d, p)' => saved'[p] = Updated(d, sup[p].pref)'
                          /\ (\A d \in Call : ~Saved(d, p)') => sup'[p].pref = saved'[p]
  BY Zenon DEF FollowInv
<1>1. /\ Rows(c) /\ UNCHANGED <<req, dropped>> /\ lifecycle = "started"
      /\ \A d \in Call \ {c} : pc'[d] = pc[d] /\ Saved(d, p)' = Saved(d, p)
  BY CallMoves, OthersStay DEF startVars
<1>2. /\ sup'[p].pref = sup[p].pref /\ sup[p].pref.config \in Nat /\ saved[p].config \in Nat /\ saved'[p].config \in Nat
      /\ saved'[p].config >= saved[p].config /\ sup[p].pref \in Preference /\ saved[p] \in Preference
  <2>1. Types'
    BY CallTypes
  <2> QED BY ZenonT(60), <1>1, <2>1, CallInboxes, CallMonotone, Revisions DEF Types, SupType, Settings, Preference
<1>3. \A d \in Call : Updated(d, sup[p].pref)' = Updated(d, sup[p].pref)
  BY <1>2, OthersStay
<1>4. sup[p].pref.config <= saved[p].config
  BY <1>1 DEF FollowInv
<1>5. sup'[p].pref.config <= saved'[p].config
  BY <1>2, <1>4
<1> SUFFICES ASSUME \A d \in dropped : req[d].plugin # p
             PROVE  /\ \A d \in Call : Saved(d, p)' => saved'[p] = Updated(d, sup[p].pref)
                    /\ (\A d \in Call : ~Saved(d, p)') => sup[p].pref = saved'[p]
  BY <1>1, <1>2, <1>3, <1>5
<1>6. /\ \A d \in Call : Saved(d, p) => saved[p] = Updated(d, sup[p].pref)
      /\ (\A d \in Call : ~Saved(d, p)) => sup[p].pref = saved[p]
  BY <1>1 DEF FollowInv
<1>7. \A q \in Plugin : sup[q].mode = "open"
  BY <1>1 DEF LifeInv, SupInv
<1>8. (Saved(c, p)' <=> req[c].plugin = p /\ Persistent(c) /\ pc'[c] \in {"commit", "send", "sent"})
      /\ (Saved(c, p) <=> req[c].plugin = p /\ Persistent(c) /\ pc[c] \in {"commit", "send", "sent"})
  BY <1>1 DEF Saved, Persistent
<1>9. \A d \in Call \ {c} : Inside(c) /\ req[c].plugin = p => ~Saved(d, p)
  <2>1. ASSUME NEW d \in Call \ {c}, Inside(c), req[c].plugin = p, Saved(d, p) PROVE FALSE
    <3>1. Admits(c, p) /\ Admits(d, p)
      BY <2>1 DEF Admits, Inside, Saved
    <3> QED BY <3>1 DEF TokenInv
  <2> QED BY <2>1
<1>10. CASE Stays(c)
  <2>1. saved' = saved /\ (Saved(c, p)' <=> Saved(c, p))
    <3>1. saved' = saved
      BY <1>10 DEF Stays
    <3>2. Saved(c, p)' => Saved(c, p)
      BY <1>8, <1>10 DEF Stays
    <3>3. Saved(c, p) => Saved(c, p)'
      <4> SUFFICES ASSUME Saved(c, p), ~Saved(c, p)' PROVE FALSE
        OBVIOUS
      <4>1. req[c].plugin = p /\ Persistent(c) /\ pc[c] \in {"commit", "send", "sent"} /\ pc'[c] \notin {"commit", "send", "sent"}
        BY <1>8
      <4> QED BY <1>7, <1>10, <4>1 DEF Stays
    <3> QED BY <3>1, <3>2, <3>3
  <2> QED BY <1>1, <1>6, <2>1
<1>11. CASE Changes(c)
  <2>1. /\ saved' = saved /\ settings = saved /\ Persistent(c) /\ pc[c] = "update" /\ Inside(c)
        /\ next'[c] = [settings EXCEPT ![req[c].plugin] = Updated(c, @)] /\ (pc'[c] = "send" => next'[c] = settings)
        /\ pc'[c] \in {"save", "send"}
    BY <1>11, StoreIsSettings DEF Changes, Inside, Types
  <2>2. CASE req[c].plugin = p /\ pc'[c] = "send"
    <3>1. \A d \in Call : ~Saved(d, p)
      BY <1>8, <1>9, <2>1, <2>2
    <3>2. sup[p].pref = saved[p] /\ Updated(c, saved[p]) = saved[p]
      BY <1>6, <2>1, <2>2, <3>1 DEF Types, Settings
    <3>3. Saved(c, p)' /\ \A d \in Call \ {c} : ~Saved(d, p)'
      BY <1>1, <1>8, <2>1, <2>2, <3>1
    <3> QED BY <2>1, <3>2, <3>3
  <2>3. CASE ~(req[c].plugin = p /\ pc'[c] = "send")
    <3>1. ~Saved(c, p) /\ ~Saved(c, p)'
      BY <1>8, <2>1, <2>3
    <3> QED BY <1>1, <1>6, <2>1, <3>1
  <2> QED BY <2>2, <2>3
<1>12. CASE Writing(c)
  <2>1. pc[c] = "save" /\ pc'[c] = "commit" /\ Inside(c) /\ Persistent(c)
    BY <1>12, StoreIsSettings DEF Writing, Inside
  <2>2. CASE req[c].plugin = p
    <3>1. \A d \in Call : ~Saved(d, p)
      BY <1>8, <1>9, <2>1, <2>2
    <3>2. saved'[p] = Updated(c, sup[p].pref)
      BY <1>6, <1>12, <2>2, <3>1, CallWrites
    <3>3. Saved(c, p)' /\ \A d \in Call \ {c} : ~Saved(d, p)'
      BY <1>1, <1>8, <2>1, <2>2, <3>1
    <3> QED BY <3>2, <3>3
  <2>3. CASE req[c].plugin # p
    <3>1. ~Saved(c, p) /\ ~Saved(c, p)' /\ saved'[p] = saved[p]
      BY <1>8, <1>12, <2>3, CallWrites
    <3> QED BY <1>1, <1>6, <3>1
  <2> QED BY <2>2, <2>3
<1>13. CASE Written(c)
  <2>1. saved' = saved /\ (Saved(c, p)' <=> Saved(c, p))
    BY <1>8, <1>13 DEF Written
  <2> QED BY <1>1, <1>6, <2>1
<1> QED BY <1>1, <1>10, <1>11, <1>12, <1>13, CallSaves

LEMMA CallManager == ASSUME Types, ManagerInv, NEW c \in Call, CallAlone(c) PROVE ManagerInv'
<1>1. LifeInv'
  BY CallMoves, LifeKept DEF ManagerInv
<1> QED BY <1>1, CallSupInv, CallCallInv, CallTokenInv, CallQueueInv, CallSavedInv, CallFollowInv, Zenon DEF ManagerInv

-----------------------------------------------------------------------------
(* The steps of the supervisors keep the invariant. *)

LEMMA TailKeeps ==
    ASSUME Types, NEW p \in Plugin, NEW c, Taken(p, c), sup'[p].inbox = Tail(sup[p].inbox)
    PROVE  /\ \A x : InInbox(p, x) => InInbox(p, x)' \/ x = c
           /\ \A x : InInbox(p, x)' => InInbox(p, x)
           /\ InInbox(p, c)
<1>1. sup[p].inbox \in Seq(Call \cup {CloseCmd}) /\ sup[p].inbox # << >> /\ c = sup[p].inbox[1]
  BY DEF Types, SupType, Taken
<1>2. /\ Len(sup[p].inbox) \in Nat /\ Len(sup[p].inbox) > 0
      /\ DOMAIN sup[p].inbox = 1 .. Len(sup[p].inbox) /\ DOMAIN sup'[p].inbox = 1 .. Len(sup[p].inbox) - 1
      /\ \A i \in 1 .. Len(sup[p].inbox) - 1 : sup'[p].inbox[i] = sup[p].inbox[i + 1]
  BY <1>1
<1>3. ASSUME NEW x, InInbox(p, x), x # c PROVE InInbox(p, x)'
  <2>1. PICK i \in 1 .. Len(sup[p].inbox) : sup[p].inbox[i] = x
    BY <1>2, <1>3 DEF InInbox
  <2>2. i - 1 \in 1 .. Len(sup[p].inbox) - 1 /\ (i - 1) + 1 = i
    BY <1>1, <1>2, <1>3, <2>1
  <2>3. sup'[p].inbox[i - 1] = x
    BY <1>2, <2>1, <2>2
  <2> QED BY <1>2, <2>2, <2>3 DEF InInbox
<1>4. ASSUME NEW x, InInbox(p, x)' PROVE InInbox(p, x)
  <2>1. PICK i \in 1 .. Len(sup[p].inbox) - 1 : sup'[p].inbox[i] = x
    BY <1>2, <1>4 DEF InInbox
  <2>2. i + 1 \in 1 .. Len(sup[p].inbox)
    BY <1>2
  <2> QED BY <1>2, <2>1, <2>2 DEF InInbox
<1>5. InInbox(p, c)
  BY <1>1, <1>2 DEF InInbox
<1> QED BY <1>3, <1>4, <1>5

LEMMA SupEffects ==
    ASSUME Types, NEW p \in Plugin, SupRows(p)
    PROVE  /\ \A q \in Plugin \ {p} : sup'[q] = sup[q]
           /\ \A x : InInbox(p, x)' => InInbox(p, x)
           /\ \A x : InInbox(p, x) => InInbox(p, x)' \/ Taken(p, x)
           /\ sup[p].mode \in {"none", "closed"} => sup'[p].mode = sup[p].mode
           /\ sup[p].mode = "closing" => sup'[p].mode \in {"closing", "closed"}
           /\ Taken(p, CloseCmd) /\ sup[p].mode = "open" /\ ~InInbox(p, CloseCmd)' => sup'[p].mode \in {"closing", "closed"}
           /\ sup[p].mode = "open" /\ sup[p].intent # "close" /\ ~InInbox(p, CloseCmd) =>
                 sup'[p].mode = "open" /\ sup'[p].intent # "close"
           /\ sup[p].inbox = << >> /\ sup[p].intent = "none" =>
                 /\ sup'[p].mode = sup[p].mode /\ sup'[p].inbox = << >> /\ sup'[p].intent = "none" /\ sup'[p].pref = sup[p].pref
<1>1. ASSUME NEW c \in Call, Refusal(p, c)
      PROVE  /\ Taken(p, c) /\ c # CloseCmd /\ \A q \in Plugin \ {p} : sup'[q] = sup[q]
             /\ sup'[p].inbox = Tail(sup[p].inbox) /\ sup'[p].mode = sup[p].mode /\ sup'[p].intent = sup[p].intent
  BY <1>1, Zenon DEF Refusal, SupIs
<1>2. ASSUME NEW c \in Call, Admission(p, c)
      PROVE  /\ Taken(p, c) /\ c # CloseCmd /\ \A q \in Plugin \ {p} : sup'[q] = sup[q]
             /\ sup'[p].inbox = Tail(sup[p].inbox) /\ sup'[p].mode = sup[p].mode /\ sup'[p].intent # "close"
             /\ sup[p].mode = "open"
  BY <1>2, Zenon DEF Admission, SupIs
<1>3. CASE TakesCommand(p)
  <2>1. PICK c \in Call :
           /\ Taken(p, c) /\ c # CloseCmd /\ \A q \in Plugin \ {p} : sup'[q] = sup[q]
           /\ sup'[p].inbox = Tail(sup[p].inbox) /\ sup'[p].mode = sup[p].mode
           /\ sup'[p].intent = sup[p].intent \/ sup'[p].intent # "close"
    BY <1>1, <1>2, <1>3, Zenon DEF TakesCommand
  <2>2. /\ \A x : InInbox(p, x) => InInbox(p, x)' \/ x = c
        /\ \A x : InInbox(p, x)' => InInbox(p, x)
    BY <2>1, TailKeeps
  <2>3. sup[p].inbox # << >> /\ sup[p].mode \in {"open", "closing"} /\ ~Taken(p, CloseCmd)
    BY <2>1 DEF Taken
  <2> QED BY <2>1, <2>2, <2>3
<1>4. CASE TakesClose(p)
  <2>1. /\ Taken(p, CloseCmd) /\ \A q \in Plugin \ {p} : sup'[q] = sup[q]
        /\ sup'[p].inbox = Tail(sup[p].inbox) /\ sup'[p].mode \in {"closing", "closed"}
        /\ sup[p].mode = "open"
    BY <1>4 DEF TakesClose, SupIs
  <2>2. /\ \A x : InInbox(p, x) => InInbox(p, x)' \/ x = CloseCmd
        /\ \A x : InInbox(p, x)' => InInbox(p, x)
        /\ InInbox(p, CloseCmd)
    BY <2>1, TailKeeps
  <2>3. sup[p].inbox # << >>
    BY <2>1 DEF Taken
  <2> QED BY <2>1, <2>2, <2>3
<1>5. CASE StopEnds(p)
  <2>1. /\ sup[p].intent # "none" /\ sup[p].mode \in {"open", "closing"}
        /\ \A q \in Plugin \ {p} : sup'[q] = sup[q]
        /\ sup'[p].inbox = sup[p].inbox /\ sup'[p].intent = "none"
        /\ sup'[p].mode = sup[p].mode \/ (sup'[p].mode = "closed" /\ sup[p].intent = "close")
    BY <1>5, Zenon DEF StopEnds, SupIs
  <2>2. \A x : InInbox(p, x)' <=> InInbox(p, x)
    BY <2>1 DEF InInbox
  <2>3. Taken(p, CloseCmd) => InInbox(p, CloseCmd)
    <3>1. sup[p].inbox \in Seq(Call \cup {CloseCmd})
      BY DEF Types, SupType
    <3> QED BY <3>1 DEF Taken, InInbox
  <2> QED BY <2>1, <2>2, <2>3
<1>6. CASE SessionChanges(p)
  <2>1. /\ \A q \in Plugin \ {p} : sup'[q] = sup[q]
        /\ sup'[p].inbox = sup[p].inbox /\ sup'[p].intent = sup[p].intent
        /\ sup'[p].mode = sup[p].mode /\ sup'[p].pref = sup[p].pref
    BY <1>6, Zenon DEF SessionChanges, SupIs
  <2>2. \A x : InInbox(p, x)' <=> InInbox(p, x)
    BY <2>1 DEF InInbox
  <2>3. Taken(p, CloseCmd) => InInbox(p, CloseCmd)
    <3>1. sup[p].inbox \in Seq(Call \cup {CloseCmd})
      BY DEF Types, SupType
    <3> QED BY <3>1 DEF Taken, InInbox
  <2> QED BY <2>1, <2>2, <2>3
<1> QED BY <1>3, <1>4, <1>5, <1>6 DEF SupRows

LEMMA SupSupInv ==
    ASSUME Types, LifeInv, SupInv, NEW p \in Plugin, SupRows(p), UNCHANGED <<saved, startVars>> PROVE SupInv'
<1>1. \A q \in Plugin \ {p} : sup'[q] = sup[q] /\ \A x : InInbox(q, x)' = InInbox(q, x)
  BY SupEffects DEF InInbox
<1>2. AllClosed => AllClosed'
  BY <1>1, SupEffects DEF AllClosed
<1>3. starter.pc = "create" =>
         \/ sup'[p].mode \in {"none", "closed"}
         \/ sup'[p].mode = "open" /\ sup'[p].inbox = << >> /\ sup'[p].intent = "none" /\ sup'[p].pref = saved[p]
  BY SupEffects DEF SupInv
<1>4. registered /\ closer \in {"idle", "waitStart"} => sup'[p].mode = "open" /\ sup'[p].intent # "close" /\ ~InInbox(p, CloseCmd)'
  BY SupEffects DEF SupInv
<1>5. registered /\ closer = "stopping" => sup'[p].mode \in {"closing", "closed"} \/ InInbox(p, CloseCmd)'
  <2>1. Taken(p, CloseCmd) => sup[p].mode \in {"open", "closing"}
    BY DEF Taken
  <2> QED BY <2>1, SupEffects DEF SupInv
<1> QED BY <1>1, <1>2, <1>3, <1>4, <1>5 DEF SupInv, startVars

\* Whom a supervisor answers, and whose token it gives back.
LEMMA SupAnswers ==
    ASSUME Types, NEW p \in Plugin, SupRows(p)
    PROVE  /\ \A d \in Call : result'[d] = result[d] \/ pc[d] \in {"sent", "waiting"}
           /\ \/ admission' = admission /\ \A d \in Call : pc'[d] = pc[d] \/ (pc[d] = "waiting" /\ pc'[d] = "done")
              \/ \E c \in Call : /\ pc[c] = "sent" /\ pc'[c] \in {"waiting", "done"} /\ Released(c)
                                 /\ \A d \in Call \ {c} : pc'[d] = pc[d]
           /\ \A d \in Call : d \in dropped' => d \in dropped \/ (d \in Call /\ InInbox(p, d))
           /\ dropped \subseteq dropped' /\ (dropped \subseteq Call => dropped' \subseteq Call)
<1>1. ASSUME NEW c \in Call, Refusal(p, c)
      PROVE  /\ \A d \in Call : result'[d] = result[d] \/ pc[d] \in {"sent", "waiting"}
             /\ \/ admission' = admission /\ \A d \in Call : pc'[d] = pc[d]
                \/ pc[c] = "sent" /\ pc'[c] = "done" /\ Released(c) /\ \A d \in Call \ {c} : pc'[d] = pc[d]
             /\ \A d : d \in dropped' => d \in dropped \/ d = c
             /\ dropped \subseteq dropped' /\ InInbox(p, c)
  <2>1. /\ \/ pc[c] # "sent" /\ UNCHANGED <<admission, pc, result>>
           \/ pc[c] = "sent" /\ Released(c) /\ pc'[c] = "done"
        /\ \A d \in Call \ {c} : pc'[d] = pc[d] /\ result'[d] = result[d]
    BY <1>1, Refusing
  <2>2. Taken(p, c) /\ sup'[p].inbox = Tail(sup[p].inbox) /\ dropped' = IF Persistent(c) THEN dropped \cup {c} ELSE dropped
    BY <1>1, Zenon DEF Refusal, SupIs
  <2> QED BY <2>1, <2>2, TailKeeps
<1>2. ASSUME NEW c \in Call, Admission(p, c)
      PROVE  /\ pc[c] = "sent" /\ pc'[c] \in {"waiting", "done"} /\ Released(c) /\ dropped' = dropped
             /\ \A d \in Call \ {c} : pc'[d] = pc[d] /\ result'[d] = result[d]
  <2>1. pc[c] = "sent" /\ Told(c) /\ Released(c) /\ dropped' = dropped
    BY <1>2, Zenon DEF Admission, Told
  <2> QED BY <2>1, Answer
<1>3. CASE TakesCommand(p)
  BY <1>1, <1>2, <1>3 DEF TakesCommand
<1>4. CASE TakesClose(p) \/ StopEnds(p)
  <2>1. PICK W, r : Answered(p, W, r)
    BY <1>4, Zenon DEF TakesClose, StopEnds
  <2> QED BY <2>1, Answering
<1>5. CASE SessionChanges(p)
  BY <1>5 DEF SessionChanges
<1> QED BY <1>3, <1>4, <1>5 DEF SupRows

LEMMA SupCallInv ==
    ASSUME Types, CallInv, QueueInv, NEW p \in Plugin, SupRows(p), UNCHANGED restOfSup PROVE CallInv'
<1>1. /\ \A d \in Call : result'[d] = result[d] \/ pc[d] \in {"sent", "waiting"}
      /\ \A d \in Call : pc'[d] = pc[d] \/ (pc[d] = "sent" /\ pc'[d] \in {"waiting", "done"}) \/ (pc[d] = "waiting" /\ pc'[d] = "done")
      /\ \A d \in Call : result'[d] = result[d] \/ pc'[d] = "done"
      /\ dropped' \subseteq Call
      /\ \A d \in Call : d \in dropped' => d \in dropped \/ InInbox(p, d)
  BY SupAnswers, SupCalls DEF CallInv
<1>2. \A d \in Call : InInbox(p, d) => pc[d] # "idle"
  BY DEF QueueInv, InInbox
<1>3. registered' = registered /\ \A d \in Call : Persistent(d)' = Persistent(d)
  BY DEF restOfSup, startVars, Persistent
<1> QED BY <1>1, <1>2, <1>3 DEF CallInv

LEMMA SupTokenInv ==
    ASSUME Types, TokenInv, NEW p \in Plugin, SupRows(p), UNCHANGED restOfSup PROVE TokenInv'
<1>1. \A d \in Call : pc'[d] = pc[d] \/ (pc[d] = "sent" /\ pc'[d] \in {"waiting", "done"}) \/ (pc[d] = "waiting" /\ pc'[d] = "done")
  BY SupCalls
<1>2. UNCHANGED <<persist, req>>
  BY DEF restOfSup
<1>3. \A d \in Call : Writes(d)' <=> Writes(d)
  BY <1>1 DEF Writes
<1>4. CASE admission' = admission /\ \A d \in Call : pc'[d] = pc[d] \/ (pc[d] = "waiting" /\ pc'[d] = "done")
  <2>1. \A d \in Call, q \in Plugin : Admits(d, q)' <=> Admits(d, q)
    BY <1>2, <1>4 DEF Admits
  <2> QED BY <1>2, <1>3, <1>4, <2>1, Zenon DEF TokenInv
<1>5. ASSUME NEW c \in Call, pc[c] = "sent", pc'[c] \in {"waiting", "done"}, Released(c), \A d \in Call \ {c} : pc'[d] = pc[d]
      PROVE  TokenInv'
  <2>1. \A q \in Plugin : ~Admits(c, q)' /\ (Admits(c, q) <=> q = req[c].plugin)
    BY <1>2, <1>5 DEF Admits
  <2>2. \A d \in Call \ {c}, q \in Plugin : Admits(d, q)' <=> Admits(d, q)
    BY <1>2, <1>5 DEF Admits
  <2>3. ASSUME NEW q \in Plugin
        PROVE  /\ q \in admission' <=> \A d \in Call : ~Admits(d, q)'
               /\ \A d, e \in Call : Admits(d, q)' /\ Admits(e, q)' => d = e
    <3>1. CASE q = req[c].plugin
      BY <1>5, <2>1, <2>2, <3>1 DEF TokenInv, Released
    <3>2. CASE q # req[c].plugin
      BY <1>5, <2>1, <2>2, <3>2 DEF TokenInv, Released
    <3> QED BY <3>1, <3>2
  <2> QED BY <1>2, <1>3, <2>3 DEF TokenInv
<1> QED BY <1>4, <1>5, SupAnswers

\* A command that a supervisor takes is no longer on its way.
LEMMA TakenIsTold ==
    ASSUME Types, NEW p \in Plugin, SupRows(p), NEW d \in Call, InInbox(p, d), pc'[d] = "sent"
    PROVE  InInbox(p, d)'
<1>1. CASE TakesCommand(p)
  <2>1. PICK c \in Call : Refusal(p, c) \/ Admission(p, c)
    BY <1>1 DEF TakesCommand
  <2>2. Taken(p, c) /\ sup'[p].inbox = Tail(sup[p].inbox)
    BY <2>1, Zenon DEF Refusal, Admission, SupIs
  <2>3. c # d
    <3>1. CASE Refusal(p, c)
      BY <3>1, Refusing
    <3>2. CASE Admission(p, c)
      BY <3>2, Answer DEF Admission
    <3> QED BY <2>1, <3>1, <3>2
  <2> QED BY <2>2, <2>3, TailKeeps
<1>2. CASE TakesClose(p)
  <2>1. Taken(p, CloseCmd) /\ sup'[p].inbox = Tail(sup[p].inbox)
    BY <1>2, Zenon DEF TakesClose, SupIs
  <2> QED BY <2>1, TailKeeps, ManagerAssumption
<1>3. CASE StopEnds(p) \/ SessionChanges(p)
  <2>1. sup'[p].inbox = sup[p].inbox
    BY <1>3, Zenon DEF StopEnds, SessionChanges, SupIs
  <2> QED BY <2>1 DEF InInbox
<1> QED BY <1>1, <1>2, <1>3 DEF SupRows

\* Whoever waits for a stop waits for one that is under way.
LEMMA WaitsForStop ==
    ASSUME Types, QueueInv, NEW p \in Plugin, SupRows(p), NEW d \in Call, pc'[d] = "waiting", req[d].kind \in {"disable", "restart"},
           req[d].plugin = p
    PROVE  sup'[p].intent # "none" \/ sup'[p].mode = "closed"
<1>1. pc[d] = "waiting" => sup[p].intent # "none" \/ sup[p].mode = "closed"
  BY DEF QueueInv
<1>2. pc[d] \in {"sent", "waiting"}
  BY SupCalls
<1>3. sup[p].mode = "closed" => sup'[p].mode = "closed"
  BY SupEffects
<1>4. ASSUME NEW c \in Call, Refusal(p, c) PROVE pc[d] = "waiting" /\ sup'[p].mode = sup[p].mode /\ sup'[p].intent = sup[p].intent
  <2>1. sup'[p].mode = sup[p].mode /\ sup'[p].intent = sup[p].intent
    BY <1>4, Zenon DEF Refusal, SupIs
  <2>2. pc[d] = "waiting"
    BY <1>2, <1>4, Refusing
  <2> QED BY <2>1, <2>2
<1>5. ASSUME NEW c \in Call, Admission(p, c) PROVE sup'[p].intent # "none" \/ sup'[p].mode = "closed"
  <2>1. /\ Told(c) /\ sup[p].intent = "none" /\ sup[p].mode = "open" /\ pc[c] = "sent"
        /\ pc' = [pc EXCEPT ![c] = "waiting"] /\ req[c].kind \in {"disable", "restart"} => sup'[p].intent # "none"
    BY <1>5, Zenon DEF Admission, SupIs
  <2>2. pc[d] # "waiting" /\ d = c
    BY <1>1, <1>2, <2>1, Answer
  <2>3. pc' = [pc EXCEPT ![c] = "waiting"]
    BY <2>1, <2>2, Answer
  <2> QED BY <2>1, <2>2, <2>3
<1>6. CASE TakesClose(p)
  <2>1. sup'[p].intent = "close" \/ sup'[p].mode = "closed"
    BY <1>6, Zenon DEF TakesClose, SupIs
  <2> QED BY <2>1
<1>7. CASE StopEnds(p)
  <2>1. PICK r : Answered(p, StopOwners(p), r)
    BY <1>7, Zenon DEF StopEnds
  <2>2. pc[d] = "waiting" /\ d \notin StopOwners(p)
    BY <1>2, <2>1, Answering
  <2> QED BY <2>2 DEF StopOwners
<1>8. CASE SessionChanges(p)
  <2>1. sup'[p].mode = sup[p].mode /\ sup'[p].intent = sup[p].intent /\ pc' = pc
    BY <1>8, Zenon DEF SessionChanges, SupIs
  <2> QED BY <1>1, <2>1
<1> QED BY <1>1, <1>4, <1>5, <1>6, <1>7, <1>8 DEF SupRows, TakesCommand

\* A supervisor moves only the calls on its plugin.
LEMMA MovedHere ==
    ASSUME Types, QueueInv, NEW p \in Plugin, SupRows(p), NEW d \in Call, pc'[d] # pc[d]
    PROVE  req[d].plugin = p
<1>1. ASSUME NEW c \in Call, Refusal(p, c) \/ Admission(p, c) PROVE c = d /\ Taken(p, c) /\ sup'[p].inbox = Tail(sup[p].inbox)
  <2>1. Taken(p, c) /\ sup'[p].inbox = Tail(sup[p].inbox)
    BY <1>1, Zenon DEF Refusal, Admission, SupIs
  <2>2. Admission(p, c) => Told(c)
    BY DEF Admission
  <2> QED BY <1>1, <2>1, <2>2, Refusing, Answer
<1>2. CASE TakesCommand(p)
  <2>1. InInbox(p, d)
    BY <1>1, <1>2, TailKeeps DEF TakesCommand
  <2> QED BY <2>1 DEF InInbox, QueueInv
<1>3. CASE TakesClose(p) \/ StopEnds(p)
  <2>1. PICK W, r : Answered(p, W, r)
    BY <1>3, Zenon DEF TakesClose, StopEnds
  <2> QED BY <2>1, Answering
<1>4. CASE SessionChanges(p)
  BY <1>4 DEF SessionChanges
<1> QED BY <1>2, <1>3, <1>4 DEF SupRows

LEMMA SupQueueInv ==
    ASSUME Types, QueueInv, NEW p \in Plugin, SupRows(p), UNCHANGED restOfSup PROVE QueueInv'
<1>1. /\ \A d \in Call : pc'[d] = pc[d] \/ (pc[d] = "sent" /\ pc'[d] \in {"waiting", "done"}) \/ (pc[d] = "waiting" /\ pc'[d] = "done")
      /\ req' = req
  BY SupCalls DEF restOfSup
<1>2. ASSUME NEW q \in Plugin
      PROVE  /\ \A x : InInbox(q, x)' => InInbox(q, x)
             /\ sup[q].mode = "closed" => sup'[q].mode = "closed"
             /\ q # p => sup'[q] = sup[q] /\ \A x : InInbox(q, x) => InInbox(q, x)'
  BY SupEffects DEF InInbox
<1>3. ASSUME NEW q \in Plugin, NEW i \in DOMAIN sup'[q].inbox, sup'[q].inbox[i] \in Call
      PROVE  req[sup'[q].inbox[i]].plugin = q /\ pc'[sup'[q].inbox[i]] \in {"sent", "waiting", "done"}
  <2>1. PICK d \in Call : d = sup'[q].inbox[i]
    BY <1>3
  <2>2. InInbox(q, d)'
    BY <1>3, <2>1 DEF InInbox
  <2>3. InInbox(q, d)
    BY <1>2, <2>2
  <2>4. req[d].plugin = q /\ pc[d] \in {"sent", "waiting", "done"}
    BY <2>3 DEF InInbox, QueueInv
  <2> QED BY <1>1, <2>1, <2>4
<1>4. ASSUME NEW d \in Call, NEW q \in Plugin, q = req[d].plugin
      PROVE  /\ pc'[d] = "sent" => sup'[q].mode = "closed" \/ InInbox(q, d)'
             /\ pc'[d] = "waiting" /\ req[d].kind \in {"disable", "restart"} => sup'[q].intent # "none" \/ sup'[q].mode = "closed"
  <2>1. InInbox(req[d].plugin, d) <=> InInbox(q, d)
    BY <1>4
  <2>2. pc[d] = "sent" => sup[q].mode = "closed" \/ InInbox(q, d)
    BY <1>4, <2>1 DEF QueueInv
  <2>3. ASSUME pc'[d] = "sent" PROVE sup'[q].mode = "closed" \/ InInbox(q, d)'
    <3>1. pc[d] = "sent"
      BY <1>1, <2>3
    <3>2. q = p /\ InInbox(q, d) => InInbox(q, d)'
      BY <2>3, TakenIsTold
    <3> QED BY <1>2, <2>2, <3>1, <3>2
  <2>4. CASE q = p
    BY <1>4, <2>3, <2>4, WaitsForStop
  <2>5. CASE q # p
    <3>1. pc'[d] = "waiting" => pc[d] = "waiting"
      <4>1. ASSUME pc[d] = "sent", pc'[d] = "waiting" PROVE FALSE
        BY <1>4, <2>5, <4>1, MovedHere
      <4> QED BY <1>1, <4>1
    <3> QED BY <1>2, <1>4, <2>3, <2>5, <3>1 DEF QueueInv
  <2> QED BY <2>4, <2>5
<1>5. \A d \in Call : pc'[d] # "idle" => req[d].plugin \in Plugin
  BY <1>1 DEF Types
<1>6. QueueInv' <=>
         /\ \A q \in Plugin : \A i \in DOMAIN sup'[q].inbox :
               LET d == sup'[q].inbox[i] IN d \in Call => req'[d].plugin = q /\ pc'[d] \in {"sent", "waiting", "done"}
         /\ \A d \in Call :
               /\ pc'[d] = "sent" => sup'[req'[d].plugin].mode = "closed" \/ InInbox(req[d].plugin, d)'
               /\ pc'[d] = "waiting" /\ req'[d].kind \in {"disable", "restart"} =>
                     sup'[req'[d].plugin].intent # "none" \/ sup'[req'[d].plugin].mode = "closed"
  BY DEF QueueInv
<1>7. ASSUME NEW d \in Call
      PROVE  /\ pc'[d] = "sent" => sup'[req'[d].plugin].mode = "closed" \/ InInbox(req[d].plugin, d)'
             /\ pc'[d] = "waiting" /\ req'[d].kind \in {"disable", "restart"} =>
                   sup'[req'[d].plugin].intent # "none" \/ sup'[req'[d].plugin].mode = "closed"
  <2>1. CASE pc'[d] = "idle"
    BY <2>1
  <2>2. CASE pc'[d] # "idle"
    <3>1. PICK q \in Plugin : q = req[d].plugin
      BY <1>5, <2>2
    <3>2. InInbox(q, d)' => InInbox(req[d].plugin, d)'
      BY <1>1, <3>1 DEF InInbox
    <3> QED BY <1>1, <1>4, <3>1, <3>2
  <2> QED BY <2>1, <2>2
<1> QED BY <1>1, <1>3, <1>6, <1>7

\* What an admitted command does to the preference of the supervisor.
LEMMA AdmittedPref ==
    ASSUME Types, NEW p \in Plugin, NEW c \in Call, Admission(p, c)
    PROVE  /\ pc[c] = "sent" /\ req[c].kind = "config" => req[c].rev \in Nat
           /\ sup'[p].pref.config \in Nat /\ sup[p].pref.config \in Nat /\ sup[p].pref \in Preference
           /\ \/ sup'[p].pref = sup[p].pref /\ ~Persistent(c)
              \/ sup'[p].pref = sup[p].pref /\ Refused(c, sup[p].pref) /\ pc'[c] = "done" /\ result'[c] # "ok"
              \/ /\ sup'[p].pref = Updated(c, sup[p].pref) /\ Persistent(c) /\ ~Refused(c, sup[p].pref)
                 /\ req[c].kind = "config" => sup'[p].pref.config = req[c].rev
                 /\ req[c].kind # "config" => sup'[p].pref.config = sup[p].pref.config
           /\ sup'[p].pref.config >= sup[p].pref.config
<1>1. /\ pc[c] = "sent" /\ Told(c)
      /\ \/ sup'[p].pref = sup[p].pref /\ ~Persistent(c)
         \/ sup'[p].pref = Updated(c, sup[p].pref) /\ Persistent(c) /\ ~Refused(c, sup[p].pref)
         \/ /\ sup'[p].pref = sup[p].pref /\ Refused(c, sup[p].pref) /\ pc' = [pc EXCEPT ![c] = "done"]
            /\ \E r : result' = [result EXCEPT ![c] = r] /\ r # "ok"
      /\ sup' \in [Plugin -> SupType]
  BY Zenon DEF Admission, SupIs
<1>2. /\ sup'[p].pref.config \in Nat /\ sup[p].pref.config \in Nat /\ sup[p].pref \in Preference
      /\ req[c].kind = "config" => req[c].rev \in Revision /\ req[c].rev \in Nat
  BY <1>1, Revisions DEF Types, SupType, Preference
<1>3. CASE sup'[p].pref = sup[p].pref /\ ~Persistent(c)
  BY <1>1, <1>2, <1>3
<1>4. CASE sup'[p].pref = Updated(c, sup[p].pref) /\ Persistent(c) /\ ~Refused(c, sup[p].pref)
  <2>1. sup'[p].pref.config = IF req[c].kind = "config" THEN req[c].rev ELSE sup[p].pref.config
    BY <1>2, <1>4, PreferenceAfter
  <2>2. req[c].kind = "config" => ~(req[c].rev < sup[p].pref.config)
    BY <1>4 DEF Refused
  <2> HIDE DEF Refused
  <2>3. sup'[p].pref.config >= sup[p].pref.config
    <3>1. CASE req[c].kind = "config"
      BY <1>2, <2>1, <2>2, <3>1
    <3>2. CASE req[c].kind # "config"
      BY <1>2, <2>1, <3>2
    <3> QED BY <3>1, <3>2
  <2> QED BY <1>1, <1>2, <1>4, <2>1, <2>3
<1>5. CASE /\ sup'[p].pref = sup[p].pref /\ Refused(c, sup[p].pref) /\ pc' = [pc EXCEPT ![c] = "done"]
           /\ \E r : result' = [result EXCEPT ![c] = r] /\ r # "ok"
  <2>1. pc'[c] = "done" /\ result'[c] # "ok"
    BY <1>5 DEF Types
  <2> QED BY <1>1, <1>2, <1>5, <2>1
<1> QED BY <1>1, <1>3, <1>4, <1>5

LEMMA SupMonotone ==
    ASSUME Types, NEW p \in Plugin, SupRows(p)
    PROVE  \A q \in Plugin : /\ sup[q].pref.config \in Nat /\ sup'[q].pref.config \in Nat
                             /\ sup'[q].pref.config >= sup[q].pref.config
<1>1. \A q \in Plugin : sup[q].pref.config \in Nat /\ sup'[q].pref.config \in Nat
  BY SupCalls, Revisions DEF Types, SupType, Preference
<1>2. ASSUME NEW c \in Call, Refusal(p, c) \/ Admission(p, c) PROVE sup'[p].pref.config >= sup[p].pref.config
  <2>1. CASE Refusal(p, c)
    BY <1>1, <2>1 DEF Refusal, SupIs
  <2>2. CASE Admission(p, c)
    BY <2>2, AdmittedPref
  <2> QED BY <1>2, <2>1, <2>2
<1>3. CASE TakesClose(p) \/ StopEnds(p) \/ SessionChanges(p)
  <2>1. sup'[p].pref.config = sup[p].pref.config
    BY <1>3 DEF TakesClose, StopEnds, SessionChanges, SupIs
  <2> QED BY <1>1, <2>1, SupEffects
<1>4. sup'[p].pref.config >= sup[p].pref.config
  BY <1>1, <1>2, <1>3 DEF SupRows, TakesCommand
<1> QED BY <1>1, <1>4, SupEffects

\* What is sent is on disk.
LEMMA SentIsSaved ==
    ASSUME Types, SavedInv, NEW c \in Call, pc[c] = "sent", Persistent(c), req[c].kind = "config"
    PROVE  saved[req[c].plugin].config = req[c].rev
<1>1. Updated(c, saved[req[c].plugin]) = saved[req[c].plugin] /\ req[c].plugin \in Plugin /\ req[c].rev \in Revision
  BY DEF SavedInv, Types
<1>2. saved[req[c].plugin] \in Preference
  BY <1>1 DEF Types, Settings
<1> QED BY <1>1, <1>2, PreferenceAfter

LEMMA SupSavedInv ==
    ASSUME Types, CallInv, QueueInv, SavedInv, NEW p \in Plugin, SupRows(p), UNCHANGED restOfSup PROVE SavedInv'
<1>1. /\ \A d \in Call : pc'[d] = pc[d] \/ (pc[d] = "sent" /\ pc'[d] \in {"waiting", "done"}) \/ (pc[d] = "waiting" /\ pc'[d] = "done")
      /\ UNCHANGED <<saved, settings, next, req, registered>>
      /\ \A d \in Call : result'[d] = result[d] \/ (pc[d] \in {"sent", "waiting"} /\ pc'[d] = "done")
  BY SupCalls, SupAnswers DEF restOfSup, startVars
<1>2. \A d \in Call : Persistent(d)' = Persistent(d) /\ \A f : Updated(d, f)' = Updated(d, f') /\ Refused(d, f)' = Refused(d, f')
  BY <1>1 DEF Persistent, Updated, Refused
<1>3. ASSUME NEW d \in Call, req[d].kind = "config", pc'[d] = "waiting" \/ result'[d] = "ok"
      PROVE  saved[req[d].plugin].config >= req[d].rev /\ sup'[req[d].plugin].pref.config >= req[d].rev
  <2>1. CASE pc[d] = "waiting" \/ result[d] = "ok"
    <3>1. saved[req[d].plugin].config >= req[d].rev /\ sup[req[d].plugin].pref.config >= req[d].rev
      BY <1>3, <2>1 DEF SavedInv
    <3>2. req[d].plugin \in Plugin /\ req[d].rev \in Nat
      BY <1>3, <2>1, Revisions DEF CallInv, Types
    <3>3. /\ sup[req[d].plugin].pref.config \in Nat /\ sup'[req[d].plugin].pref.config \in Nat
          /\ sup'[req[d].plugin].pref.config >= sup[req[d].plugin].pref.config
      BY <3>2, SupMonotone
    <3> QED BY <3>1, <3>2, <3>3
  <2>2. CASE pc[d] = "sent" /\ pc'[d] \in {"waiting", "done"} /\ (pc'[d] = "waiting" \/ result'[d] = "ok")
    <3>1. Persistent(d) /\ req[d].plugin = p
      BY <1>3, <2>2, MovedHere DEF Persistent, PersistentKinds
    <3>2. saved[p].config = req[d].rev /\ req[d].rev \in Nat
      BY <1>3, <2>2, <3>1, SentIsSaved, Revisions DEF Types
    <3>3. Admission(p, d)
      <4>2. CASE TakesCommand(p)
        <5>1. PICK c \in Call : Refusal(p, c) \/ Admission(p, c)
          BY <4>2 DEF TakesCommand
        <5>2. CASE Refusal(p, c)
          BY <2>2, <5>2, Refusing
        <5>3. CASE Admission(p, c)
          <6>1. Told(c)
            BY <5>3 DEF Admission
          <6> QED BY <2>2, <5>3, <6>1, Answer
        <5> QED BY <5>1, <5>2, <5>3
      <4>3. CASE TakesClose(p) \/ StopEnds(p)
        <5>1. PICK W, r : Answered(p, W, r)
          BY <4>3, Zenon DEF TakesClose, StopEnds
        <5> QED BY <2>2, <5>1, Answering
      <4>4. CASE SessionChanges(p)
        BY <2>2, <4>4 DEF SessionChanges
      <4> QED BY <4>2, <4>3, <4>4 DEF SupRows
    <3>4. sup'[p].pref.config = req[d].rev
      BY <1>3, <2>2, <3>1, <3>3, AdmittedPref
    <3> QED BY <3>1, <3>2, <3>4
  <2> QED BY <1>1, <1>3, <2>1, <2>2
<1>4. \A d \in Call : /\ pc'[d] \in {"save", "commit"} => pc[d] = pc'[d]
                      /\ pc'[d] \in {"commit", "send", "sent"} => pc[d] = pc'[d]
                      /\ pc[d] = "commit" => pc'[d] = "commit"
  BY <1>1
<1>5. SavedInv' <=>
         /\ registered => settings = saved \/ \E d \in Call : pc'[d] = "commit"
         /\ \A d \in Call :
               /\ pc'[d] = "save" => next[d] = [settings EXCEPT ![req[d].plugin] = Updated(d, @)] /\ ~Refused(d, settings[req[d].plugin])
               /\ pc'[d] = "commit" => next[d] = saved
               /\ pc'[d] \in {"commit", "send", "sent"} /\ Persistent(d) => Updated(d, saved[req[d].plugin]) = saved[req[d].plugin]
               /\ req[d].kind = "config" /\ (pc'[d] = "waiting" \/ result'[d] = "ok") =>
                     saved[req[d].plugin].config >= req[d].rev /\ sup'[req[d].plugin].pref.config >= req[d].rev
  BY SMTT(60), <1>1, <1>2 DEF SavedInv
<1>6. registered => settings = saved \/ \E d \in Call : pc'[d] = "commit"
  BY <1>4 DEF SavedInv
<1>7. ASSUME NEW d \in Call
      PROVE  /\ pc'[d] = "save" => next[d] = [settings EXCEPT ![req[d].plugin] = Updated(d, @)] /\ ~Refused(d, settings[req[d].plugin])
             /\ pc'[d] = "commit" => next[d] = saved
             /\ pc'[d] \in {"commit", "send", "sent"} /\ Persistent(d) => Updated(d, saved[req[d].plugin]) = saved[req[d].plugin]
  <2>1. pc'[d] \in {"save", "commit", "send", "sent"} => pc[d] = pc'[d]
    BY <1>1
  <2> QED BY <2>1 DEF SavedInv
<1> QED BY <1>3, <1>5, <1>6, <1>7

LEMMA SupFollowInv ==
    ASSUME Types, LifeInv, SupInv, CallInv, TokenInv, QueueInv, SavedInv, FollowInv,
           NEW p \in Plugin, SupRows(p), UNCHANGED restOfSup
    PROVE  FollowInv'
<1> SUFFICES ASSUME lifecycle' = "started", NEW q \in Plugin
             PROVE  /\ sup'[q].pref.config <= saved'[q].config
                    /\ (\A d \in dropped' : req'[d].plugin # q) =>
                          /\ \A d \in Call : Saved(d, q)' => saved'[q] = Updated(d, sup[q].pref)'
                          /\ (\A d \in Call : ~Saved(d, q)') => sup'[q].pref = saved'[q]
  BY Zenon DEF FollowInv
<1>1. /\ UNCHANGED <<saved, req>> /\ lifecycle = "started" /\ dropped \subseteq dropped'
      /\ \A d \in Call : pc'[d] = pc[d] \/ (pc[d] = "sent" /\ pc'[d] \in {"waiting", "done"}) \/ (pc[d] = "waiting" /\ pc'[d] = "done")
      /\ \A d \in Call : Updated(d, sup[q].pref)' = Updated(d, sup'[q].pref)
  BY SupCalls, SupAnswers DEF restOfSup, startVars, Updated
<1>2. /\ sup[q].pref.config <= saved[q].config
      /\ (\A d \in dropped : req[d].plugin # q) =>
            /\ \A d \in Call : Saved(d, q) => saved[q] = Updated(d, sup[q].pref)
            /\ (\A d \in Call : ~Saved(d, q)) => sup[q].pref = saved[q]
  BY <1>1 DEF FollowInv
<1>3. \A d \in Call : /\ Saved(d, q)' <=> req[d].plugin = q /\ Persistent(d) /\ pc'[d] \in {"commit", "send", "sent"}
                      /\ Saved(d, q) <=> req[d].plugin = q /\ Persistent(d) /\ pc[d] \in {"commit", "send", "sent"}
  BY <1>1 DEF Saved, Persistent
<1>4. ASSUME sup'[q].pref = sup[q].pref,
             \A d \in Call : (Saved(d, q)' <=> Saved(d, q)) \/ (d \in dropped' /\ req[d].plugin = q)
      PROVE  /\ sup'[q].pref.config <= saved'[q].config
             /\ (\A d \in dropped' : req'[d].plugin # q) =>
                   /\ \A d \in Call : Saved(d, q)' => saved'[q] = Updated(d, sup[q].pref)'
                   /\ (\A d \in Call : ~Saved(d, q)') => sup'[q].pref = saved'[q]
  BY <1>1, <1>2, <1>4
<1>5. CASE q # p
  <2>1. sup'[q].pref = sup[q].pref
    BY <1>5, SupEffects
  <2>2. \A d \in Call : req[d].plugin = q => pc'[d] = pc[d]
    BY <1>5, MovedHere
  <2> QED BY <1>3, <1>4, <2>1, <2>2
<1>6. CASE q = p
  <2>1. ~TakesClose(p)
    <3>1. Taken(p, CloseCmd) => InInbox(p, CloseCmd)
      <4>1. sup[p].inbox \in Seq(Call \cup {CloseCmd})
        BY DEF Types, SupType
      <4> QED BY <4>1 DEF Taken, InInbox
    <3>2. ~InInbox(p, CloseCmd)
      BY <1>1 DEF LifeInv, SupInv
    <3> QED BY <3>1, <3>2 DEF TakesClose
  <2>2. CASE StopEnds(p) \/ SessionChanges(p)
    <3>1. sup'[p].pref = sup[p].pref
      BY <2>2, Zenon DEF StopEnds, SessionChanges, SupIs
    <3>2. \A d \in Call : pc[d] = "sent" => pc'[d] = "sent"
      <4>1. CASE StopEnds(p)
        <5>1. PICK r : Answered(p, StopOwners(p), r)
          BY <4>1, Zenon DEF StopEnds
        <5> QED BY <1>1, <5>1, Answering
      <4>2. CASE SessionChanges(p)
        BY <4>2 DEF SessionChanges
      <4> QED BY <2>2, <4>1, <4>2
    <3>3. \A d \in Call : Saved(d, q)' <=> Saved(d, q)
      BY <1>1, <1>3, <3>2
    <3> QED BY <1>4, <1>6, <3>1, <3>3
  <2>3. ASSUME NEW c \in Call, Refusal(p, c)
        PROVE  /\ sup'[p].pref = sup[p].pref
               /\ \A d \in Call : (Saved(d, p)' <=> Saved(d, p)) \/ (d \in dropped' /\ req[d].plugin = p)
    <3>1. sup'[p].pref = sup[p].pref /\ Taken(p, c) /\ sup'[p].inbox = Tail(sup[p].inbox)
          /\ dropped' = IF Persistent(c) THEN dropped \cup {c} ELSE dropped
      BY <2>3, Zenon DEF Refusal, SupIs
    <3>2. \A d \in Call \ {c} : pc'[d] = pc[d]
      BY <2>3, Refusing
    <3>3. req[c].plugin = p
      <4>1. InInbox(p, c)
        BY <3>1, TailKeeps
      <4> QED BY <4>1 DEF InInbox, QueueInv
    <3> QED BY <1>3, <1>6, <3>1, <3>2, <3>3
  <2>4. ASSUME NEW c \in Call, Admission(p, c)
        PROVE  /\ sup'[q].pref.config <= saved'[q].config
               /\ (\A d \in dropped' : req'[d].plugin # q) =>
                     /\ \A d \in Call : Saved(d, q)' => saved'[q] = Updated(d, sup[q].pref)'
                     /\ (\A d \in Call : ~Saved(d, q)') => sup'[q].pref = saved'[q]
    <3>1. /\ pc[c] = "sent" /\ Taken(p, c) /\ sup'[p].inbox = Tail(sup[p].inbox) /\ Told(c)
      BY <2>4, Zenon DEF Admission, SupIs
    <3>2. pc'[c] \in {"waiting", "done"} /\ \A d \in Call \ {c} : pc'[d] = pc[d]
      BY <3>1, Answer
    <3>3. req[c].plugin = p
      <4>1. InInbox(p, c)
        BY <3>1, TailKeeps
      <4> QED BY <4>1 DEF InInbox, QueueInv
    <3>4. CASE ~Persistent(c)
      <4>1. sup'[p].pref = sup[p].pref
        BY <2>4, <3>4, AdmittedPref
      <4>2. \A d \in Call : Saved(d, q)' <=> Saved(d, q)
        BY <1>3, <3>2, <3>4
      <4> QED BY <1>4, <1>6, <4>1, <4>2
    <3>5. CASE Persistent(c)
      <4>1. saved[p].config \in Nat /\ (req[c].kind = "config" => saved[p].config = req[c].rev)
        BY <3>1, <3>3, <3>5, SentIsSaved, Revisions DEF Types, Settings, Preference
      <4>2. ~Refused(c, sup[p].pref)
        <5> SUFFICES ASSUME Refused(c, sup[p].pref) PROVE FALSE
          OBVIOUS
        <5>1. req[c].kind = "config" /\ req[c].rev < sup[p].pref.config
          BY DEF Refused
        <5>2. sup[p].pref.config \in Nat
          BY <2>4, AdmittedPref
        <5> HIDE DEF Refused
        <5> QED BY <1>2, <1>6, <4>1, <5>1, <5>2
      <4>3. /\ sup'[p].pref = Updated(c, sup[p].pref) /\ sup'[p].pref.config \in Nat
            /\ req[c].kind = "config" => sup'[p].pref.config = req[c].rev
            /\ req[c].kind # "config" => sup'[p].pref.config = sup[p].pref.config
        BY <2>4, <3>5, <4>2, AdmittedPref
      <4>4. sup'[p].pref.config <= saved[p].config
        BY <1>2, <1>6, <4>1, <4>3
      <4>5. \A d \in Call : ~Saved(d, p)'
        <5>1. ASSUME NEW d \in Call \ {c}, Saved(d, p) PROVE FALSE
          <6>1. Admits(c, p) /\ Admits(d, p)
            BY <3>1, <3>3, <5>1 DEF Admits, Saved
          <6> QED BY <6>1 DEF TokenInv
        <5>2. ~Saved(c, p)'
          BY <1>3, <1>6, <3>2
        <5> QED BY <1>3, <1>6, <3>2, <5>1, <5>2
      <4>6. Saved(c, p)
        BY <3>1, <3>3, <3>5 DEF Saved
      <4>7. (\A d \in dropped' : req'[d].plugin # q) => sup'[p].pref = saved[p]
        BY <1>1, <1>2, <1>6, <4>3, <4>6
      <4> QED BY <1>1, <1>6, <4>4, <4>5, <4>7
    <3> QED BY <3>4, <3>5
  <2>5. CASE TakesCommand(p)
    BY <1>4, <1>6, <2>3, <2>4, <2>5 DEF TakesCommand
  <2> QED BY <2>1, <2>2, <2>5 DEF SupRows
<1> QED BY <1>5, <1>6

LEMMA SupManager == ASSUME Types, ManagerInv, NEW p \in Plugin, SupervisorMoves(p) PROVE ManagerInv'
<1>1. SupRows(p) /\ UNCHANGED restOfSup /\ UNCHANGED <<saved, startVars>>
  BY SupMoves DEF restOfSup
<1>2. LifeInv'
  BY <1>1, LifeKept DEF ManagerInv
<1> QED
  BY <1>1, <1>2, SupSupInv, SupCallInv, SupTokenInv, SupQueueInv, SupSavedInv, SupFollowInv, Zenon DEF ManagerInv

-----------------------------------------------------------------------------
(* Theorems. *)

LEMMA ManagerStep == Types /\ ManagerInv /\ [Next]_vars => ManagerInv'
<1> SUFFICES ASSUME Types, ManagerInv, [Next]_vars PROVE ManagerInv'
  OBVIOUS
<1>1. CASE UNCHANGED vars
  <2>1. UNCHANGED <<saved, settings, lifecycle, startDone, starter, closer, registered, admission, persist, req, pc, next, result, gone, dropped, sup>>
    BY <1>1 DEF vars, startVars, callVars
  <2>2. LifeInv' /\ SupInv' /\ CallInv'
    BY <2>1 DEF ManagerInv, LifeInv, SupInv, CallInv, AllClosed, InInbox, Persistent
  <2>3. TokenInv'
    BY <2>1 DEF ManagerInv, TokenInv, Writes, Admits
  <2>4. QueueInv'
    BY <2>1 DEF ManagerInv, QueueInv, InInbox
  <2>5. SavedInv' /\ FollowInv'
    BY <2>1 DEF ManagerInv, SavedInv, FollowInv, Saved, Persistent, Updated, Refused
  <2> QED BY <2>2, <2>3, <2>4, <2>5 DEF ManagerInv
<1>2. CASE LifeSteps
  BY <1>2, LifeManager
<1>3. CASE \E c \in Call, r \in Request : Begin(c, r)
  BY <1>3, BeginManager
<1>4. CASE \E c \in Call : CallAlone(c)
  BY <1>4, CallManager
<1>5. CASE \E p \in Plugin : SupervisorMoves(p)
  BY <1>5, SupManager
<1> QED BY <1>1, <1>2, <1>3, <1>4, <1>5, WhoMoves

LEMMA ManagerIsInvariant == Spec => [](Types /\ ManagerInv)
<1>1. Init => Types /\ ManagerInv
  BY InitTypes, InitInv
<1>2. (Types /\ ManagerInv) /\ [Next]_vars => (Types /\ ManagerInv)'
  BY TypesStep, ManagerStep
<1> QED BY <1>1, <1>2, PTL DEF Spec

\* What is saved, what callers were told and what the supervisors run agree:
\* an acknowledged UpdateConfig is on disk and with the supervisor, and once all
\* commands of a plugin are admitted its supervisor has the saved preference
\* (persistAndCommand holds the admission token from before the Save).
THEOREM StoreAgrees == Spec => []StoreAndSupervisorsAgree
<1>1. Types /\ ManagerInv => StoreAndSupervisorsAgree
  <2> SUFFICES ASSUME Types, ManagerInv PROVE StoreAndSupervisorsAgree
    OBVIOUS
  <2>1. TypeOK
    <3>1. sup \in [Plugin -> Supervisor]
      BY SameSupervisors, Zenon DEF Types
    <3>2. starter.pc \in {"idle", "load", "save", "create", "rollback"} /\ starter.settings \in Settings
      BY DEF Types, StarterType
    <3> QED BY <3>1, <3>2, Zenon DEF TypeOK, Types
  <2>2. AcknowledgedConfigKept
    BY DEF AcknowledgedConfigKept, ManagerInv, SavedInv
  <2>3. SupervisorFollowsStore
    <3>1. \A p \in Plugin, c \in Call : Saved(c, p) => c \in Unadmitted(p)
      BY DEF Saved, Unadmitted
    <3> QED BY <3>1 DEF SupervisorFollowsStore, ManagerInv, FollowInv
  <2> QED BY <2>1, <2>2, <2>3 DEF StoreAndSupervisorsAgree
<1> QED BY <1>1, ManagerIsInvariant, PTL

\* No supervisor outlives a failed Start or a Close that overtakes a Start
\* (Start's rollback, finishClose).
THEOREM NoOrphans == Spec => []NoOrphanSupervisor
<1>1. Types /\ ManagerInv => NoOrphanSupervisor
  <2> SUFFICES ASSUME Types, ManagerInv, ~AllClosed PROVE NoOrphanSupervisor
    BY DEF NoOrphanSupervisor
  <2>1. closer # "done" /\ (registered \/ starter.pc \in {"create", "rollback"})
    <3>1. starter.pc \in {"idle", "load", "save", "create", "rollback"}
      BY DEF Types, StarterType
    <3> QED BY <3>1 DEF ManagerInv, SupInv
  <2>2. CASE registered
    BY <2>1, <2>2 DEF ManagerInv, LifeInv, NoOrphanSupervisor, Types
  <2>3. CASE starter.pc \in {"create", "rollback"}
    BY <2>1, <2>3 DEF ManagerInv, LifeInv, NoOrphanSupervisor
  <2> QED BY <2>1, <2>2, <2>3
<1> QED BY <1>1, ManagerIsInvariant, PTL

\* A set with at most one element has the cardinality that says whether it has one.
LEMMA NoneOrOne ==
    ASSUME NEW S, NEW T, S \subseteq T, \A c, d \in T : c \in S /\ d \in S => c = d
    PROVE  Cardinality(S) = IF \A c \in T : c \notin S THEN 0 ELSE 1
<1>1. CASE \A c \in T : c \notin S
  <2>1. S = {}
    BY <1>1
  <2> QED BY <1>1, <2>1, FS_EmptySet
<1>2. CASE \E c \in T : c \in S
  <2>1. PICK c \in T : c \in S
    BY <1>2
  <2>2. S = {c}
    BY <2>1
  <2>3. Cardinality({c}) = 1
    BY FS_Singleton
  <2> QED BY <2>1, <2>2, <2>3
<1> QED BY <1>1, <1>2

\* Nobody waits for somebody who is gone: tokens that are taken have a holder,
\* commands that were sent are with a loop that takes them, waiters have a stop
\* under way, and a Close that waits has what it waits for.
THEOREM NobodyWaits == Spec => []NobodyWaitsInVain
<1>1. Types /\ ManagerInv => NobodyWaitsInVain
  <2> SUFFICES ASSUME Types, ManagerInv PROVE NobodyWaitsInVain
    OBVIOUS
  <2> USE DEF ManagerInv
  <2>1. Cardinality({c \in Call : pc[c] \in {"update", "save", "commit"}}) = IF persist THEN 0 ELSE 1
    <3> DEFINE S == {c \in Call : pc[c] \in {"update", "save", "commit"}}
    <3>1. S \subseteq Call /\ \A c \in Call : c \in S <=> Writes(c)
      BY DEF Writes
    <3> HIDE DEF S
    <3>2. (\A c, d \in Call : c \in S /\ d \in S => c = d) /\ (persist <=> \A c \in Call : c \notin S)
      BY <3>1 DEF TokenInv
    <3> QED BY <3>1, <3>2, NoneOrOne DEF S
  <2>2. ASSUME NEW p \in Plugin PROVE Cardinality(Admitting(p)) = IF p \in admission THEN 0 ELSE 1
    <3>1. Admitting(p) \subseteq Call /\ \A c \in Call : c \in Admitting(p) <=> Admits(c, p)
      BY DEF Admitting, Admits
    <3>2. /\ \A c, d \in Call : c \in Admitting(p) /\ d \in Admitting(p) => c = d
          /\ p \in admission <=> \A c \in Call : c \notin Admitting(p)
      BY <3>1 DEF TokenInv
    <3> QED BY <3>1, <3>2, NoneOrOne
  <2>3. \A c \in Call : LET s == sup[req[c].plugin]
                        IN  /\ pc[c] = "sent" => s.mode = "closed" \/ \E i \in DOMAIN s.inbox : s.inbox[i] = c
                            /\ pc[c] = "waiting" /\ req[c].kind \in {"disable", "restart"} =>
                                 s.intent # "none" \/ s.mode = "closed"
    BY DEF QueueInv, InInbox
  <2>4. closer = "stopping" /\ registered => \A p \in Plugin :
          \/ sup[p].mode \in {"closing", "closed"}
          \/ \E i \in DOMAIN sup[p].inbox : sup[p].inbox[i] = CloseCmd
    BY DEF SupInv, InInbox
  <2>5. closer = "waitStart" /\ ~startDone => starter.pc # "idle"
    BY DEF LifeInv
  <2> QED BY <2>1, <2>2, <2>3, <2>4, <2>5, Zenon DEF NobodyWaitsInVain
<1> QED BY <1>1, ManagerIsInvariant, PTL

=============================================================================
