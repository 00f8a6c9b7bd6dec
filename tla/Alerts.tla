------------------------------- MODULE Alerts --------------------------------
(***************************************************************************)
(* worker/services/notifications.service.ts: an alert is inserted unless   *)
(* an undismissed one of its key is in the window, under an advisory lock  *)
(* of the key.  External senders are left out.                             *)
(***************************************************************************)
EXTENDS CatalogueState

alertFrame == <<videoVars, rowVars, execVars, workerVars, deleteVars, lifeVars, historyVars>>

\* emit: the draft is made, the transaction not begun.
Emit(e, key) ==
    /\ epc' = [epc EXCEPT ![e] = "look"]
    /\ ekey' = [ekey EXCEPT ![e] = key]

\* The transaction ends, and its lock with it.
Released(e) ==
    /\ epc' = [epc EXCEPT ![e] = "idle"]
    /\ ekey' = [ekey EXCEPT ![e] = NoKey]
    /\ holder' = [holder EXCEPT ![ekey[e]] = None]

\* Mutant: nobody waits for the lock.
LockFreeNot(e) == TRUE
\* pg_advisory_xact_lock waits while another transaction holds the key.
LockFree(e) == holder[ekey[e]] = None

\* The lock is taken and the window read: the draft is dropped or inserted next.
Look(e) ==
    /\ epc[e] = "look"
    /\ LockFree(e)
    /\ IF alerts[ekey[e]] > 0
       THEN Released(e)
       ELSE /\ holder' = [holder EXCEPT ![ekey[e]] = e]
            /\ epc' = [epc EXCEPT ![e] = "insert"]
            /\ UNCHANGED ekey
    /\ UNCHANGED <<alertFrame, alerts, events>>

Insert(e) ==
    /\ epc[e] = "insert"
    /\ alerts' = [alerts EXCEPT ![ekey[e]] = @ + 1]
    /\ Released(e)
    /\ UNCHANGED <<alertFrame, events>>

\* A failed write rolls back and is swallowed: alerting never breaks a job.
EmitFails(e) ==
    /\ epc[e] = "insert"
    /\ Event("db")
    /\ Released(e)
    /\ UNCHANGED <<alertFrame, alerts>>

\* A download fails on the bot wall (emitBotWall).
BotWall(e) ==
    /\ phase = "up" /\ IsFirst(e, {f \in Failures : epc[f] = "idle"})
    /\ Event("wall")
    /\ Emit(e, WallKey)
    /\ UNCHANGED <<alertFrame, alerts, holder>>

\* The key is free again.
AlertExpires(key) ==
    /\ alerts[key] > 0
    /\ Event("expire")
    /\ alerts' = [alerts EXCEPT ![key] = 0]
    /\ UNCHANGED <<alertFrame, holder, epc, ekey>>
=============================================================================
