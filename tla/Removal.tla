------------------------------ MODULE Removal --------------------------------
(***************************************************************************)
(* What the owner takes out of the archive (api/channels/videos.service.ts)*)
(* and what comes back: downloads, new listings.                           *)
(***************************************************************************)
EXTENDS SourceWatch

removalFrame == <<sourceVars, execVars, workerVars, alertVars, lifeVars>>

\* deleteOne reads the video.
DeleteRead(q, v, mode) ==
    /\ dpc[q] = "idle" /\ copy[v] # "PURGED"
    /\ Event("delete")
    /\ dpc' = [dpc EXCEPT ![q] = "guard"]
    /\ ddel' = [ddel EXCEPT ![q] = [video |-> v, mode |-> mode, copy |-> copy[v]]]
    /\ UNCHANGED <<removalFrame, copy, due, download, media, rowVars, historyVars>>

DeleteOver(q) ==
    /\ dpc' = [dpc EXCEPT ![q] = "idle"]
    /\ ddel' = [ddel EXCEPT ![q] = NoOrder]

\* A download is at work, or there is no media to free.  The code also refuses
\* while a broadcast is recorded: no recordings here.
Refused(q) ==
    \/ download[ddel[q].video]
    \/ ddel[q].mode = "reclaim" /\ ddel[q].copy \notin Held

\* The active-job guard is a statement of its own.
DeleteGuard(q) ==
    /\ dpc[q] = "guard"
    /\ IF Refused(q) THEN DeleteOver(q)
       ELSE dpc' = [dpc EXCEPT ![q] = "commit"] /\ UNCHANGED ddel
    /\ UNCHANGED <<removalFrame, copy, due, download, media, rowVars, historyVars, events>>

\* Mutant: the hop is written whatever the video has become.
DeletableBlind(q) == copy[ddel[q].video] # "PURGED"
\* A reclaim moves the video it read, a purge deletes the row there is.
Deletable(q) ==
    IF ddel[q].mode = "reclaim" THEN copy[ddel[q].video] = ddel[q].copy
    ELSE copy[ddel[q].video] # "PURGED"

\* Mutant: the files go although the hop was lost.
LostWipes(q) == dpc' = [dpc EXCEPT ![q] = "wipe"] /\ UNCHANGED ddel
\* A hop that was lost ends the delete.
Lost(q) == DeleteOver(q)

\* The database first: the row goes back to CANDIDATE, or goes, and with it its
\* jobs.
DeleteCommit(q) ==
    /\ dpc[q] = "commit"
    /\ LET v == ddel[q].video
       IN  CASE ~Deletable(q) -> Lost(q) /\ UNCHANGED <<copy, download, rowVars>>
             [] Deletable(q) /\ ddel[q].mode = "reclaim" ->
                  /\ copy' = [copy EXCEPT ![v] = "CANDIDATE"]
                  /\ dpc' = [dpc EXCEPT ![q] = "wipe"]
                  /\ UNCHANGED <<ddel, download, rowVars>>
             [] OTHER ->
                  /\ copy' = [copy EXCEPT ![v] = "PURGED"]
                  /\ download' = [download EXCEPT ![v] = FALSE]
                  /\ row' = [c \in Checks |-> IF rowVideo[c] = v THEN "none" ELSE row[c]]
                  /\ rowVideo' = [c \in Checks |-> IF rowVideo[c] = v THEN NoVideo ELSE rowVideo[c]]
                  /\ dpc' = [dpc EXCEPT ![q] = "wipe"]
                  /\ UNCHANGED ddel
    /\ UNCHANGED <<removalFrame, due, media, historyVars, events>>

\* Then the disk, best effort: the directory goes, or stays behind.
DeleteWipe(q) ==
    /\ dpc[q] = "wipe"
    /\ \/ media' = [media EXCEPT ![ddel[q].video] = FALSE] /\ UNCHANGED events
       \/ Event("fs") /\ UNCHANGED media
    /\ DeleteOver(q)
    /\ UNCHANGED <<removalFrame, copy, due, download, rowVars, historyVars>>

\* The api dies within a delete.
ApiDies(q) ==
    /\ dpc[q] # "idle"
    /\ Event("api")
    /\ DeleteOver(q)
    /\ UNCHANGED <<removalFrame, copy, due, download, media, rowVars, historyVars>>

-----------------------------------------------------------------------------
\* The rest of the archive, by what it leaves behind

DeletePending(v) == \E q \in Deletes : dpc[q] \in {"commit", "wipe"} /\ ddel[q].video = v

\* A video is enqueued; one that a delete is about to take counts as overtake.
Enqueue(v) ==
    /\ copy[v] \in {"CANDIDATE", "PARTIAL_KEPT"}
    /\ IF DeletePending(v) THEN Event("overtake") ELSE UNCHANGED events
    /\ copy' = [copy EXCEPT ![v] = "QUEUED"]
    /\ download' = [download EXCEPT ![v] = TRUE]
    /\ UNCHANGED <<removalFrame, due, media, rowVars, deleteVars, historyVars>>

\* It publishes a complete copy or part of one, or is canceled.
DownloadEnds(v) ==
    /\ download[v]
    /\ Event("download")
    /\ download' = [download EXCEPT ![v] = FALSE]
    /\ \/ /\ copy' \in {[copy EXCEPT ![v] = s] : s \in Held}
          /\ media' = [media EXCEPT ![v] = TRUE]
       \/ copy' = [copy EXCEPT ![v] = "CANDIDATE"] /\ UNCHANGED media
    /\ UNCHANGED <<removalFrame, due, rowVars, deleteVars, historyVars>>

\* Enumeration lists a purged video anew: skipDuplicates spares those it knows.
Listed(v) ==
    /\ copy[v] = "PURGED"
    /\ copy' = [copy EXCEPT ![v] = "CANDIDATE"]
    /\ src' = [src EXCEPT ![v] = "UNKNOWN"]
    /\ streak' = [streak EXCEPT ![v] = 0]
    /\ due' = [due EXCEPT ![v] = TRUE]
    /\ UNCHANGED <<execVars, workerVars, alertVars, lifeVars, download, media, rowVars,
                   deleteVars, historyVars, events>>
=============================================================================
