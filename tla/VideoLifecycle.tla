---------------------------- MODULE VideoLifecycle ----------------------------
(***************************************************************************)
(* What the backend promises about a video, whatever queue, workers and    *)
(* retries stand behind it (the statuses of backend/internal/video/        *)
(* model.go, as an author and a visitor see them): an upload is submitted  *)
(* at most once, processing ends at most once and for good, only a ready   *)
(* video is listed, a listed video has its date of first publication, and  *)
(* a deleted video is gone.  TranscodeJobs implements this module.         *)
(***************************************************************************)
CONSTANT Videos

VARIABLES status,     \* [Videos -> Status]
          listed,     \* the videos visitors can find and play
          dated       \* the videos whose published_at is set

vars == <<status, listed, dated>>

Status == {"none", "uploading", "processing", "ready", "failed", "deleted"}

Init ==
  /\ status = [v \in Videos |-> "none"]
  /\ listed = {}
  /\ dated = {}

Step(v, from, to) ==
  /\ status[v] \in from
  /\ status' = [status EXCEPT ![v] = to]

Register(v) == Step(v, {"none"}, "uploading") /\ UNCHANGED <<listed, dated>>

Submit(v) == Step(v, {"uploading"}, "processing") /\ UNCHANGED <<listed, dated>>

\* Publish a processed video: visibly, and then dated, or privately.
Publish(v) ==
  /\ Step(v, {"processing"}, "ready")
  /\ \/ listed' = listed \cup {v} /\ dated' = dated \cup {v}
     \/ UNCHANGED <<listed, dated>>

GiveUp(v) == Step(v, {"processing"}, "failed") /\ UNCHANGED <<listed, dated>>

\* The author shows or hides a ready video; the date is set once and kept.
Show(v) ==
  /\ status[v] = "ready"
  /\ listed' = listed \cup {v}
  /\ dated' = dated \cup {v}
  /\ UNCHANGED status

Hide(v) ==
  /\ status[v] = "ready"
  /\ listed' = listed \ {v}
  /\ UNCHANGED <<status, dated>>

Remove(v) ==
  /\ Step(v, Status \ {"none", "deleted"}, "deleted")
  /\ listed' = listed \ {v}
  /\ UNCHANGED dated

Next ==
  \E v \in Videos :
    \/ Register(v) \/ Submit(v) \/ Publish(v) \/ GiveUp(v)
    \/ Show(v) \/ Hide(v) \/ Remove(v)

Spec == Init /\ [][Next]_vars
=============================================================================
