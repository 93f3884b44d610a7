----------------------------- MODULE MCUploads -----------------------------
(* The upload of the agent's events or of a session's recording, whichever a  *)
(* behaviour begins with; the other stays as it is.  The fairness is each     *)
(* part's own, while it is the part that runs.                                *)
EXTENDS EventUpload

CONSTANTS Sessions, Uploads, Readers, MaxChunk, MaxLives

ASSUME RecordingAssumption == MaxChunk \in Nat /\ MaxLives \in Nat \ {0}

VARIABLES part, life, sess, up, chunk, acked, reader

recVars == <<life, sess, up, chunk, acked, reader>>

Rec == INSTANCE Recording

PartsInit == part \in {"events", "recording"} /\ Init /\ Rec!Init

PartsNext ==
    \/ part = "events" /\ Next /\ UNCHANGED <<part, recVars>>
    \/ part = "recording" /\ Rec!Next /\ UNCHANGED <<part, vars>>

PartsFair ==
    /\ WF_vars(part = "events" /\ Connect) /\ WF_vars(part = "events" /\ UploadTick)
    /\ WF_vars(part = "events" /\ BatchPublished) /\ WF_vars(part = "events" /\ BatchAcked)

PartsSpec == PartsInit /\ [][PartsNext]_<<part, vars, recVars>> /\ PartsFair

\* What the upload and the readers promise (Recording).
RecordingTrue == Rec!RecordingTrue
============================================================================
