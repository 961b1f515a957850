----------------------------- MODULE NoteCapture -----------------------------
(***************************************************************************)
(* What the write broker promises its clients: a request id stands for one *)
(* note of one subject for good, its note is created only until the        *)
(* request has a verdict, the verdict never changes, and it says APPLIED   *)
(* only for a note that was created.                                       *)
(***************************************************************************)
CONSTANTS Requests, Notes, Subjects, None

VARIABLES accepted,  \* the note and the subject of each accepted request
          created,   \* the requests whose note was put into the vault
          verdict    \* the durable outcome of each request

captureVars == <<accepted, created, verdict>>

Init ==
    /\ accepted = [r \in Requests |-> None]
    /\ created = {}
    /\ verdict = [r \in Requests |-> "NONE"]

Open(r) == accepted[r] # None /\ verdict[r] = "NONE"

Accept(r, n, s) ==
    /\ accepted[r] = None
    /\ accepted' = [accepted EXCEPT ![r] = [note |-> n, subject |-> s]]
    /\ UNCHANGED <<created, verdict>>

\* Also once more, if somebody removed the note before the verdict.
Create(r) ==
    /\ Open(r)
    /\ created' = created \union {r}
    /\ UNCHANGED <<accepted, verdict>>

Settle(r, o) ==
    /\ Open(r)
    /\ o = "APPLIED" => r \in created
    /\ verdict' = [verdict EXCEPT ![r] = o]
    /\ UNCHANGED <<accepted, created>>

Next == \E r \in Requests :
    \/ \E n \in Notes, s \in Subjects : Accept(r, n, s)
    \/ Create(r)
    \/ \E o \in {"APPLIED", "REJECTED"} : Settle(r, o)

Spec == Init /\ [][Next]_captureVars
=============================================================================
