----------------------------- MODULE WriteBroker -----------------------------
(***************************************************************************)
(* The vault write broker of write_broker.py: one process that serves one  *)
(* request at a time under broker.lock, next to editors of the vault. A    *)
(* capture is recorded as an intent, validated in a private copy of the    *)
(* vault, linked into the vault and answered with a durable result. The    *)
(* process may stop anywhere; the client repeats its capture.              *)
(*                                                                         *)
(*   intent   requests/<id>.json   None, Torn, or the note and its subject *)
(*   result   results/<id>.json    NoResult, TornResult, or the result     *)
(*   vault    ok      the notes that are not captures obey the contract    *)
(*            cats    the categories that exist                            *)
(*            file    at the target of each request: no file, the bytes of *)
(*                    the capture ("ours"), or other bytes                 *)
(*   job      the memory of the handler                                    *)
(*                                                                         *)
(* A note is the category it names. Normalisation happens before the       *)
(* handler looks at any state, so a note is a normalised note. The target  *)
(* name holds the request id; the bytes of a capture hold a fresh document *)
(* id, so nobody else writes them first. linked and answers are history    *)
(* variables: the requests whose note the broker linked, and the definite  *)
(* answers it gave.                                                        *)
(***************************************************************************)
EXTENDS Naturals

CONSTANTS Requests, Notes, Subjects,
          None,
          MaxEdits,   \* bound on changes of the vault by others
          MaxFaults   \* bound on crashes and I/O errors

ASSUME BrokerAssumption ==
    /\ None \notin Requests \union Notes \union Subjects
    /\ MaxEdits \in Nat /\ MaxFaults \in Nat

VARIABLES intent, result, vault, job, linked, answers, edits, faults

vars == <<intent, result, vault, job, linked, answers, edits, faults>>

Intents == [note : Notes, subject : Subjects]

\* O_EXCL created the file, its bytes are not all there.
Torn == [note |-> None, subject |-> None]

\* A file that does not exist is neither.
ASSUME NoFileAssumption == None \notin Intents \union {Torn}

Res(o, why, moved) == [outcome |-> o, why |-> why, moved |-> moved]
NoResult == Res("NONE", "none", FALSE)
TornResult == Res("TORN", "none", FALSE)

Verdicts == [outcome : {"APPLIED", "REJECTED"},
             why : {"new", "recovered", "taken", "invalid", "unstable"},
             moved : BOOLEAN]

Files == {"none", "ours", "other"}

Vaults == [ok : BOOLEAN, cats : SUBSET Notes, file : [Requests -> Files]]

Idle == [pc |-> "idle", id |-> None, intent |-> None, base |-> None,
         cand |-> None, out |-> NoResult]

Init ==
    /\ intent = [r \in Requests |-> None]
    /\ result = [r \in Requests |-> NoResult]
    /\ vault \in {v \in Vaults : v.ok /\ v.file = [r \in Requests |-> "none"]}
    /\ job = Idle
    /\ linked = {} /\ answers = {}
    /\ edits = 0 /\ faults = 0

Accepted(r) == intent[r] \notin {None, Torn}

Settled(r) == result[r] \notin {NoResult, TornResult}

\* inspect_vault finds no validation error.
Valid(v) == v.ok /\ \A r \in Requests : v.file[r] = "ours" => intent[r].note \in v.cats

With(v, r) == [v EXCEPT !.file[r] = "ours"]

-----------------------------------------------------------------------------
(* The handler *)

At(p) == job.pc = p

Goto(p) == job' = [job EXCEPT !.pc = p]

\* ACCEPTED with a retryable state, or an error: nothing durable is said.
Pending == job' = Idle /\ UNCHANGED answers

Definite(r, via, o) == answers' = answers \union {[id |-> r, via |-> via, outcome |-> o]}

Conclude(o, why, moved) ==
    /\ job' = [job EXCEPT !.pc = "settle", !.out = Res(o, why, moved)]
    /\ UNCHANGED answers

\* A new request id. Subjects that are not allowed and notes that are not
\* well-formed are answered before, without a look at the state.
CreateIntent(r, n, s) ==
    /\ At("idle") /\ intent[r] = None
    /\ intent' = [intent EXCEPT ![r] = Torn]
    /\ job' = [Idle EXCEPT !.pc = "intent", !.id = r,
                           !.intent = [note |-> n, subject |-> s]]
    /\ UNCHANGED <<result, vault, linked, answers, edits, faults>>

WriteIntent ==
    /\ At("intent")
    /\ intent' = [intent EXCEPT ![job.id] = job.intent]
    /\ Goto("process")
    /\ UNCHANGED <<result, vault, linked, answers, edits, faults>>

\* The same note of the same subject again. Another note or subject is a
\* REQUEST_ID_CONFLICT and a torn intent an INTERNAL_ERROR: no state changes.
Retry(r) ==
    /\ At("idle") /\ Accepted(r)
    /\ job' = [Idle EXCEPT !.pc = "process", !.id = r]
    /\ UNCHANGED <<intent, result, vault, linked, answers, edits, faults>>

\* Mutant: a result is only looked for if the note is there.
ReadResultOfNote ==
    /\ At("process")
    /\ \/ vault.file[job.id] = "none" /\ Goto("baseline") /\ UNCHANGED answers
       \/ /\ vault.file[job.id] # "none" /\ Settled(job.id)
          /\ job' = Idle /\ Definite(job.id, "capture", result[job.id].outcome)
       \/ vault.file[job.id] # "none" /\ result[job.id] = TornResult /\ Pending
       \/ /\ vault.file[job.id] # "none" /\ result[job.id] = NoResult
          /\ Goto("compare") /\ UNCHANGED answers
    /\ UNCHANGED <<intent, result, vault, linked, edits, faults>>

\* _process_intent: a result is repeated; a torn one is an INTERNAL_ERROR.
\* Without one the destination is looked at.
ReadResult ==
    /\ At("process")
    /\ \/ /\ Settled(job.id)
          /\ job' = Idle /\ Definite(job.id, "capture", result[job.id].outcome)
       \/ result[job.id] = TornResult /\ Pending
       \/ /\ result[job.id] = NoResult
          /\ Goto(IF vault.file[job.id] = "none" THEN "baseline" ELSE "compare")
          /\ UNCHANGED answers
    /\ UNCHANGED <<intent, result, vault, linked, edits, faults>>

\* Mutant: a file at the destination is taken for the capture.
CompareName ==
    /\ At("compare") /\ Goto("recover") /\ UNCHANGED answers
    /\ UNCHANGED <<intent, result, vault, linked, edits, faults>>

\* Mutant: the note is there already, so nothing is left to do.
CompareOnly ==
    /\ At("compare")
    /\ IF vault.file[job.id] = "ours" THEN Pending ELSE Conclude("REJECTED", "taken", FALSE)
    /\ UNCHANGED <<intent, result, vault, linked, edits, faults>>

\* The destination existed; if it is gone by now it reads as other bytes.
Compare ==
    /\ At("compare")
    /\ IF vault.file[job.id] = "ours" THEN Goto("recover") /\ UNCHANGED answers
                                      ELSE Conclude("REJECTED", "taken", FALSE)
    /\ UNCHANGED <<intent, result, vault, linked, edits, faults>>

\* An earlier run linked the note and did not get to its result.
Recover ==
    /\ At("recover")
    /\ IF Valid(vault) THEN Conclude("APPLIED", "recovered", FALSE) ELSE Pending
    /\ UNCHANGED <<intent, result, vault, linked, edits, faults>>

Baseline ==
    /\ At("baseline")
    /\ IF Valid(vault)
       THEN job' = [job EXCEPT !.pc = "export", !.base = vault] /\ UNCHANGED answers
       ELSE Pending
    /\ UNCHANGED <<intent, result, vault, linked, edits, faults>>

\* The vault is copied and validated with the note. The copy may differ from
\* the baseline; "unstable" marks a copy that was invalid without the note.
ValidateCandidate ==
    /\ At("export")
    /\ IF Valid(With(vault, job.id))
       THEN /\ job' = [job EXCEPT !.pc = "recheck", !.cand = With(vault, job.id)]
            /\ UNCHANGED answers
       ELSE Conclude("REJECTED", IF Valid(vault) THEN "invalid" ELSE "unstable", FALSE)
    /\ UNCHANGED <<intent, result, vault, linked, edits, faults>>

Recheck ==
    /\ At("recheck")
    /\ IF vault = job.base THEN Goto("link") /\ UNCHANGED answers ELSE Pending
    /\ UNCHANGED <<intent, result, vault, linked, edits, faults>>

\* _publish_note: link(2) fails if the destination appeared meanwhile.
PublishNote ==
    /\ At("link")
    /\ \/ /\ vault.file[job.id] = "none"
          /\ vault' = With(vault, job.id)
          /\ linked' = linked \union {job.id}
          /\ Goto("verify") /\ UNCHANGED answers
       \/ vault.file[job.id] # "none" /\ Pending /\ UNCHANGED <<vault, linked>>
    /\ UNCHANGED <<intent, result, edits, faults>>

Moved == vault # job.cand \/ ~Valid(vault)

\* Mutant: the client is told before the result is durable.
VerifyAnswering ==
    /\ At("verify")
    /\ job' = [job EXCEPT !.pc = "settle", !.out = Res("APPLIED", "new", Moved)]
    /\ Definite(job.id, "capture", "APPLIED")
    /\ UNCHANGED <<intent, result, vault, linked, edits, faults>>

VerifyPublished ==
    /\ At("verify")
    /\ Conclude("APPLIED", "new", Moved)
    /\ UNCHANGED <<intent, result, vault, linked, edits, faults>>

CreateResult ==
    /\ At("settle") /\ result[job.id] = NoResult
    /\ result' = [result EXCEPT ![job.id] = TornResult]
    /\ Goto("result")
    /\ UNCHANGED <<intent, vault, linked, answers, edits, faults>>

WriteResult ==
    /\ At("result")
    /\ result' = [result EXCEPT ![job.id] = job.out]
    /\ job' = Idle
    /\ Definite(job.id, "capture", job.out.outcome)
    /\ UNCHANGED <<intent, vault, linked, edits, faults>>

\* write_status by the owner. Without a result it compares the destination
\* itself; ACCEPTED, NOT_FOUND and errors say nothing definite.
Status(r) ==
    /\ At("idle") /\ Accepted(r)
    /\ \/ Settled(r) /\ Definite(r, "status", result[r].outcome)
       \/ result[r] = NoResult /\ vault.file[r] = "other" /\ Definite(r, "status", "REJECTED")
    /\ UNCHANGED <<intent, result, vault, job, linked, edits, faults>>

Work ==
    \/ WriteIntent \/ ReadResult \/ Compare \/ Recover \/ Baseline \/ ValidateCandidate
    \/ Recheck \/ PublishNote \/ VerifyPublished \/ CreateResult \/ WriteResult

-----------------------------------------------------------------------------
(* Failures, and the editors of the vault *)

\* Mutant: an error takes the intent back, whatever was done for it.
HandlerFailsForgetting ==
    /\ faults < MaxFaults /\ faults' = faults + 1
    /\ ~At("idle")
    /\ intent' = [intent EXCEPT ![job.id] = None]
    /\ result' = IF At("result") THEN [result EXCEPT ![job.id] = NoResult] ELSE result
    /\ Pending
    /\ UNCHANGED <<vault, linked, edits>>

\* An OSError. A file that is being written is removed again; a destination
\* that cannot be read has other bytes, a published vault that cannot be read
\* has changed; everything else is answered as pending or as an error.
HandlerFails ==
    /\ faults < MaxFaults /\ faults' = faults + 1
    /\ ~At("idle")
    /\ intent' = IF At("intent") THEN [intent EXCEPT ![job.id] = None] ELSE intent
    /\ result' = IF At("result") THEN [result EXCEPT ![job.id] = NoResult] ELSE result
    /\ CASE At("compare") -> Conclude("REJECTED", "taken", FALSE)
         [] At("verify")  -> Conclude("APPLIED", "new", TRUE)
         [] OTHER         -> Pending
    /\ UNCHANGED <<vault, linked, edits>>

\* The process stops, and is started again by systemd: the files stay as
\* they are. (A sync of the directory that fails after the file is complete
\* leaves the same state.)
Crash ==
    /\ faults < MaxFaults /\ faults' = faults + 1
    /\ ~At("idle") /\ Pending
    /\ UNCHANGED <<intent, result, vault, linked, edits>>

\* Somebody changes the notes or the categories, or creates, edits, removes
\* or brings back the file of a capture.
Edit ==
    /\ edits < MaxEdits /\ edits' = edits + 1
    /\ \/ \E b \in BOOLEAN, c \in SUBSET Notes : vault' = [vault EXCEPT !.ok = b, !.cats = c]
       \/ \E r \in Requests, f \in Files :
            /\ f = "ours" => r \in linked
            /\ vault' = [vault EXCEPT !.file[r] = f]
    /\ vault' # vault
    /\ UNCHANGED <<intent, result, job, linked, answers, faults>>

Next ==
    \/ \E r \in Requests, n \in Notes, s \in Subjects : CreateIntent(r, n, s)
    \/ \E r \in Requests : Retry(r) \/ Status(r)
    \/ Work
    \/ HandlerFails \/ Crash
    \/ Edit

Spec == Init /\ [][Next]_vars

\* A handler that has begun goes on, and a client that was not answered
\* definitely repeats its capture; the socket's queue gives it a turn among
\* the others. Editors owe nothing.
FairSpec == Spec /\ WF_vars(Work) /\ \A r \in Requests : SF_vars(Retry(r))

-----------------------------------------------------------------------------
(* Properties *)

\* Types, and what each file of a request needs: a note in the vault and a
\* result have their intent, and a handler writes only what it created.
BrokerTypeOK ==
    /\ \A r \in Requests :
         /\ intent[r] \in Intents \union {None, Torn}
         /\ result[r] \in Verdicts \union {NoResult, TornResult}
         /\ result[r] # NoResult \/ vault.file[r] = "ours" => Accepted(r)
    /\ vault \in Vaults
    /\ linked \subseteq Requests
    /\ At("result") => result[job.id] = TornResult
    /\ job.pc \in {"process", "compare", "recover", "baseline", "export", "recheck", "link",
                   "verify", "settle", "result"} => Accepted(job.id)

\* The broker only creates: whatever an editor put at the destination, even
\* between the check and the link, keeps its bytes, and a note that was removed
\* after its request was settled stays removed, how often the capture is
\* repeated.
OnlyCreates ==
    [][edits' = edits =>
         \A r \in Requests : vault'.file[r] # vault.file[r] =>
             vault.file[r] = "none" /\ ~Settled(r)]_vars

\* All the definite answers to the captures of one request agree, across
\* crashes before the result, and between the result and its answer.
AnswersAgree ==
    \A x, y \in answers :
        x.id = y.id /\ x.via = "capture" /\ y.via = "capture" => x.outcome = y.outcome

Capture == INSTANCE NoteCapture
    WITH accepted <- [r \in Requests |-> IF Accepted(r) THEN intent[r] ELSE None],
         created <- linked,
         verdict <- [r \in Requests |-> IF Settled(r) THEN result[r].outcome ELSE "NONE"]

\* The broker keeps the promise of NoteCapture.
ImplementsCapture == Capture!Spec

\* A repeated capture is settled in the end, through crashes and edits, if
\* the vault becomes and stays valid and the result file is not torn for good.
CapturesSettle ==
    \A r \in Requests :
        <>[]Valid(vault) /\ []<>(result[r] # TornResult) => (Accepted(r) ~> Settled(r))
=============================================================================
