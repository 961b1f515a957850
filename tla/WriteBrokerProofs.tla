-------------------------- MODULE WriteBrokerProofs --------------------------
(***************************************************************************)
(* Proofs about WriteBroker for every set of requests, notes and subjects  *)
(* and every number of edits and faults. BrokerInv is the inductive        *)
(* invariant: the handler knows, at each of its steps, what the files of   *)
(* its request say, and a definite answer is backed by a result file. The  *)
(* last part is about the socket it is reached at.                         *)
(***************************************************************************)
EXTENDS WriteBroker, Endpoint, TLAPS

Working == {"process", "compare", "recover", "baseline", "export", "recheck", "link",
            "verify", "settle", "result"}

Jobs == [pc : {"idle", "intent"} \union Working,
         id : Requests \union {None},
         intent : Intents \union {None},
         base : Vaults \union {None},
         cand : Vaults \union {None},
         out : Verdicts \union {NoResult}]

Answers == [id : Requests, via : {"capture", "status"}, outcome : {"APPLIED", "REJECTED"}]

\* The types of the state.
Types ==
    /\ intent \in [Requests -> Intents \union {None, Torn}]
    /\ result \in [Requests -> Verdicts \union {NoResult, TornResult}]
    /\ vault \in Vaults
    /\ job \in Jobs
    /\ linked \subseteq Requests
    /\ answers \subseteq Answers
    /\ edits \in Nat /\ faults \in Nat

\* What the handler may rely on: it is the only writer of the files of its
\* request, and it has linked a note before it calls it applied.
JobInv ==
    /\ ~At("idle") => job.id \in Requests
    /\ At("intent") => job.intent \in Intents /\ intent[job.id] = Torn
    /\ job.pc \in Working => Accepted(job.id)
    /\ job.pc \in Working \ {"process", "result"} => result[job.id] = NoResult
    /\ At("result") => result[job.id] = TornResult
    /\ job.pc \in {"recover", "verify"} => job.id \in linked
    /\ job.pc \in {"settle", "result"} =>
           job.out \in Verdicts /\ (job.out.outcome = "APPLIED" => job.id \in linked)

\* What the files of a request need: a result and a note have their intent,
\* and nobody brings a note that the broker never linked.
FileInv ==
    \A r \in Requests :
        /\ result[r] # NoResult => Accepted(r)
        /\ vault.file[r] = "ours" => r \in linked
        /\ r \in linked => Accepted(r)

\* A capture is answered with what its result file says.
AnswerInv ==
    \A x \in answers : x.via = "capture" => Settled(x.id) /\ result[x.id].outcome = x.outcome

BrokerInv == Types /\ JobInv /\ FileInv /\ AnswerInv

-----------------------------------------------------------------------------
(* Facts about the values *)

\* The marks for files that do not exist or are not complete are none of the
\* intents and results that are.
LEMMA Marks ==
    /\ Torn \notin Intents /\ None \notin Intents /\ None # Torn
    /\ NoResult \notin Verdicts /\ TornResult \notin Verdicts /\ NoResult # TornResult
<1>1. Torn \notin Intents
  BY BrokerAssumption DEF Torn, Intents
<1>2. NoResult \notin Verdicts /\ TornResult \notin Verdicts
  BY DEF NoResult, TornResult, Res, Verdicts
<1>3. NoResult # TornResult
  <2>1. NoResult.outcome = "NONE" /\ TornResult.outcome = "TORN"
    BY DEF NoResult, TornResult, Res
  <2>2. QED BY <2>1
<1>4. QED BY <1>1, <1>2, <1>3, NoFileAssumption

\* The vault with the note of r is a vault with that one file changed.
LEMMA WithNote ==
    ASSUME NEW v \in Vaults, NEW r \in Requests
    PROVE  /\ With(v, r) \in Vaults
           /\ With(v, r).file[r] = "ours"
           /\ \A q \in Requests \ {r} : With(v, r).file[q] = v.file[q]
  BY DEF With, Vaults, Files

-----------------------------------------------------------------------------
(* Every step preserves BrokerInv *)

\* The steps that change no file, by what they do to the handler: it ends
\* without a definite answer,
LEMMA PendingStep ==
    ASSUME BrokerInv, Pending, UNCHANGED <<intent, result, vault, linked, edits>>, faults' \in Nat
    PROVE  BrokerInv'
<1>1. job' = Idle /\ Idle \in Jobs /\ Idle.pc = "idle"
  BY DEF Pending, Idle, Jobs
<1>2. Types'
  BY <1>1 DEF BrokerInv, Types, Pending
<1>3. JobInv'
  BY <1>1 DEF JobInv, At, Working
<1>4. FileInv' /\ AnswerInv'
  BY DEF BrokerInv, FileInv, AnswerInv, Accepted, Settled, Pending
<1>5. QED BY <1>2, <1>3, <1>4 DEF BrokerInv

\* goes on to another step of the part of its work where its request has an
\* intent and no result,
LEMMA GotoStep ==
    ASSUME BrokerInv, UNCHANGED <<intent, result, vault, linked, answers, edits>>, faults' \in Nat,
           job' \in Jobs, job'.id = job.id,
           job.pc \in Working, result[job.id] = NoResult,
           job'.pc \in Working \ {"process", "settle", "result"},
           job'.pc \in {"recover", "verify"} => job.id \in linked
    PROVE  BrokerInv'
<1>1. Types'
  BY DEF BrokerInv, Types
<1>2. job.id \in Requests /\ Accepted(job.id)
  BY DEF BrokerInv, JobInv, At, Working
<1>3. JobInv'
  BY <1>2 DEF JobInv, At, Working, Accepted
<1>4. FileInv' /\ AnswerInv'
  BY DEF BrokerInv, FileInv, AnswerInv, Accepted, Settled
<1>5. QED BY <1>1, <1>3, <1>4 DEF BrokerInv

\* or has found its verdict.
LEMMA ConcludeStep ==
    ASSUME BrokerInv, UNCHANGED <<intent, result, vault, linked, edits>>, faults' \in Nat,
           NEW o \in {"APPLIED", "REJECTED"}, NEW moved \in BOOLEAN,
           NEW why \in {"new", "recovered", "taken", "invalid", "unstable"},
           job.pc \in Working \ {"process", "result"},
           o = "APPLIED" => job.id \in linked,
           Conclude(o, why, moved)
    PROVE  BrokerInv'
<1> DEFINE v == Res(o, why, moved)
<1>1. v \in Verdicts /\ v.outcome = o
  BY DEF Res, Verdicts
<1> HIDE DEF v
<1>2. job \in Jobs /\ job' = [job EXCEPT !.pc = "settle", !.out = v] /\ answers' = answers
  BY DEF BrokerInv, Types, Conclude, v
<1>3. job' \in Jobs /\ job'.pc = "settle" /\ job'.out = v /\ job'.id = job.id
  BY <1>1, <1>2 DEF Jobs, Working
<1>4. Types'
  BY <1>2, <1>3 DEF BrokerInv, Types
<1>5. job.id \in Requests /\ Accepted(job.id) /\ result[job.id] = NoResult
  BY DEF BrokerInv, JobInv, At, Working
<1>6. JobInv'
  BY <1>1, <1>3, <1>5 DEF JobInv, At, Working, Accepted
<1>7. FileInv' /\ AnswerInv'
  BY <1>2 DEF BrokerInv, FileInv, AnswerInv, Accepted, Settled
<1>8. QED BY <1>4, <1>6, <1>7 DEF BrokerInv

\* The steps of the handler.
LEMMA WorkStep ==
    ASSUME BrokerInv, Work
    PROVE  BrokerInv'
<1> USE DEF At
<1>t. /\ Types /\ JobInv /\ FileInv /\ AnswerInv /\ job \in Jobs /\ faults \in Nat
  BY DEF BrokerInv, Types
<1>i. Idle \in Jobs /\ Idle.pc = "idle"
  BY DEF Idle, Jobs
<1>1. CASE WriteIntent
  BY <1>1, <1>t, Marks DEF WriteIntent, Goto, Types, Jobs, Working, JobInv, FileInv, AnswerInv,
     Accepted, Settled, BrokerInv
<1>2. CASE ReadResult
  <2>1. CASE Pending
    BY <2>1, <1>2, <1>t, PendingStep DEF ReadResult
  <2>2. CASE result[job.id] = NoResult /\ ~Pending
    <3>1. PICK p \in {"baseline", "compare"} : Goto(p) /\ UNCHANGED answers
      BY <2>2, <1>2, Marks DEF ReadResult, Settled
    <3>2. job' \in Jobs /\ job'.id = job.id /\ job'.pc = p
      BY <3>1, <1>t DEF Goto, Jobs, Working
    <3>3. QED BY <3>1, <3>2, <2>2, <1>2, <1>t, GotoStep DEF ReadResult, Working
  <2>3. CASE Settled(job.id) /\ job' = Idle /\ Definite(job.id, "capture", result[job.id].outcome)
    <3>1. job.id \in Requests /\ result[job.id] \in Verdicts
      BY <2>3, <1>2, <1>t DEF ReadResult, JobInv, Types, Settled
    <3>2. Types'
      BY <2>3, <3>1, <1>2, <1>t, <1>i DEF ReadResult, Types, Definite, Answers, Verdicts
    <3>3. JobInv'
      BY <2>3, <1>i DEF JobInv, Working
    <3>4. FileInv' /\ AnswerInv'
      BY <2>3, <1>2, <1>t DEF ReadResult, FileInv, AnswerInv, Accepted, Settled, Definite
    <3>5. QED BY <3>2, <3>3, <3>4 DEF BrokerInv
  <2>4. QED BY <2>1, <2>2, <2>3, <1>2 DEF ReadResult
<1>3. CASE Compare
  <2>1. CASE vault.file[job.id] = "ours"
    <3>1. job.id \in linked /\ result[job.id] = NoResult
      BY <2>1, <1>3, <1>t DEF Compare, JobInv, FileInv, Working
    <3>2. job' \in Jobs /\ job'.id = job.id /\ job'.pc = "recover"
      BY <2>1, <1>3, <1>t DEF Compare, Goto, Jobs, Working
    <3>3. QED BY <3>1, <3>2, <2>1, <1>3, <1>t, GotoStep DEF Compare, Working
  <2>2. CASE vault.file[job.id] # "ours"
    BY <2>2, <1>3, <1>t, ConcludeStep DEF Compare, Working
  <2>3. QED BY <2>1, <2>2
<1>4. CASE Recover
  <2>1. job.id \in linked
    BY <1>4, <1>t DEF Recover, JobInv
  <2>2. QED BY <2>1, <1>4, <1>t, PendingStep, ConcludeStep DEF Recover, Working
<1>5. CASE Baseline
  <2>1. CASE Pending
    BY <2>1, <1>5, <1>t, PendingStep DEF Baseline
  <2>2. CASE ~Pending
    <3>1. job' \in Jobs /\ job'.id = job.id /\ job'.pc = "export"
      <4>1. job' = [job EXCEPT !.pc = "export", !.base = vault]
        BY <1>5, <2>2 DEF Baseline
      <4>2. job \in Jobs /\ vault \in Vaults
        BY <1>t DEF Types
      <4>3. QED BY <4>1, <4>2 DEF Jobs, Working
    <3>2. result[job.id] = NoResult
      BY <1>5, <1>t DEF Baseline, JobInv, Working
    <3>3. QED BY <3>1, <3>2, <2>2, <1>5, <1>t, GotoStep DEF Baseline, Working
  <2>3. QED BY <2>1, <2>2
<1>6. CASE ValidateCandidate
  <2>1. CASE Valid(With(vault, job.id))
    <3>1. With(vault, job.id) \in Vaults
      BY <1>6, <1>t, WithNote DEF ValidateCandidate, JobInv, Types
    <3>2. job' \in Jobs /\ job'.id = job.id /\ job'.pc = "recheck"
      BY <2>1, <3>1, <1>6, <1>t DEF ValidateCandidate, Jobs, Working
    <3>3. result[job.id] = NoResult
      BY <1>6, <1>t DEF ValidateCandidate, JobInv, Working
    <3>4. QED BY <2>1, <3>2, <3>3, <1>6, <1>t, GotoStep DEF ValidateCandidate, Working
  <2>2. CASE ~Valid(With(vault, job.id))
    BY <2>2, <1>6, <1>t, ConcludeStep DEF ValidateCandidate, Working
  <2>3. QED BY <2>1, <2>2
<1>7. CASE Recheck
  <2>1. CASE Pending
    BY <2>1, <1>7, <1>t, PendingStep DEF Recheck
  <2>2. CASE ~Pending
    <3>1. job' \in Jobs /\ job'.id = job.id /\ job'.pc = "link"
      BY <2>2, <1>7, <1>t DEF Recheck, Goto, Jobs, Working
    <3>2. result[job.id] = NoResult
      BY <1>7, <1>t DEF Recheck, JobInv, Working
    <3>3. QED BY <3>1, <3>2, <2>2, <1>7, <1>t, GotoStep DEF Recheck, Working
  <2>3. QED BY <2>1, <2>2
<1>8. CASE PublishNote
  <2>1. CASE vault.file[job.id] # "none"
    BY <2>1, <1>8, <1>t, PendingStep DEF PublishNote
  <2>2. CASE vault.file[job.id] = "none"
    <3>1. job.id \in Requests /\ Accepted(job.id) /\ result[job.id] = NoResult
      BY <1>8, <1>t DEF PublishNote, JobInv, Working
    <3>2. /\ vault' \in Vaults
          /\ \A q \in Requests \ {job.id} : vault'.file[q] = vault.file[q]
      BY <2>2, <3>1, <1>8, <1>t, WithNote DEF PublishNote, Types
    <3>3. /\ job' \in Jobs /\ job'.id = job.id /\ job'.pc = "verify"
          /\ linked' = linked \union {job.id} /\ UNCHANGED <<intent, result, answers, edits, faults>>
      BY <2>2, <1>8, <1>t DEF PublishNote, Goto, Jobs, Working
    <3>4. Types'
      BY <3>1, <3>2, <3>3, <1>t DEF Types
    <3>5. JobInv'
      BY <3>1, <3>3 DEF JobInv, Working, Accepted
    <3>6. FileInv' /\ AnswerInv'
      BY <3>1, <3>2, <3>3, <1>t DEF FileInv, AnswerInv, Accepted, Settled
    <3>7. QED BY <3>4, <3>5, <3>6 DEF BrokerInv
  <2>3. QED BY <2>1, <2>2
<1>9. CASE VerifyPublished
  <2>1. job.id \in linked /\ Moved \in BOOLEAN
    BY <1>9, <1>t DEF VerifyPublished, JobInv, Moved
  <2>2. QED BY <2>1, <1>9, <1>t, ConcludeStep DEF VerifyPublished, Working
<1>10. CASE CreateResult
  <2>1. /\ job.id \in Requests /\ Accepted(job.id) /\ result[job.id] = NoResult
        /\ job.out \in Verdicts /\ (job.out.outcome = "APPLIED" => job.id \in linked)
    BY <1>10, <1>t DEF CreateResult, JobInv, Working
  <2>2. /\ job' \in Jobs /\ job'.id = job.id /\ job'.pc = "result" /\ job'.out = job.out
        /\ UNCHANGED <<intent, vault, linked, answers, edits, faults>>
    BY <1>10, <1>t DEF CreateResult, Goto, Jobs, Working
  <2>3. /\ result' \in [Requests -> Verdicts \union {NoResult, TornResult}]
        /\ result'[job.id] = TornResult
        /\ \A q \in Requests \ {job.id} : result'[q] = result[q]
    BY <1>10, <2>1, <1>t DEF CreateResult, Types
  <2>4. Types'
    BY <2>2, <2>3, <1>t DEF Types
  <2>5. JobInv'
    BY <2>1, <2>2, <2>3 DEF JobInv, Working, Accepted
  <2>6. FileInv' /\ AnswerInv'
    BY <2>1, <2>2, <2>3, <1>t DEF FileInv, AnswerInv, Accepted, Settled, Types, Answers
  <2>7. QED BY <2>4, <2>5, <2>6 DEF BrokerInv
<1>11. CASE WriteResult
  BY <1>11, <1>t, <1>i, Marks DEF WriteResult, Definite, Types, Jobs, Working, JobInv, FileInv,
     AnswerInv, Accepted, Settled, Answers, Verdicts, BrokerInv
<1>12. QED
  BY <1>1, <1>2, <1>3, <1>4, <1>5, <1>6, <1>7, <1>8, <1>9, <1>10, <1>11 DEF Work

\* Every step: the clients' requests, the handler, its failures, and the
\* editors next to it.
LEMMA BrokerStep ==
    ASSUME BrokerInv, [Next]_vars
    PROVE  BrokerInv'
<1> USE DEF At
<1>t. /\ Types /\ JobInv /\ FileInv /\ AnswerInv /\ job \in Jobs /\ faults \in Nat
  BY DEF BrokerInv, Types
<1>1. ASSUME NEW r \in Requests, NEW n \in Notes, NEW s \in Subjects, CreateIntent(r, n, s)
      PROVE  BrokerInv'
  <2> DEFINE i == [note |-> n, subject |-> s]
  <2>1. i \in Intents
    BY DEF Intents
  <2>2. /\ job' \in Jobs /\ job'.pc = "intent" /\ job'.id = r /\ job'.intent = i
        /\ UNCHANGED <<result, vault, linked, answers, edits, faults>>
    BY <1>1, <2>1 DEF CreateIntent, Idle, Jobs
  <2>3. /\ intent' \in [Requests -> Intents \union {None, Torn}]
        /\ intent[r] = None /\ intent'[r] = Torn
        /\ \A q \in Requests \ {r} : intent'[q] = intent[q]
    BY <1>1, <1>t DEF CreateIntent, Types
  <2>4. Types'
    BY <2>2, <2>3, <1>t DEF Types
  <2>5. JobInv'
    BY <2>1, <2>2, <2>3 DEF JobInv, Working
  <2>6. FileInv' /\ AnswerInv'
    BY <2>2, <2>3, <1>t DEF FileInv, AnswerInv, Accepted, Settled
  <2>7. QED BY <2>4, <2>5, <2>6 DEF BrokerInv
<1>2. ASSUME NEW r \in Requests, Retry(r)
      PROVE  BrokerInv'
  <2>1. /\ job' \in Jobs /\ job'.pc = "process" /\ job'.id = r /\ Accepted(r)
        /\ UNCHANGED <<intent, result, vault, linked, answers, edits, faults>>
    BY <1>2 DEF Retry, Idle, Jobs, Working
  <2>2. Types' /\ FileInv' /\ AnswerInv'
    BY <2>1, <1>t DEF Types, FileInv, AnswerInv, Accepted, Settled
  <2>3. JobInv'
    BY <2>1 DEF JobInv, Working, Accepted
  <2>4. QED BY <2>2, <2>3 DEF BrokerInv
<1>3. ASSUME NEW r \in Requests, Status(r)
      PROVE  BrokerInv'
  <2>1. PICK o \in {"APPLIED", "REJECTED"} : Definite(r, "status", o)
    BY <1>3, <1>t DEF Status, Settled, Types, Verdicts
  <2>2. UNCHANGED <<intent, result, vault, job, linked, edits, faults>>
    BY <1>3 DEF Status
  <2>3. Types'
    BY <2>1, <2>2, <1>t DEF Types, Definite, Answers
  <2>4. JobInv' /\ FileInv'
    BY <2>2, <1>t DEF JobInv, FileInv, Accepted
  <2>5. AnswerInv'
    BY <2>1, <2>2, <1>t DEF AnswerInv, Definite, Settled
  <2>6. QED BY <2>3, <2>4, <2>5 DEF BrokerInv
<1>4. CASE Work
  BY <1>4, WorkStep
<1>5. CASE HandlerFails
  <2>1. faults' \in Nat /\ job.pc # "idle" /\ UNCHANGED <<vault, linked, edits>>
    BY <1>5, <1>t DEF HandlerFails
  <2>2. CASE At("compare")
    <3>1. Conclude("REJECTED", "taken", FALSE) /\ UNCHANGED <<intent, result>>
      BY <1>5, <2>2 DEF HandlerFails
    <3>2. QED BY <2>1, <2>2, <3>1, ConcludeStep DEF Working
  <2>3. CASE At("verify")
    <3>1. Conclude("APPLIED", "new", TRUE) /\ UNCHANGED <<intent, result>>
      BY <1>5, <2>3 DEF HandlerFails
    <3>2. job.id \in linked
      BY <2>3, <1>t DEF JobInv
    <3>3. QED BY <2>1, <2>3, <3>1, <3>2, ConcludeStep DEF Working
  <2>4. CASE job.pc \notin {"compare", "verify", "intent", "result"}
    <3>1. Pending /\ UNCHANGED <<intent, result>>
      BY <1>5, <2>4 DEF HandlerFails
    <3>2. QED BY <2>1, <3>1, PendingStep
  <2>5. CASE job.pc \in {"intent", "result"}
    <3>1. Pending
      BY <1>5, <2>5 DEF HandlerFails
    <3>2. job' = Idle /\ Idle \in Jobs /\ Idle.pc = "idle" /\ answers' = answers
      BY <3>1 DEF Pending, Idle, Jobs
    <3>3. /\ intent' \in [Requests -> Intents \union {None, Torn}]
          /\ \A r \in Requests : intent'[r] = intent[r] \/ intent[r] = Torn
      BY <1>5, <2>5, <1>t DEF HandlerFails, Types, JobInv
    <3>4. /\ result' \in [Requests -> Verdicts \union {NoResult, TornResult}]
          /\ \A r \in Requests : \/ result'[r] = result[r]
                                 \/ result[r] = TornResult /\ result'[r] = NoResult
      BY <1>5, <2>5, <1>t DEF HandlerFails, Types, JobInv
    <3>5. \A r \in Requests : Accepted(r) => intent'[r] = intent[r]
      BY <3>3 DEF Accepted
    <3>6. Types'
      BY <2>1, <3>2, <3>3, <3>4, <1>t DEF Types
    <3>7. JobInv'
      BY <3>2 DEF JobInv, Working
    <3>8. FileInv'
      BY <2>1, <3>4, <3>5, <1>t DEF FileInv, Accepted
    <3>9. AnswerInv'
      BY <3>2, <3>4, <1>t DEF AnswerInv, Settled, Types, Answers
    <3>10. QED BY <3>6, <3>7, <3>8, <3>9 DEF BrokerInv
  <2>6. QED BY <2>2, <2>3, <2>4, <2>5
<1>6. CASE Crash
  BY <1>6, <1>t, PendingStep DEF Crash
<1>7. CASE Edit
  <2>1. edits' \in Nat /\ UNCHANGED <<intent, result, job, linked, answers, faults>>
    <3>1. edits' = edits + 1 /\ UNCHANGED <<intent, result, job, linked, answers, faults>>
      BY <1>7, Zenon DEF Edit
    <3>2. QED BY <3>1, <1>t DEF Types
  <2>2. /\ vault' \in Vaults
        /\ \A r \in Requests : vault'.file[r] = "ours" => vault.file[r] = "ours" \/ r \in linked
    <3>1. ASSUME NEW b \in BOOLEAN, NEW c \in SUBSET Notes,
                 vault' = [vault EXCEPT !.ok = b, !.cats = c]
          PROVE  vault' \in Vaults /\ vault'.file = vault.file
      BY <3>1, <1>t DEF Types, Vaults
    <3>2. ASSUME NEW r \in Requests, NEW f \in Files, f = "ours" => r \in linked,
                 vault' = [vault EXCEPT !.file[r] = f]
          PROVE  /\ vault' \in Vaults /\ vault'.file[r] = f
                 /\ \A q \in Requests \ {r} : vault'.file[q] = vault.file[q]
      BY <3>2, <1>t DEF Types, Vaults
    <3>3. QED BY <1>7, <3>1, <3>2 DEF Edit
  <2>3. Types'
    BY <2>1, <2>2, <1>t DEF Types
  <2>4. JobInv' /\ FileInv' /\ AnswerInv'
    BY <2>1, <2>2, <1>t DEF JobInv, FileInv, AnswerInv, Accepted, Settled
  <2>5. QED BY <2>3, <2>4 DEF BrokerInv
<1>8. CASE UNCHANGED vars
  BY <1>8, <1>t DEF vars, BrokerInv, Types, JobInv, FileInv, AnswerInv, Accepted, Settled
<1>9. QED
  BY <1>1, <1>2, <1>3, <1>4, <1>5, <1>6, <1>7, <1>8 DEF Next

-----------------------------------------------------------------------------
(* The theorems *)

\* BrokerInv holds in every reachable state, with or without fairness.
THEOREM BrokerInvariant == Spec => []BrokerInv
<1>1. Init => BrokerInv
  <2> SUFFICES ASSUME Init PROVE BrokerInv
    OBVIOUS
  <2>1. Types
    BY DEF Init, Types, Vaults, Idle, Jobs
  <2>2. JobInv /\ FileInv /\ AnswerInv
    BY DEF Init, JobInv, FileInv, AnswerInv, At, Working, Idle
  <2>3. QED BY <2>1, <2>2 DEF BrokerInv
<1>2. BrokerInv /\ [Next]_vars => BrokerInv'
  BY BrokerStep
<1>3. QED BY <1>1, <1>2, PTL DEF Spec

\* The types of the broker's files hold, a note and a result never exist
\* without their intent, and the handler completes only the file it created.
THEOREM BrokerTypesHold == Spec => []BrokerTypeOK
<1>1. BrokerInv => BrokerTypeOK
  BY DEF BrokerInv, Types, JobInv, FileInv, BrokerTypeOK, Working
<1>2. QED BY <1>1, BrokerInvariant, PTL

\* Two definite answers to captures of one request agree, however often the
\* process stopped and the client repeated its capture in between.
THEOREM CaptureAnswersAgree == Spec => []AnswersAgree
<1>1. BrokerInv => AnswersAgree
  BY DEF BrokerInv, AnswerInv, AnswersAgree
<1>2. QED BY <1>1, BrokerInvariant, PTL

\* The broker never writes over a file and never puts a note back once its
\* request is settled.
THEOREM BrokerOnlyCreates == Spec => OnlyCreates
<1> DEFINE Step == edits' = edits =>
                       \A r \in Requests : vault'.file[r] # vault.file[r] =>
                           vault.file[r] = "none" /\ ~Settled(r)
<1>1. ASSUME BrokerInv, [Next]_vars
      PROVE  [Step]_vars
  <2>1. CASE PublishNote
    <3>1. job.id \in Requests /\ result[job.id] = NoResult /\ vault \in Vaults
      BY <1>1, <2>1 DEF BrokerInv, Types, JobInv, PublishNote, At, Working
    <3>2. CASE vault.file[job.id] = "none"
      <4>1. \A r \in Requests : vault'.file[r] # vault.file[r] => r = job.id
        BY <2>1, <3>1, <3>2, WithNote DEF PublishNote
      <4>2. QED BY <3>1, <3>2, <4>1 DEF Settled
    <3>3. CASE vault.file[job.id] # "none"
      BY <2>1, <3>3 DEF PublishNote
    <3>4. QED BY <3>2, <3>3
  <2>2. CASE Edit
    <3>1. edits' = edits + 1
      BY <2>2, Zenon DEF Edit
    <3>2. QED BY <3>1, <1>1 DEF BrokerInv, Types
  <2>3. CASE ~PublishNote /\ ~Edit
    <3>1. UNCHANGED vault
      BY <1>1, <2>3 DEF Next, CreateIntent, Retry, Status, Work, WriteIntent, ReadResult, Compare,
         Recover, Baseline, ValidateCandidate, Recheck, VerifyPublished, CreateResult, WriteResult,
         HandlerFails, Crash, vars
    <3>2. QED BY <3>1
  <2>4. QED BY <2>1, <2>2, <2>3
<1>2. QED BY <1>1, BrokerInvariant, PTL DEF Spec, OnlyCreates

\* Every step of the broker is a step of the promise or leaves what it speaks
\* of alone: an intent is accepted when its bytes are complete, a note is
\* created by the link, a request is settled when its result is complete.
LEMMA CaptureStep ==
    ASSUME BrokerInv, [Next]_vars
    PROVE  [Capture!Next]_(Capture!captureVars)
<1> DEFINE acc == [r \in Requests |-> IF Accepted(r) THEN intent[r] ELSE None]
           ver == [r \in Requests |-> IF Settled(r) THEN result[r].outcome ELSE "NONE"]
<1>t. /\ Types /\ JobInv /\ FileInv
  BY DEF BrokerInv
<1>a. (\A r \in Requests : intent'[r] = intent[r] \/ (~Accepted(r) /\ intent'[r] \in {None, Torn}))
        => acc' = acc
  <2>1. ASSUME NEW r \in Requests, intent'[r] = intent[r] \/ (~Accepted(r) /\ intent'[r] \in {None, Torn})
        PROVE  (IF Accepted(r)' THEN intent'[r] ELSE None) = (IF Accepted(r) THEN intent[r] ELSE None)
    BY <2>1 DEF Accepted
  <2>2. QED BY <2>1
<1>b. (\A r \in Requests : result'[r] = result[r] \/ (~Settled(r) /\ result'[r] \in {NoResult, TornResult}))
        => ver' = ver
  <2>1. ASSUME NEW r \in Requests,
               result'[r] = result[r] \/ (~Settled(r) /\ result'[r] \in {NoResult, TornResult})
        PROVE  (IF Settled(r)' THEN result'[r].outcome ELSE "NONE")
                 = (IF Settled(r) THEN result[r].outcome ELSE "NONE")
    BY <2>1 DEF Settled
  <2>2. QED BY <2>1
<1>1. CASE WriteIntent
  <2> DEFINE r == job.id  i == job.intent
  <2>1. /\ r \in Requests /\ i \in Intents /\ intent[r] = Torn /\ At("intent")
        /\ intent' = [intent EXCEPT ![r] = i] /\ UNCHANGED <<result, linked>>
    BY <1>1, <1>t DEF WriteIntent, JobInv, At
  <2>2. i = [note |-> i.note, subject |-> i.subject] /\ i.note \in Notes /\ i.subject \in Subjects
    BY <2>1 DEF Intents
  <2>3. acc[r] = None /\ acc' = [acc EXCEPT ![r] = i]
    <3>1. i \notin {None, Torn}
      BY <2>1, Marks
    <3>2. \A q \in Requests : (IF Accepted(q)' THEN intent'[q] ELSE None)
                                 = IF q = r THEN i ELSE IF Accepted(q) THEN intent[q] ELSE None
      BY <2>1, <3>1, <1>t DEF Accepted, Types
    <3>3. ~Accepted(r)
      BY <2>1 DEF Accepted
    <3>4. QED BY <2>1, <3>2, <3>3
  <2>4. ver' = ver
    BY <2>1, <1>b
  <2>5. PICK q \in Requests, n \in Notes, s \in Subjects : q = r /\ i = [note |-> n, subject |-> s]
    BY <2>1, <2>2
  <2>6. Capture!Accept(q, n, s)
    BY <2>1, <2>3, <2>4, <2>5 DEF Capture!Accept
  <2>7. QED BY <2>6 DEF Capture!Next
<1>2. CASE PublishNote
  <2>1. job.id \in Requests /\ Accepted(job.id) /\ result[job.id] = NoResult
    BY <1>2, <1>t DEF PublishNote, JobInv, At, Working
  <2>2. acc' = acc /\ ver' = ver
    BY <1>2, <1>a, <1>b DEF PublishNote
  <2>3. CASE vault.file[job.id] = "none"
    <3>1. acc[job.id] # None /\ ver[job.id] = "NONE"
      BY <2>1 DEF Accepted, Settled
    <3>2. linked' = linked \union {job.id}
      BY <1>2, <2>3 DEF PublishNote
    <3>3. Capture!Create(job.id)
      BY <2>2, <3>1, <3>2 DEF Capture!Create, Capture!Open
    <3>4. QED BY <2>1, <3>3 DEF Capture!Next
  <2>4. CASE vault.file[job.id] # "none"
    BY <1>2, <2>2, <2>4 DEF PublishNote, Capture!captureVars
  <2>5. QED BY <2>3, <2>4
<1>3. CASE WriteResult
  <2> DEFINE r == job.id  o == job.out.outcome
  <2>1. /\ r \in Requests /\ Accepted(r) /\ result[r] = TornResult
        /\ job.out \in Verdicts /\ (o = "APPLIED" => r \in linked)
        /\ result' = [result EXCEPT ![r] = job.out] /\ UNCHANGED <<intent, linked>>
    BY <1>3, <1>t DEF WriteResult, JobInv, At, Working
  <2>2. o \in {"APPLIED", "REJECTED"} /\ job.out \notin {NoResult, TornResult}
    BY <2>1, Marks DEF Verdicts
  <2>3. acc' = acc
    BY <2>1, <1>a
  <2>4. acc[r] # None /\ ver[r] = "NONE"
    BY <2>1 DEF Accepted, Settled
  <2>5. ver' = [ver EXCEPT ![r] = o]
    <3>1. \A q \in Requests : (IF Settled(q)' THEN result'[q].outcome ELSE "NONE")
                                 = IF q = r THEN o ELSE IF Settled(q) THEN result[q].outcome ELSE "NONE"
      BY <2>1, <2>2, <1>t DEF Settled, Types
    <3>2. QED BY <2>1, <3>1
  <2>6. PICK q \in Requests, u \in {"APPLIED", "REJECTED"} : q = r /\ u = o
    BY <2>1, <2>2
  <2>7. Capture!Settle(q, u)
    BY <2>1, <2>3, <2>4, <2>5, <2>6 DEF Capture!Settle, Capture!Open
  <2>8. QED BY <2>7 DEF Capture!Next
<1>4. CASE ~WriteIntent /\ ~PublishNote /\ ~WriteResult
  <2>1. UNCHANGED linked
    BY <1>4 DEF Next, CreateIntent, Retry, Status, Work, ReadResult, Compare, Recover, Baseline,
       ValidateCandidate, Recheck, VerifyPublished, CreateResult, HandlerFails, Crash, Edit, vars
  <2>2. \A r \in Requests : intent'[r] = intent[r] \/ (~Accepted(r) /\ intent'[r] \in {None, Torn})
    <3>1. ASSUME NEW q \in Requests, NEW n \in Notes, NEW s \in Subjects, CreateIntent(q, n, s)
          PROVE  \A r \in Requests : intent'[r] = intent[r] \/ (~Accepted(r) /\ intent'[r] = Torn)
      BY <3>1, <1>t DEF CreateIntent, Accepted, Types
    <3>2. CASE HandlerFails
      BY <3>2, <1>t DEF HandlerFails, Accepted, Types, JobInv, At
    <3>3. CASE UNCHANGED intent
      BY <3>3
    <3>4. QED
      BY <1>4, <3>1, <3>2, <3>3 DEF Next, Retry, Status, Work, ReadResult, Compare, Recover,
         Baseline, ValidateCandidate, Recheck, VerifyPublished, CreateResult, Crash, Edit, vars
  <2>3. \A r \in Requests : result'[r] = result[r] \/ (~Settled(r) /\ result'[r] \in {NoResult, TornResult})
    <3>1. CASE CreateResult
      BY <3>1, <1>t DEF CreateResult, Settled, Types, JobInv, At
    <3>2. CASE HandlerFails
      BY <3>2, <1>t DEF HandlerFails, Settled, Types, JobInv, At
    <3>3. CASE UNCHANGED result
      BY <3>3
    <3>4. QED
      BY <1>4, <3>1, <3>2, <3>3 DEF Next, CreateIntent, Retry, Status, Work, ReadResult, Compare,
         Recover, Baseline, ValidateCandidate, Recheck, VerifyPublished, Crash, Edit, vars
  <2>4. QED BY <2>1, <2>2, <2>3, <1>a, <1>b DEF Capture!captureVars
<1>5. QED BY <1>1, <1>2, <1>3, <1>4

\* The broker implements NoteCapture: a request id stands for one note of one
\* subject for good, its verdict never changes, and APPLIED is said only of a
\* note that was put into the vault.
THEOREM BrokerImplementsCapture == Spec => ImplementsCapture
<1>1. Init => Capture!Init
  <2> SUFFICES ASSUME Init PROVE Capture!Init
    OBVIOUS
  <2>1. \A r \in Requests : ~Accepted(r) /\ ~Settled(r)
    BY DEF Init, Accepted, Settled
  <2>2. QED BY <2>1 DEF Init, Capture!Init
<1>2. BrokerInv /\ [Next]_vars => [Capture!Next]_(Capture!captureVars)
  BY CaptureStep
<1>3. QED BY <1>1, <1>2, BrokerInvariant, PTL DEF Spec, ImplementsCapture, Capture!Spec

-----------------------------------------------------------------------------
(* What the broker said stays true *)

\* An intent that was accepted and a result that is complete are written once.
FilesStay ==
    \A r \in Requests : /\ Accepted(r) => intent'[r] = intent[r]
                        /\ Settled(r) => result'[r] = result[r]

LEMMA FilesStayStep ==
    ASSUME BrokerInv, [Next]_vars
    PROVE  FilesStay
<1>1. Types /\ JobInv
  BY DEF BrokerInv
<1>2. CASE UNCHANGED <<intent, result>>
  BY <1>2 DEF FilesStay
<1>3. ASSUME NEW r \in Requests, intent[r] \in {None, Torn}, NEW v,
             intent' = [intent EXCEPT ![r] = v], result' = result
      PROVE  FilesStay
  BY <1>1, <1>3 DEF FilesStay, Accepted, Types
<1>4. ASSUME NEW r \in Requests, result[r] \in {NoResult, TornResult}, NEW v,
             result' = [result EXCEPT ![r] = v], intent' = intent
      PROVE  FilesStay
  BY <1>1, <1>4 DEF FilesStay, Settled, Types
<1>5. ASSUME NEW r \in Requests, NEW n \in Notes, NEW s \in Subjects, CreateIntent(r, n, s)
      PROVE  FilesStay
  BY <1>3, <1>5 DEF CreateIntent
<1>6. CASE WriteIntent
  BY <1>1, <1>3, <1>6 DEF WriteIntent, JobInv, At
<1>7. CASE CreateResult \/ WriteResult
  BY <1>1, <1>4, <1>7 DEF CreateResult, WriteResult, JobInv, At, Working
<1>8. CASE HandlerFails
  <2>1. CASE At("intent")
    BY <1>1, <1>3, <1>8, <2>1 DEF HandlerFails, JobInv, At
  <2>2. CASE At("result")
    BY <1>1, <1>4, <1>8, <2>2 DEF HandlerFails, JobInv, At
  <2>3. QED BY <1>2, <1>8, <2>1, <2>2 DEF HandlerFails
<1>9. QED
  BY <1>2, <1>5, <1>6, <1>7, <1>8 DEF Next, Retry, Status, Work, ReadResult, Compare, Recover,
     Baseline, ValidateCandidate, Recheck, PublishNote, VerifyPublished, Crash, Edit, vars

\* What requests/<id>.json and results/<id>.json say, once they are complete,
\* is never written again: whatever fails, stops or is repeated.
THEOREM BrokerFilesStay == Spec => [][FilesStay]_vars
<1>1. BrokerInv /\ [Next]_vars => [FilesStay]_vars
  BY FilesStayStep
<1>2. QED BY <1>1, BrokerInvariant, PTL DEF Spec

\* A note is called applied, in a result or in any answer, only after it was
\* linked into the vault.
AppliedWasLinked ==
    /\ \A r \in Requests : result[r].outcome = "APPLIED" => r \in linked
    /\ \A x \in answers : x.outcome = "APPLIED" => x.id \in linked

LEMMA AppliedStep ==
    ASSUME BrokerInv, AppliedWasLinked, [Next]_vars
    PROVE  AppliedWasLinked'
<1>1. Types /\ JobInv
  BY DEF BrokerInv
<1>2. linked \subseteq linked'
  BY DEF Next, CreateIntent, Retry, Status, Work, WriteIntent, ReadResult, Compare, Recover,
     Baseline, ValidateCandidate, Recheck, PublishNote, VerifyPublished, CreateResult,
     WriteResult, HandlerFails, Crash, Edit, vars
<1>3. NoResult.outcome = "NONE" /\ TornResult.outcome = "TORN"
  BY DEF NoResult, TornResult, Res
<1>4. CASE UNCHANGED <<result, answers>>
  BY <1>2, <1>4 DEF AppliedWasLinked
<1>5. ASSUME NEW r \in Requests, NEW via, NEW o, Definite(r, via, o), o = "APPLIED" => r \in linked,
             UNCHANGED result
      PROVE  AppliedWasLinked'
  BY <1>2, <1>5 DEF AppliedWasLinked, Definite
<1>6. ASSUME NEW r \in Requests, Status(r)
      PROVE  AppliedWasLinked'
  BY <1>5, <1>6 DEF Status, AppliedWasLinked
<1>7. CASE ReadResult
  BY <1>1, <1>4, <1>5, <1>7 DEF ReadResult, AppliedWasLinked, JobInv, At, Pending
<1>8. CASE WriteResult
  <2>1. /\ job.id \in Requests /\ (job.out.outcome = "APPLIED" => job.id \in linked)
        /\ result' = [result EXCEPT ![job.id] = job.out]
        /\ answers' = answers \union {[id |-> job.id, via |-> "capture", outcome |-> job.out.outcome]}
    BY <1>1, <1>8 DEF WriteResult, JobInv, At, Definite
  <2>2. QED BY <1>1, <1>2, <2>1 DEF AppliedWasLinked, Types
<1>9. CASE UNCHANGED answers /\ \E r \in Requests : \E v \in {NoResult, TornResult} :
             result' = [result EXCEPT ![r] = v]
  BY <1>1, <1>2, <1>3, <1>9 DEF AppliedWasLinked, Types
<1>10. CASE CreateResult
  BY <1>1, <1>9, <1>10 DEF CreateResult, JobInv, At
<1>11. CASE HandlerFails
  <2>1. UNCHANGED answers
    BY <1>11 DEF HandlerFails, Conclude, Pending
  <2>2. CASE At("result")
    BY <1>1, <1>9, <1>11, <2>1, <2>2 DEF HandlerFails, JobInv, At
  <2>3. QED BY <1>4, <1>11, <2>1, <2>2 DEF HandlerFails
<1>12. QED
  BY <1>4, <1>6, <1>7, <1>8, <1>10, <1>11 DEF Next, CreateIntent, Retry, Work, WriteIntent, Compare,
     Recover, Baseline, ValidateCandidate, Recheck, PublishNote, VerifyPublished, Crash, Edit,
     Conclude, Pending, vars

\* No client is told that a note was applied which the broker did not link,
\* neither by a capture, nor by a repeated one, nor by write_status.
THEOREM AppliedNotesWereLinked == Spec => []AppliedWasLinked
<1>1. Init => AppliedWasLinked
  BY DEF Init, AppliedWasLinked, NoResult, Res
<1>2. BrokerInv /\ AppliedWasLinked /\ [Next]_vars => AppliedWasLinked'
  BY AppliedStep
<1>3. QED BY <1>1, <1>2, BrokerInvariant, PTL DEF Spec

-----------------------------------------------------------------------------
(***************************************************************************)
(* The broker's socket (module Endpoint), for any number of processes,     *)
(* starts, stops and failures. EndpointInv is the inductive invariant: a   *)
(* process that nobody crossed is the only one that starts or stops at the *)
(* path, so it knows what is there, and nobody takes its inode for his own.*)
(***************************************************************************)
Uncrossed(p) == run[p] \notin crossed

\* The types of the state. Inodes are named by starts that have happened, and
\* only the broker probes a socket and identifies its own.
EndpointTypes ==
    /\ service \in {"broker", "mcp"}
    /\ starts \in Nat /\ failures \in Nat
    /\ path \in Nat \union {NoInode} /\ (path # NoInode => path <= starts)
    /\ pc \in [Processes -> Starting \union Stopping \union {"off", "serving"}]
    /\ run \in [Processes -> Nat]
    /\ saw \in [Processes -> Nat \union {NoInode}]
    /\ ident \in [Processes -> Nat \union {NoInode}]
    /\ \A p \in Processes :
         /\ run[p] <= starts
         /\ ident[p] # NoInode => ident[p] <= starts
         /\ pc[p] \in {"probe", "recheck", "identify"} => service = "broker"

\* NextEndpoint to a start that nobody crossed there are only brokers that serve.
StartsAlone ==
    \A p, q \in Processes :
        p # q /\ Uncrossed(p) /\ Starts(p) /\ Alive(q) => service = "broker" /\ pc[q] = "serving"

\* NextEndpoint to a server that nobody crossed, a start is still to find out that the
\* path is taken, and a server that stops has not yet compared its socket.
ServesAlone ==
    \A p, q \in Processes :
        p # q /\ Uncrossed(p) /\ pc[p] = "serving" /\ Alive(q) =>
            service = "broker" /\ pc[q] \in {"look", "probe", "serving", "close"}

\* Nobody takes the inode of an uncrossed process for his own.
OwnInode ==
    \A p, q \in Processes :
        p # q /\ Uncrossed(p) /\ (Starts(p) \/ pc[p] = "serving") => ident[q] # run[p]

\* What an uncrossed process found at the path, or put there, is there.
PathKnown ==
    \A p \in Processes : Uncrossed(p) =>
        /\ pc[p] \in {"probe", "recheck", "unlink"} => path # NoInode /\ path = saw[p]
        /\ pc[p] = "bind" => path = NoInode
        /\ pc[p] \in {"identify", "listen", "chmod", "serving"} => path = run[p]

EndpointInv == EndpointTypes /\ StartsAlone /\ ServesAlone /\ OwnInode /\ PathKnown

-----------------------------------------------------------------------------
(* Every step preserves EndpointInv *)

\* One step per operation of a process, and under it one per part of the
\* invariant. Other processes move only while an uncrossed one serves, and
\* then none of them is where it changes the path or identifies its socket.
LEMMA EndpointStep ==
    ASSUME EndpointInv, [NextEndpoint]_endpointVars
    PROVE  EndpointInv'
<1> USE EndpointAssumption
    DEF EndpointInv, Uncrossed, Starts, Alive, Starting, Stopping, Go, Exit
<1>1. ASSUME NEW p \in Processes, Start(p)
      PROVE  EndpointInv'
  <2>1. EndpointTypes'
    BY <1>1 DEF Start, EndpointTypes
  <2>2. StartsAlone'
    BY <1>1 DEF Start, EndpointTypes, StartsAlone
  <2>3. ServesAlone'
    BY <1>1 DEF Start, EndpointTypes, StartsAlone, ServesAlone, OwnInode, PathKnown
  <2>4. OwnInode'
    BY <1>1 DEF Start, EndpointTypes, StartsAlone, ServesAlone, OwnInode
  <2>5. PathKnown'
    BY <1>1 DEF Start, EndpointTypes, StartsAlone, ServesAlone, PathKnown
  <2>6. QED BY <2>1, <2>2, <2>3, <2>4, <2>5
<1>2. ASSUME NEW p \in Processes, Look(p)
      PROVE  EndpointInv'
  <2>1. EndpointTypes'
    BY <1>2 DEF Look, EndpointTypes
  <2>2. StartsAlone'
    BY <1>2 DEF Look, EndpointTypes, StartsAlone
  <2>3. ServesAlone'
    BY <1>2 DEF Look, EndpointTypes, StartsAlone, ServesAlone, OwnInode, PathKnown
  <2>4. OwnInode'
    BY <1>2 DEF Look, EndpointTypes, StartsAlone, ServesAlone, OwnInode
  <2>5. PathKnown'
    BY <1>2 DEF Look, EndpointTypes, StartsAlone, ServesAlone, PathKnown
  <2>6. QED BY <2>1, <2>2, <2>3, <2>4, <2>5
<1>3. ASSUME NEW p \in Processes, Probe(p)
      PROVE  EndpointInv'
  <2>1. EndpointTypes'
    BY <1>3 DEF Probe, EndpointTypes
  <2>2. StartsAlone'
    BY <1>3 DEF Probe, EndpointTypes, StartsAlone
  <2>3. ServesAlone'
    BY <1>3 DEF Probe, EndpointTypes, StartsAlone, ServesAlone, OwnInode, PathKnown, Listens
  <2>4. OwnInode'
    BY <1>3 DEF Probe, EndpointTypes, StartsAlone, ServesAlone, OwnInode
  <2>5. PathKnown'
    BY <1>3 DEF Probe, EndpointTypes, StartsAlone, ServesAlone, PathKnown
  <2>6. QED BY <2>1, <2>2, <2>3, <2>4, <2>5
<1>4. ASSUME NEW p \in Processes, LookAgain(p)
      PROVE  EndpointInv'
  <2>1. EndpointTypes'
    BY <1>4 DEF LookAgain, EndpointTypes
  <2>2. StartsAlone'
    BY <1>4 DEF LookAgain, EndpointTypes, StartsAlone
  <2>3. ServesAlone'
    BY <1>4 DEF LookAgain, EndpointTypes, StartsAlone, ServesAlone, OwnInode, PathKnown
  <2>4. OwnInode'
    BY <1>4 DEF LookAgain, EndpointTypes, StartsAlone, ServesAlone, OwnInode
  <2>5. PathKnown'
    BY <1>4 DEF LookAgain, EndpointTypes, StartsAlone, ServesAlone, PathKnown
  <2>6. QED BY <2>1, <2>2, <2>3, <2>4, <2>5
<1>5. ASSUME NEW p \in Processes, Unlink(p)
      PROVE  EndpointInv'
  <2>1. EndpointTypes'
    BY <1>5 DEF Unlink, EndpointTypes
  <2>2. StartsAlone'
    BY <1>5 DEF Unlink, EndpointTypes, StartsAlone
  <2>3. ServesAlone'
    BY <1>5 DEF Unlink, EndpointTypes, StartsAlone, ServesAlone, OwnInode, PathKnown
  <2>4. OwnInode'
    BY <1>5 DEF Unlink, EndpointTypes, StartsAlone, ServesAlone, OwnInode
  <2>5. PathKnown'
    BY <1>5 DEF Unlink, EndpointTypes, StartsAlone, ServesAlone, PathKnown
  <2>6. QED BY <2>1, <2>2, <2>3, <2>4, <2>5
<1>6. ASSUME NEW p \in Processes, Bind(p)
      PROVE  EndpointInv'
  <2>1. EndpointTypes'
    BY <1>6 DEF Bind, EndpointTypes
  <2>2. StartsAlone'
    BY <1>6 DEF Bind, EndpointTypes, StartsAlone
  <2>3. ServesAlone'
    BY <1>6 DEF Bind, EndpointTypes, StartsAlone, ServesAlone, OwnInode, PathKnown
  <2>4. OwnInode'
    BY <1>6 DEF Bind, EndpointTypes, StartsAlone, ServesAlone, OwnInode
  <2>5. PathKnown'
    BY <1>6 DEF Bind, EndpointTypes, StartsAlone, ServesAlone, PathKnown
  <2>6. QED BY <2>1, <2>2, <2>3, <2>4, <2>5
<1>7. ASSUME NEW p \in Processes, Identify(p)
      PROVE  EndpointInv'
  <2>1. EndpointTypes'
    BY <1>7 DEF Identify, EndpointTypes
  <2>2. StartsAlone'
    BY <1>7 DEF Identify, EndpointTypes, StartsAlone
  <2>3. ServesAlone'
    BY <1>7 DEF Identify, EndpointTypes, StartsAlone, ServesAlone, OwnInode, PathKnown
  <2>4. OwnInode'
    BY <1>7 DEF Identify, EndpointTypes, StartsAlone, ServesAlone, OwnInode
  <2>5. PathKnown'
    BY <1>7 DEF Identify, EndpointTypes, StartsAlone, ServesAlone, PathKnown
  <2>6. QED BY <2>1, <2>2, <2>3, <2>4, <2>5
<1>8. ASSUME NEW p \in Processes, Listen(p)
      PROVE  EndpointInv'
  <2>1. EndpointTypes'
    BY <1>8 DEF Listen, EndpointTypes
  <2>2. StartsAlone'
    BY <1>8 DEF Listen, EndpointTypes, StartsAlone
  <2>3. ServesAlone'
    BY <1>8 DEF Listen, EndpointTypes, StartsAlone, ServesAlone, OwnInode, PathKnown
  <2>4. OwnInode'
    BY <1>8 DEF Listen, EndpointTypes, StartsAlone, ServesAlone, OwnInode
  <2>5. PathKnown'
    BY <1>8 DEF Listen, EndpointTypes, StartsAlone, ServesAlone, PathKnown
  <2>6. QED BY <2>1, <2>2, <2>3, <2>4, <2>5
<1>9. ASSUME NEW p \in Processes, Chmod(p)
      PROVE  EndpointInv'
  <2>1. EndpointTypes'
    BY <1>9 DEF Chmod, EndpointTypes
  <2>2. StartsAlone'
    BY <1>9 DEF Chmod, EndpointTypes, StartsAlone
  <2>3. ServesAlone'
    BY <1>9 DEF Chmod, EndpointTypes, StartsAlone, ServesAlone, OwnInode, PathKnown
  <2>4. OwnInode'
    BY <1>9 DEF Chmod, EndpointTypes, StartsAlone, ServesAlone, OwnInode
  <2>5. PathKnown'
    BY <1>9 DEF Chmod, EndpointTypes, StartsAlone, ServesAlone, PathKnown
  <2>6. QED BY <2>1, <2>2, <2>3, <2>4, <2>5
<1>10. ASSUME NEW p \in Processes, StopOrFail(p)
      PROVE  EndpointInv'
  <2>1. EndpointTypes'
    BY <1>10 DEF StopOrFail, EndpointTypes
  <2>2. StartsAlone'
    BY <1>10 DEF StopOrFail, EndpointTypes, StartsAlone
  <2>3. ServesAlone'
    BY <1>10 DEF StopOrFail, EndpointTypes, StartsAlone, ServesAlone, OwnInode, PathKnown
  <2>4. OwnInode'
    BY <1>10 DEF StopOrFail, EndpointTypes, StartsAlone, ServesAlone, OwnInode
  <2>5. PathKnown'
    BY <1>10 DEF StopOrFail, EndpointTypes, StartsAlone, ServesAlone, PathKnown
  <2>6. QED BY <2>1, <2>2, <2>3, <2>4, <2>5
<1>11. ASSUME NEW p \in Processes, Close(p)
      PROVE  EndpointInv'
  <2>1. EndpointTypes'
    BY <1>11 DEF Close, EndpointTypes
  <2>2. StartsAlone'
    BY <1>11 DEF Close, EndpointTypes, StartsAlone
  <2>3. ServesAlone'
    BY <1>11 DEF Close, EndpointTypes, StartsAlone, ServesAlone, OwnInode, PathKnown
  <2>4. OwnInode'
    BY <1>11 DEF Close, EndpointTypes, StartsAlone, ServesAlone, OwnInode
  <2>5. PathKnown'
    BY <1>11 DEF Close, EndpointTypes, StartsAlone, ServesAlone, PathKnown
  <2>6. QED BY <2>1, <2>2, <2>3, <2>4, <2>5
<1>12. ASSUME NEW p \in Processes, Remove(p)
      PROVE  EndpointInv'
  <2>1. EndpointTypes'
    BY <1>12 DEF Remove, EndpointTypes
  <2>2. StartsAlone'
    BY <1>12 DEF Remove, EndpointTypes, StartsAlone
  <2>3. ServesAlone'
    BY <1>12 DEF Remove, EndpointTypes, StartsAlone, ServesAlone, OwnInode, PathKnown
  <2>4. OwnInode'
    BY <1>12 DEF Remove, EndpointTypes, StartsAlone, ServesAlone, OwnInode
  <2>5. PathKnown'
    BY <1>12 DEF Remove, EndpointTypes, StartsAlone, ServesAlone, PathKnown
  <2>6. QED BY <2>1, <2>2, <2>3, <2>4, <2>5
<1>13. ASSUME NEW p \in Processes, Kill(p)
      PROVE  EndpointInv'
  <2>1. EndpointTypes'
    BY <1>13 DEF Kill, EndpointTypes
  <2>2. StartsAlone'
    BY <1>13 DEF Kill, EndpointTypes, StartsAlone
  <2>3. ServesAlone'
    BY <1>13 DEF Kill, EndpointTypes, StartsAlone, ServesAlone, OwnInode, PathKnown
  <2>4. OwnInode'
    BY <1>13 DEF Kill, EndpointTypes, StartsAlone, ServesAlone, OwnInode
  <2>5. PathKnown'
    BY <1>13 DEF Kill, EndpointTypes, StartsAlone, ServesAlone, PathKnown
  <2>6. QED BY <2>1, <2>2, <2>3, <2>4, <2>5
<1>14. CASE UNCHANGED endpointVars
  BY <1>14 DEF endpointVars, EndpointTypes, StartsAlone, ServesAlone, OwnInode, PathKnown
<1>15. QED BY <1>1, <1>2, <1>3, <1>4, <1>5, <1>6, <1>7,
             <1>8, <1>9, <1>10, <1>11, <1>12, <1>13, <1>14 DEF NextEndpoint

-----------------------------------------------------------------------------
(* The theorems *)

\* EndpointInv holds in every reachable state.
THEOREM EndpointInvariant == SpecEndpoint => []EndpointInv
<1>1. InitEndpoint => EndpointInv
  BY EndpointAssumption DEF InitEndpoint, EndpointInv, EndpointTypes, StartsAlone, ServesAlone,
     OwnInode, PathKnown, Uncrossed, Starts, Alive, Starting, Stopping
<1>2. EndpointInv /\ [NextEndpoint]_endpointVars => EndpointInv'
  BY EndpointStep
<1>3. QED BY <1>1, <1>2, PTL DEF SpecEndpoint

\* The socket of a server whose start nobody crossed is at the path as long as
\* it serves, whoever starts, stops or is killed next to it.
THEOREM ServedIsReachable == SpecEndpoint => []ServedStaysReachable
<1>1. EndpointInv => ServedStaysReachable
  BY DEF EndpointInv, PathKnown, Uncrossed, ServedStaysReachable
<1>2. QED BY <1>1, EndpointInvariant, PTL

\* A start that nobody crosses gives up only in favour of a broker that can be
\* reached, or for a system call that fails: a socket that was left behind is
\* always replaced.
THEOREM StaleSocketIsReplaced == SpecEndpoint => StaleIsReplaced
<1> DEFINE Reachable == service = "broker" /\ \E q \in Processes : Listens(q) /\ run[q] = path
           Ends(p) == Starts(p) /\ pc'[p] \in {"off", "close"} /\ failures' = failures
                        /\ Uncrossed(p)
<1>1. ASSUME EndpointInv, NextEndpoint, NEW p \in Processes, Ends(p)
      PROVE  Reachable
  <2> USE DEF EndpointInv
  <2>1. PICK q \in Processes :
            \/ Start(q) \/ Look(q) \/ Probe(q) \/ LookAgain(q) \/ Unlink(q)
            \/ Bind(q) \/ Identify(q) \/ Listen(q) \/ Chmod(q)
            \/ StopOrFail(q) \/ Close(q) \/ Remove(q) \/ Kill(q)
    BY <1>1 DEF NextEndpoint
  <2>2. q = p
    BY <2>1, <1>1 DEF EndpointTypes, Starts, Starting, Start, Look, Probe, LookAgain, Unlink, Bind,
       Identify, Listen, Chmod, StopOrFail, Close, Remove, Kill, Exit, Go
  <2>3. Probe(p) \/ LookAgain(p) \/ Unlink(p) \/ Bind(p) \/ Identify(p) \/ Chmod(p)
    BY <2>1, <2>2, <1>1 DEF EndpointTypes, Starts, Starting, Start, Look, Listen, StopOrFail, Close,
       Remove, Kill, Exit, Go
  <2>4. CASE Probe(p)
    BY <2>4, <1>1 DEF Probe, EndpointTypes, Go
  <2>5. CASE LookAgain(p) \/ Unlink(p) \/ Bind(p) \/ Identify(p) \/ Chmod(p)
    BY <2>5, <1>1, EndpointAssumption DEF LookAgain, Unlink, Bind, Identify, Chmod, EndpointTypes,
       PathKnown, Go
  <2>6. QED BY <2>3, <2>4, <2>5
<1>2. ASSUME EndpointInv, [NextEndpoint]_endpointVars
      PROVE  [\A p \in Processes : Ends(p) => Reachable]_endpointVars
  BY <1>1, <1>2
<1>3. QED BY <1>2, EndpointInvariant, PTL DEF SpecEndpoint, StaleIsReplaced, Uncrossed
=============================================================================
