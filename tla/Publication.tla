----------------------------- MODULE Publication -----------------------------
(***************************************************************************)
(* One publication attempt after the other: the workstation's coordinator  *)
(* (pipeline.py, reconcile and _resume_pending_attempt) calls the receiver *)
(* of the host (internal/receiver) over SSH. Either side may stop, calls   *)
(* are lost, and a call the coordinator gave up on may still be executed   *)
(* by the receiver later.                                                  *)
(*                                                                         *)
(*   vault      the content of the local vault                             *)
(*   release    the HomeOps release the workstation runs                   *)
(*   attempt    <state>/pending-attempt.json                               *)
(*   archive    the request whose archive is in <state>/pending-           *)
(*              submission.tar                                             *)
(*   co         the memory of a running reconcile                          *)
(*   wire       the receiver call the coordinator waits for                *)
(*   late       submit and commit calls nobody waits for anymore           *)
(*                                                                         *)
(* reported, confirmed and used are history variables: the results that    *)
(* last-result.json showed for finished attempts, the requests whose       *)
(* commit was sent while vault and release were still those of the         *)
(* attempt, and the request ids (uuid4) that were drawn.                   *)
(***************************************************************************)
EXTENDS PublicationHost

CONSTANTS MaxMoves,    \* bound on changes of the vault and of the release
          MaxLosses,   \* bound on lost calls, receiver errors, crashes and
                       \* overtaken publications
          MaxChoices   \* bound on promotions and rollbacks by operators

ASSUME PublicationAssumption ==
    /\ None \notin Requests
    /\ {MaxMoves, MaxLosses, MaxChoices} \subseteq Nat

VARIABLES vault, release, attempt, archive, co, wire, late,
          moves, losses, choices, reported, confirmed, used

bounds == <<moves, losses, choices>>
ghosts == <<reported, confirmed, used>>
coVars == <<vault, release, attempt, archive, co, wire, late, bounds, ghosts>>
vars == <<hostVars, coVars>>

Phases == {"PREPARED", "SUBMITTING", "SUBMITTED", "COMMITTING",
           "COMMIT_REQUESTED", "TERMINAL"}

Terminal == {"PROMOTED", "UNCHANGED"} \union Failures

Attempts == [phase : Phases, id : Requests, snap : Snapshots, rel : Releases,
             expected : Candidates \union {None}, cand : Candidates \union {None},
             outcome : Terminal \union {"NONE", "LOCAL_SOURCE_CHANGED", "PROMOTED_SOURCE_MOVED"}]

\* null in a file is neither a deployment nor an attempt.
ASSUME NullAssumption == None \notin Candidates \union Attempts

NoCall == [verb |-> "none", id |-> None, arg |-> None, step |-> 0, saw |-> FALSE,
           ans |-> NoResult]

Call(verb, r, a) == [NoCall EXCEPT !.verb = verb, !.id = r, !.arg = a]

Off == [pc |-> "off", id |-> None, snap |-> None, rel |-> None, expected |-> None,
        final |-> NoResult]

InitPublication ==
    /\ InitHost
    /\ vault \in Snapshots /\ release \in Releases
    /\ attempt = None /\ archive = None
    /\ co = Off /\ wire = NoCall /\ late = {}
    /\ moves = 0 /\ losses = 0 /\ choices = 0
    /\ reported = {} /\ confirmed = {} /\ used = {}

-----------------------------------------------------------------------------
(* The receiver: one process per call, whose coordinator may be gone *)

\* The process answers, to the coordinator or to nobody.
Reply(c, o, d) ==
    \/ c = wire /\ UNCHANGED late
       /\ wire' = [wire EXCEPT !.step = 9, !.ans = [outcome |-> o, cand |-> d]]
    \/ c \in late /\ late' = late \ {c} /\ UNCHANGED wire

GoOn(c, saw) ==
    LET d == [c EXCEPT !.step = 1, !.saw = saw]
    IN  \/ c = wire /\ wire' = d /\ UNCHANGED late
        \/ c \in late /\ late' = (late \ {c}) \union {d} /\ UNCHANGED wire

\* handleSubmit: the archive is published with one rename, or found to be
\* published already. Another submission may hold the namespace lock.
ReceiveSubmit(c) ==
    /\ c.verb = "submit" /\ c.step = 0
    /\ \/ /\ IF req[c.id] = None THEN Enqueue(c.id, c.arg) ELSE UNCHANGED hostVars
          /\ Reply(c, "ACCEPTED", None)
       \/ /\ c = wire /\ (\E l \in late : l.verb = "submit") /\ Reply(c, "REJECTED", None)
          /\ UNCHANGED hostVars
    /\ UNCHANGED <<vault, release, attempt, archive, co, bounds, ghosts>>

\* handleStatus looks for the commit marker before it reads the result.
ReceiveStatus(c) ==
    /\ c.verb = "status"
    /\ \/ c.step = 0 /\ GoOn(c, c.id \in marker)
       \/ c.step = 1 /\ Reply(c, result[c.id].outcome, result[c.id].cand)
    /\ UNCHANGED <<hostVars, vault, release, attempt, archive, co, bounds, ghosts>>

\* handleCommit: an existing marker is accepted, a candidate-ready result is
\* checked, and then the marker is linked.
ReceiveCommit(c) ==
    /\ c.verb = "commit"
    /\ \/ /\ c.step = 0 /\ c.id \in marker /\ Reply(c, "ACCEPTED", None)
          /\ UNCHANGED hostVars
       \/ /\ c.step = 0 /\ c.id \notin marker
          /\ IF result[c.id] = [outcome |-> "CANDIDATE_READY", cand |-> c.arg]
             THEN GoOn(c, FALSE) ELSE Reply(c, "REJECTED", None)
          /\ UNCHANGED hostVars
       \/ /\ c.step = 1 /\ Reply(c, "ACCEPTED", None)
          /\ marker' = marker \union {c.id}
          /\ UNCHANGED <<req, result, current, shown, seen, applied>>
    /\ UNCHANGED <<vault, release, attempt, archive, co, bounds, ghosts>>

ReceiveCurrent(c) ==
    /\ c.verb = "current" /\ c.step = 0
    /\ Reply(c, "CURRENT", shown)
    /\ UNCHANGED <<hostVars, vault, release, attempt, archive, co, bounds, ghosts>>

Receive(c) == ReceiveSubmit(c) \/ ReceiveStatus(c) \/ ReceiveCommit(c) \/ ReceiveCurrent(c)

\* A receiver process stops, or reports an I/O error before any effect.
ReceiverFault(c) ==
    /\ losses < MaxLosses /\ losses' = losses + 1
    /\ c.verb # "none" /\ c.step # 9
    /\ Reply(c, "REJECTED", None)
    /\ UNCHANGED <<hostVars, vault, release, attempt, archive, co, moves, choices, ghosts>>

-----------------------------------------------------------------------------
(* reconcile: one run of the coordinator *)

At(p) == co.pc = p

Goto(p) == co' = [co EXCEPT !.pc = p]

Ask(p, verb, r, a) == Goto(p) /\ wire' = Call(verb, r, a)

Answered(p) == At(p) /\ wire.step = 9

\* The run ends with an exception; the pending attempt is kept as it is.
Abandon == co' = Off /\ wire' = NoCall

\* _source_matches_pending and the comparison of the release policies.
SourceMatches == vault = attempt.snap
PolicyMatches == co.rel = attempt.rel

\* local_pipeline_lock admits one run at a time. Without a pending attempt
\* the vault is exported and the host asked for its current deployment.
StartAttempt ==
    /\ At("off") /\ attempt = None
    /\ Requests \ used # {}
    /\ co' = [Off EXCEPT !.pc = "preflight", !.snap = vault, !.rel = release]
    /\ wire' = Call("current", None, None)
    /\ UNCHANGED <<hostVars, vault, release, attempt, archive, late, bounds, ghosts>>

Shows(d, snap, rel) == d # None /\ d.snap = snap /\ d.rel = rel

Unchanged ==
    /\ Answered("preflight") /\ wire.ans.outcome = "CURRENT"
    /\ Shows(wire.ans.cand, co.snap, co.rel)
    /\ reported' = reported \union {[id |-> None, snap |-> co.snap, rel |-> co.rel,
                                     outcome |-> "UNCHANGED"]}
    /\ Abandon
    /\ UNCHANGED <<hostVars, vault, release, attempt, archive, late, bounds, confirmed, used>>

\* Mutant: the snapshot is submitted although the host shows it.
PersistArchiveAlways(r) ==
    /\ Answered("preflight") /\ wire.ans.outcome = "CURRENT"
    /\ r \notin used /\ used' = used \union {r}
    /\ archive' = r
    /\ co' = [co EXCEPT !.pc = "prepare", !.id = r, !.expected = wire.ans.cand]
    /\ wire' = NoCall
    /\ UNCHANGED <<hostVars, vault, release, attempt, late, bounds, reported, confirmed>>

\* The archive is made durable first, the attempt that points to it after.
PersistArchive(r) ==
    /\ Answered("preflight") /\ wire.ans.outcome = "CURRENT"
    /\ ~Shows(wire.ans.cand, co.snap, co.rel)
    /\ r \notin used /\ used' = used \union {r}
    /\ archive' = r
    /\ co' = [co EXCEPT !.pc = "prepare", !.id = r, !.expected = wire.ans.cand]
    /\ wire' = NoCall
    /\ UNCHANGED <<hostVars, vault, release, attempt, late, bounds, reported, confirmed>>

WriteAttempt ==
    /\ At("prepare")
    /\ attempt' = [phase |-> "PREPARED", id |-> co.id, snap |-> co.snap, rel |-> co.rel,
                   expected |-> co.expected, cand |-> None, outcome |-> "NONE"]
    /\ Goto("resume")
    /\ UNCHANGED <<hostVars, vault, release, archive, wire, late, bounds, ghosts>>

\* Mutant: a finished attempt needs its archive, too.
LoadAttemptWithArchive ==
    /\ At("off") /\ attempt # None
    /\ archive = attempt.id
    /\ co' = [Off EXCEPT !.pc = "resume", !.rel = release]
    /\ UNCHANGED <<hostVars, vault, release, attempt, archive, wire, late, bounds, ghosts>>

\* _load_pending_attempt insists on the archive of an unfinished attempt.
LoadAttempt ==
    /\ At("off") /\ attempt # None
    /\ attempt.phase = "TERMINAL" \/ archive = attempt.id
    /\ co' = [Off EXCEPT !.pc = "resume", !.rel = release]
    /\ UNCHANGED <<hostVars, vault, release, attempt, archive, wire, late, bounds, ghosts>>

-----------------------------------------------------------------------------
(* _resume_pending_attempt *)

Write(phase) == attempt' = [attempt EXCEPT !.phase = phase]

\* Mutant: the files are removed before the attempt is known to be over.
ConcludeUnrecorded(o) ==
    /\ attempt' = [attempt EXCEPT !.outcome = o]
    /\ Goto("resolve") /\ wire' = NoCall

\* _resolve_pending_attempt starts by recording the terminal result.
Conclude(o) ==
    /\ attempt' = [attempt EXCEPT !.phase = "TERMINAL", !.outcome = o]
    /\ Goto("resolve") /\ wire' = NoCall

Unsubmitted == {"PREPARED", "SUBMITTING"}

Withdraw ==
    /\ At("resume")
    /\ attempt.phase \in Unsubmitted \union {"SUBMITTED"}
    /\ ~(SourceMatches /\ PolicyMatches)
    /\ Conclude("LOCAL_SOURCE_CHANGED")
    /\ UNCHANGED <<hostVars, vault, release, archive, late, bounds, ghosts>>

Body == [snap |-> attempt.snap, rel |-> attempt.rel, expected |-> attempt.expected]

SendSubmit ==
    /\ At("resume") /\ attempt.phase \in Unsubmitted
    /\ SourceMatches /\ PolicyMatches
    /\ Write("SUBMITTING")
    /\ Ask("submit", "submit", attempt.id, Body)
    /\ UNCHANGED <<hostVars, vault, release, archive, late, bounds, ghosts>>

Poll == Ask("poll", "status", attempt.id, None)

Submitted ==
    /\ Answered("submit") /\ wire.ans.outcome = "ACCEPTED"
    /\ Write("SUBMITTED") /\ Poll
    /\ UNCHANGED <<hostVars, vault, release, archive, late, bounds, ghosts>>

ResumePolling ==
    /\ At("resume")
    /\ \/ attempt.phase = "SUBMITTED" /\ SourceMatches /\ PolicyMatches
       \/ attempt.phase \in {"COMMITTING", "COMMIT_REQUESTED"}
    /\ Poll
    /\ UNCHANGED <<hostVars, vault, release, attempt, archive, late, bounds, ghosts>>

\* _poll goes on while the result is pending, or not yet terminal although
\* the commit was requested, or gives up at its deadline.
KeepPolling ==
    /\ Answered("poll")
    /\ \/ wire.ans.outcome = "NONE"
       \/ wire.ans.outcome = "CANDIDATE_READY" /\ attempt.phase = "COMMIT_REQUESTED"
    /\ Poll \/ Abandon
    /\ UNCHANGED <<hostVars, vault, release, attempt, archive, late, bounds, ghosts>>

\* Mutant: the decision does not name its candidate.
DecideCommitBare ==
    /\ Answered("poll") /\ attempt.phase = "SUBMITTED"
    /\ wire.ans.outcome = "CANDIDATE_READY"
    /\ IF SourceMatches THEN Write("COMMITTING") /\ Poll
                        ELSE Conclude("LOCAL_SOURCE_CHANGED")
    /\ UNCHANGED <<hostVars, vault, release, archive, late, bounds, ghosts>>

\* The candidate is ready: the vault is compared again before the decision
\* to commit is written down.
DecideCommit ==
    /\ Answered("poll") /\ attempt.phase = "SUBMITTED"
    /\ wire.ans.outcome = "CANDIDATE_READY"
    /\ IF SourceMatches
       THEN /\ attempt' = [attempt EXCEPT !.phase = "COMMITTING", !.cand = wire.ans.cand]
            /\ Poll
       ELSE Conclude("LOCAL_SOURCE_CHANGED")
    /\ UNCHANGED <<hostVars, vault, release, archive, late, bounds, ghosts>>

\* Mutant: the commit is sent again without another look at the vault.
SendCommitBlindly ==
    /\ Answered("poll") /\ attempt.phase = "COMMITTING"
    /\ wire.ans.outcome = "CANDIDATE_READY"
    /\ \/ wire.saw /\ Write("COMMIT_REQUESTED") /\ Poll /\ UNCHANGED confirmed
       \/ /\ ~wire.saw
          /\ Ask("commit", "commit", attempt.id, attempt.cand) /\ UNCHANGED attempt
          /\ confirmed' = IF SourceMatches /\ PolicyMatches
                          THEN confirmed \union {attempt.id} ELSE confirmed
    /\ UNCHANGED <<hostVars, vault, release, archive, late, bounds, reported, used>>

\* A commit whose fate is unknown is looked up before it is sent again.
SendCommit ==
    /\ Answered("poll") /\ attempt.phase = "COMMITTING"
    /\ wire.ans.outcome = "CANDIDATE_READY"
    /\ \/ wire.saw /\ Write("COMMIT_REQUESTED") /\ Poll /\ UNCHANGED confirmed
       \/ /\ ~wire.saw /\ SourceMatches /\ PolicyMatches
          /\ Ask("commit", "commit", attempt.id, attempt.cand) /\ UNCHANGED attempt
          /\ confirmed' = confirmed \union {attempt.id}
       \/ /\ ~wire.saw /\ ~(SourceMatches /\ PolicyMatches)
          /\ Conclude("LOCAL_SOURCE_CHANGED") /\ UNCHANGED confirmed
    /\ UNCHANGED <<hostVars, vault, release, archive, late, bounds, reported, used>>

Committed ==
    /\ Answered("commit") /\ wire.ans.outcome = "ACCEPTED"
    /\ Write("COMMIT_REQUESTED") /\ Poll
    /\ UNCHANGED <<hostVars, vault, release, archive, late, bounds, ghosts>>

\* A failure is final as it is; a success is read back first.
TakeTerminal ==
    /\ Answered("poll") /\ wire.ans.outcome \in Terminal
    /\ IF wire.ans.outcome \in Failures
       THEN Conclude(wire.ans.outcome)
       ELSE /\ attempt.cand \in {None, wire.ans.cand}
            /\ co' = [co EXCEPT !.pc = "verify", !.final = wire.ans]
            /\ wire' = Call("current", None, None)
            /\ UNCHANGED attempt
    /\ UNCHANGED <<hostVars, vault, release, archive, late, bounds, ghosts>>

\* Mutant: only the deployment id is read back.
VerifiedLoosely ==
    /\ Answered("verify") /\ wire.ans.outcome = "CURRENT"
    /\ wire.ans.cand = co.final.cand
    /\ Conclude(co.final.outcome)
    /\ UNCHANGED <<hostVars, vault, release, archive, late, bounds, ghosts>>

\* The selected deployment is exactly the one that was reported, and carries
\* the snapshot and the release of the attempt.
Verified ==
    /\ Answered("verify") /\ wire.ans.outcome = "CURRENT"
    /\ wire.ans.cand = co.final.cand
    /\ Shows(wire.ans.cand, attempt.snap, attempt.rel)
    /\ Conclude(IF /\ co.final.outcome = "PROMOTED"
                   /\ ~SourceMatches \/ (attempt.phase = "COMMITTING" /\ ~PolicyMatches)
                THEN "PROMOTED_SOURCE_MOVED" ELSE co.final.outcome)
    /\ UNCHANGED <<hostVars, vault, release, archive, late, bounds, ghosts>>

\* Mutant: a rejected call resolves the attempt.
GiveUpResolving ==
    /\ wire.step = 9 /\ wire.ans.outcome = "REJECTED" /\ attempt # None
    /\ Conclude("PROMOTION_CONFLICT")
    /\ UNCHANGED <<hostVars, vault, release, archive, late, bounds, ghosts>>

\* Mutant: an attempt that cannot be verified is forgotten.
GiveUpForgetting ==
    /\ Answered("verify") /\ wire.ans.cand # co.final.cand
    /\ Abandon
    /\ attempt' = None /\ archive' = None
    /\ UNCHANGED <<hostVars, vault, release, late, bounds, ghosts>>

\* POST_PROMOTION_MISMATCH, and every call the receiver rejected. The attempt
\* stays pending: the interim last-result.json that _pending_failure writes
\* (pipeline.py:1038) is left out, because no step reads it, and reported holds
\* the results of finished attempts.
GiveUp ==
    /\ \/ Answered("verify") /\ ~( /\ wire.ans.outcome = "CURRENT"
                                  /\ wire.ans.cand = co.final.cand
                                  /\ Shows(wire.ans.cand, attempt.snap, attempt.rel))
       \/ wire.step = 9 /\ wire.ans.outcome = "REJECTED"
    /\ Abandon
    /\ UNCHANGED <<hostVars, vault, release, attempt, archive, late, bounds, ghosts>>

-----------------------------------------------------------------------------
(* _resolve_pending_attempt: result, archive, attempt, in this order *)

ResumeTerminal ==
    /\ At("resume") /\ attempt.phase = "TERMINAL"
    /\ Goto("resolve")
    /\ UNCHANGED <<hostVars, vault, release, attempt, archive, wire, late, bounds, ghosts>>

WriteLastResult ==
    /\ At("resolve")
    /\ reported' = reported \union {[id |-> attempt.id, snap |-> attempt.snap,
                                     rel |-> attempt.rel, outcome |-> attempt.outcome]}
    /\ Goto("retire")
    /\ UNCHANGED <<hostVars, vault, release, attempt, archive, wire, late, bounds, confirmed, used>>

RemoveArchive ==
    /\ At("retire")
    /\ archive' = None
    /\ Goto("forget")
    /\ UNCHANGED <<hostVars, vault, release, attempt, wire, late, bounds, ghosts>>

RemoveAttempt ==
    /\ At("forget")
    /\ attempt' = None
    /\ co' = Off
    /\ UNCHANGED <<hostVars, vault, release, archive, wire, late, bounds, ghosts>>

CoordinatorStep ==
    \/ StartAttempt \/ Unchanged \/ (\E r \in Requests : PersistArchive(r)) \/ WriteAttempt
    \/ LoadAttempt \/ Withdraw \/ SendSubmit \/ Submitted \/ ResumePolling \/ KeepPolling
    \/ DecideCommit \/ SendCommit \/ Committed \/ TakeTerminal \/ Verified \/ GiveUp
    \/ ResumeTerminal \/ WriteLastResult \/ RemoveArchive \/ RemoveAttempt

\* A call times out, its answer is lost, or the coordinator stops anywhere. A
\* submit or commit that reached the receiver goes on without it.
Interrupt ==
    /\ ~At("off")
    /\ losses < MaxLosses /\ losses' = losses + 1
    /\ co' = Off /\ wire' = NoCall
    /\ \/ wire.verb \in {"submit", "commit"} /\ wire.step # 9 /\ late' = late \union {wire}
       \/ UNCHANGED late
    /\ UNCHANGED <<hostVars, vault, release, attempt, archive, moves, choices, ghosts>>

-----------------------------------------------------------------------------
(* Everything else *)

\* Somebody edits the vault or installs another release.
Move ==
    /\ moves < MaxMoves /\ moves' = moves + 1
    /\ \/ vault' \in Snapshots \ {vault} /\ UNCHANGED release
       \/ release' \in Releases \ {release} /\ UNCHANGED vault
    /\ UNCHANGED <<hostVars, attempt, archive, co, wire, late, losses, choices, ghosts>>

Operate ==
    /\ choices < MaxChoices /\ choices' = choices + 1
    /\ \E d \in Candidates \ {current} : Choose(d)
    /\ UNCHANGED <<vault, release, attempt, archive, co, wire, late, moves, losses, ghosts>>

Process(r) == (Answer(r) \/ Apply(r) \/ Finish(r)) /\ UNCHANGED coVars

ShowCurrent == shown # current /\ Show(current) /\ UNCHANGED coVars

\* An unlocked publication that was overtaken shows an earlier deployment.
ShowLate ==
    /\ losses < MaxLosses /\ losses' = losses + 1
    /\ \E d \in (seen \union {None}) \ {shown, current} : Show(d)
    /\ UNCHANGED <<vault, release, attempt, archive, co, wire, late, moves, choices, ghosts>>

NextPublication ==
    \/ CoordinatorStep \/ Interrupt
    \/ \E c \in late \union {wire} : Receive(c) \/ ReceiverFault(c)
    \/ \E r \in Requests : Process(r)
    \/ ShowCurrent \/ ShowLate
    \/ Move \/ Operate

SpecPublication == InitPublication /\ [][NextPublication]_vars

\* The timer starts the coordinator again and again, a call that is not lost
\* is served, a receiver process nobody waits for ends, and the processor of
\* the host keeps running (RemoteProcessor shows that this answers and settles
\* requests and that the projection converges). Operators and editors owe
\* nothing.
FairPublication ==
    /\ SpecPublication
    /\ WF_vars(CoordinatorStep)
    /\ WF_vars(Receive(wire))
    /\ WF_vars((\E c \in late : Receive(c)) /\ UNCHANGED wire)
    /\ \A r \in Requests : WF_vars(Process(r))
    /\ WF_vars(ShowCurrent)

-----------------------------------------------------------------------------
(* Properties *)

\* Types, and the contract that _validate_pending_attempt enforces on every
\* read and write: a violation would make the attempt unreadable for good.
PublicationTypeOK ==
    /\ marker \subseteq Requests /\ applied \subseteq Requests
    /\ \A r \in Requests : result[r].outcome \in Outcomes
    /\ archive \in Requests \union {None}
    /\ attempt # None =>
         /\ attempt \in Attempts
         /\ attempt.phase \in {"COMMITTING", "COMMIT_REQUESTED"} => attempt.cand # None
         /\ attempt.phase = "TERMINAL" <=> attempt.outcome # "NONE"

\* An attempt that is not finished can always be loaded: its archive is there,
\* whatever crashed between the file operations.
ArchiveAvailable ==
    attempt # None /\ attempt.phase # "TERMINAL" => archive = attempt.id

\* What last-result.json says was published, was selected on the host: the
\* snapshot and the release of the attempt, not of some other deployment.
ReportsAreTrue ==
    \A x \in reported : x.outcome \in {"PROMOTED", "PROMOTED_SOURCE_MOVED", "UNCHANGED"} =>
        \E d \in seen : Shows(d, x.snap, x.rel)

\* An attempt is reported once, and unless it was withdrawn the report is the
\* final result of the host, across crashes between result and cleanup.
ReportsMatchResults ==
    \A x \in reported : x.id # None =>
        /\ \A y \in reported : y.id = x.id => y = x
        /\ \/ x.outcome = "LOCAL_SOURCE_CHANGED"
           \/ x.outcome = result[x.id].outcome
           \/ x.outcome = "PROMOTED_SOURCE_MOVED" /\ result[x.id].outcome = "PROMOTED"

\* A commit marker exists only for a request whose snapshot and release were
\* those of the workstation when the commit was sent, its candidate being
\* ready: also for commits sent again after a crash, and for late ones.
AuthorizedWasConfirmed == marker \subseteq confirmed

\* The coordinator never loses sight of a commit it sent: until the request
\* is reported, it is the pending attempt.
CommitsAreFollowed ==
    \A r \in marker : \/ attempt # None /\ attempt.id = r
                      \/ \E x \in reported : x.id = r

\* The coordinator and the receiver use the host as PublicationHost says: a
\* request is queued once, over a deployment that was shown and differs from
\* what it asks for, also when a submission is repeated or late, and a marker
\* is linked only while the result is candidate-ready, although the receiver
\* links it some time after it looked.
RespectsHost == Spec

\* Every attempt comes to an end, through crashes, lost calls and changes of
\* the vault: the next one can start.
AttemptsResolve == attempt # None ~> attempt = None

\* The published deployment was replaced before the coordinator read it back,
\* or the request was answered with one of another release.
Replaced ==
    /\ attempt # None /\ attempt.phase # "TERMINAL"
    /\ result[attempt.id].outcome \in {"PROMOTED", "UNCHANGED"}
    /\ ~(shown = result[attempt.id].cand /\ Shows(shown, attempt.snap, attempt.rel))

\* Also when operators act, nothing but such a replacement that stays keeps
\* an attempt from coming to an end.
ResolvesUnlessReplaced == []<>(attempt = None) \/ <>[]Replaced
=============================================================================
