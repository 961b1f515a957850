-------------------------- MODULE PublicationProofs --------------------------
(***************************************************************************)
(* Proofs about Publication for every set of requests, snapshots, releases *)
(* and runs and every number of moves, losses and choices. PublicationInv  *)
(* is the inductive invariant: what the host promises for good (HostInv),  *)
(* what a call that is on its way may still say or do (CallOK), what the   *)
(* coordinator knows at each of its steps (CoInv, WireInv), and what its   *)
(* files say (AttemptInv, ReportInv, CommitInv).                           *)
(***************************************************************************)
EXTENDS Publication, TLAPS

Results == [outcome : Outcomes, cand : Candidates \union {None}]

\* What the host keeps: a candidate that is ready has a deployment, and what
\* is selected or shown was selected once.
HostInv ==
    /\ req \in [Requests -> [snap : Snapshots, rel : Releases,
                             expected : Candidates \union {None}] \union {None}]
    /\ result \in [Requests -> Results]
    /\ \A r \in Requests : result[r].outcome = "CANDIDATE_READY" => result[r].cand # None
    /\ marker \subseteq Requests /\ applied \subseteq Requests
    /\ seen \subseteq Candidates
    /\ current \in seen \union {None} /\ shown \in seen \union {None}

-----------------------------------------------------------------------------
(* Calls *)

Verbs == {"none", "submit", "status", "commit", "current"}

Args == [snap : Snapshots, rel : Releases, expected : Candidates \union {None}]
            \union Candidates \union {None}

Calls == [verb : Verbs, id : Requests \union {None}, arg : Args, step : {0, 1, 9},
          saw : BOOLEAN,
          ans : [outcome : Outcomes \union {"ACCEPTED", "REJECTED", "CURRENT"},
                 cand : Candidates \union {None}]]

\* What a call may rely on, whenever it is executed, and what its answer says.
CallOK(c) ==
    /\ c.verb = "submit" => c.id \in Requests /\ c.arg \in Bodies
    /\ c.verb = "status" => c.id \in Requests
    /\ c.verb = "commit" => /\ c.id \in confirmed
                            /\ c.step = 1 => \/ c.id \in marker
                                             \/ result[c.id].outcome = "CANDIDATE_READY"
    /\ c.verb = "status" /\ c.step = 9 =>
           /\ c.ans.outcome \in Outcomes \union {"REJECTED"}
           /\ c.ans.outcome \in Terminal => result[c.id] = c.ans
           /\ c.ans.outcome = "CANDIDATE_READY" => c.ans.cand # None
    /\ c.verb = "current" /\ c.step = 9 => c.ans.outcome \in {"CURRENT", "REJECTED"}
    /\ c.verb = "current" /\ c.step = 9 /\ c.ans.outcome = "CURRENT" =>
           c.ans.cand \in seen \union {None}

\* Only submissions and commits outlive the coordinator that sent them.
CallsInv ==
    /\ wire \in Calls /\ CallOK(wire)
    /\ late \subseteq Calls
    /\ \A c \in late : CallOK(c) /\ c.verb \in {"submit", "commit"} /\ c.step # 9

-----------------------------------------------------------------------------
(* The coordinator *)

Working == {"resume", "submit", "poll", "commit", "verify", "resolve", "retire", "forget"}

Memory == [pc : {"off", "preflight", "prepare"} \union Working, id : Requests \union {None},
           snap : Snapshots \union {None}, rel : Releases \union {None},
           expected : Candidates \union {None}, final : Results]

Reports == [id : Requests \union {None}, snap : Snapshots, rel : Releases,
            outcome : Terminal \union {"NONE", "LOCAL_SOURCE_CHANGED", "PROMOTED_SOURCE_MOVED"}]

ReportOf(a) == [id |-> a.id, snap |-> a.snap, rel |-> a.rel, outcome |-> a.outcome]

\* o is a final outcome of request r, or r was withdrawn.
OutcomeOK(r, o) ==
    \/ o = "LOCAL_SOURCE_CHANGED"
    \/ o \in Terminal /\ o = result[r].outcome
    \/ o = "PROMOTED_SOURCE_MOVED" /\ result[r].outcome = "PROMOTED"

\* A success is said only of a snapshot and a release that were selected.
TrueOutcome(snap, rel, o) ==
    o \in {"PROMOTED", "PROMOTED_SOURCE_MOVED", "UNCHANGED"} =>
        \E d \in seen : Shows(d, snap, rel)

Expects(d, snap, rel) == d \in seen \union {None} /\ ~Shows(d, snap, rel)

Unreported(r) == \A x \in reported : x.id # r

LocalTypes ==
    /\ vault \in Snapshots /\ release \in Releases
    /\ archive \in Requests \union {None}
    /\ used \subseteq Requests

\* The pending attempt: the contract of its file, its archive, and how it
\* stands to the host and to what was reported.
AttemptInv ==
    attempt # None =>
        /\ attempt \in Attempts /\ attempt.id \in used
        /\ Expects(attempt.expected, attempt.snap, attempt.rel)
        /\ attempt.phase \in {"COMMITTING", "COMMIT_REQUESTED"} => attempt.cand # None
        /\ attempt.phase = "TERMINAL" <=> attempt.outcome # "NONE"
        /\ attempt.phase # "TERMINAL" => archive = attempt.id /\ Unreported(attempt.id)
        /\ attempt.phase = "TERMINAL" =>
               /\ OutcomeOK(attempt.id, attempt.outcome)
               /\ TrueOutcome(attempt.snap, attempt.rel, attempt.outcome)
               /\ \A x \in reported : x.id = attempt.id => x = ReportOf(attempt)

ReportInv ==
    /\ reported \subseteq Reports
    /\ \A x \in reported :
         /\ TrueOutcome(x.snap, x.rel, x.outcome)
         /\ x.id # None => /\ x.id \in used /\ OutcomeOK(x.id, x.outcome)
                           /\ \A y \in reported : y.id = x.id => y = x

CommitInv ==
    /\ marker \subseteq confirmed /\ confirmed \subseteq used
    /\ \A r \in confirmed : \/ attempt # None /\ attempt.id = r
                            \/ \E x \in reported : x.id = r

\* What a run of the coordinator knows at each of its steps.
CoInv ==
    /\ co \in Memory
    /\ co.pc \in {"preflight", "prepare"} =>
           attempt = None /\ co.snap \in Snapshots /\ co.rel \in Releases
    /\ co.pc = "prepare" => /\ co.id \in used /\ archive = co.id /\ Unreported(co.id)
                            /\ Expects(co.expected, co.snap, co.rel)
    /\ co.pc \in Working => attempt # None
    /\ co.pc = "submit" => attempt.phase = "SUBMITTING"
    /\ co.pc \in {"poll", "verify"} =>
           attempt.phase \in {"SUBMITTED", "COMMITTING", "COMMIT_REQUESTED"}
    /\ co.pc = "commit" => attempt.phase = "COMMITTING"
    /\ co.pc \in {"resolve", "retire", "forget"} => attempt.phase = "TERMINAL"
    /\ co.pc = "verify" => /\ co.final.outcome \in {"PROMOTED", "UNCHANGED"}
                           /\ result[attempt.id] = co.final
    /\ co.pc \in {"retire", "forget"} => ReportOf(attempt) \in reported

\* Which call a run waits for.
WireInv ==
    /\ co.pc \in {"preflight", "verify"} => wire.verb = "current"
    /\ co.pc = "submit" => wire.verb = "submit"
    /\ co.pc = "poll" => wire.verb = "status" /\ wire.id = attempt.id
    /\ co.pc = "commit" => wire.verb = "commit"
    /\ co.pc \in {"off", "prepare", "resume", "resolve", "retire", "forget"} => wire = NoCall

PublicationInv ==
    /\ HostInv /\ CallsInv /\ LocalTypes
    /\ AttemptInv /\ ReportInv /\ CommitInv /\ CoInv /\ WireInv

-----------------------------------------------------------------------------
(* What a step of the host never takes back *)

HostKeeps ==
    /\ seen \subseteq seen' /\ marker \subseteq marker'
    /\ \A r \in Requests :
         /\ result[r].outcome \in Terminal => result'[r] = result[r]
         /\ result[r].outcome = "CANDIDATE_READY" =>
                r \in marker' \/ result'[r].outcome = "CANDIDATE_READY"

\* Writing a result keeps the types; a terminal one is never rewritten, and a
\* ready candidate only after its commit was authorized.
LEMMA SettleKeeps ==
    ASSUME HostInv, NEW r \in Requests, NEW o \in Outcomes, NEW d \in Candidates \union {None},
           o = "CANDIDATE_READY" => d # None,
           result[r].outcome \notin Terminal,
           result[r].outcome = "CANDIDATE_READY" => r \in marker,
           Settle(r, o, d)
    PROVE  HostInv' /\ HostKeeps
<1> DEFINE x == [outcome |-> o, cand |-> d]
<1>1. x \in Results /\ x.outcome = o /\ x.cand = d
  BY DEF Results
<1> HIDE DEF x
<1>2. /\ result' = [result EXCEPT ![r] = x]
      /\ UNCHANGED <<req, marker, current, shown, seen, applied>>
  BY DEF Settle, x
<1>3. /\ result' \in [Requests -> Results] /\ result'[r] = x
      /\ \A q \in Requests \ {r} : result'[q] = result[q]
  BY <1>1, <1>2 DEF HostInv
<1>4. HostInv'
  BY <1>1, <1>2, <1>3 DEF HostInv
<1>5. HostKeeps
  BY <1>2, <1>3 DEF HostKeeps
<1>6. QED BY <1>4, <1>5

LEMMA HostStep ==
    ASSUME HostInv,
           \/ \E r \in Requests : Answer(r) \/ Apply(r) \/ Finish(r)
           \/ \E d \in Candidates : Choose(d)
           \/ \E d \in seen \union {None} : Show(d)
           \/ UNCHANGED hostVars
    PROVE  HostInv' /\ HostKeeps /\ marker' = marker
<1>0. "NONE" \notin Terminal /\ "CANDIDATE_READY" \notin Terminal /\ Failures \subseteq Outcomes
  BY DEF Terminal, Failures, Outcomes
<1>1. ASSUME NEW r \in Requests, Answer(r)
      PROVE  HostInv' /\ HostKeeps /\ marker' = marker
  <2>1. result[r].outcome = "NONE"
    BY <1>1 DEF Answer, NoResult
  <2>2. PICK o \in Outcomes, d \in Candidates \union {None} :
            Settle(r, o, d) /\ (o = "CANDIDATE_READY" => d # None)
    BY <1>1, <1>0, NullAssumption DEF Answer, HostInv, Outcomes, Failures
  <2>3. marker' = marker
    BY <2>2 DEF Settle
  <2>4. QED BY <1>0, <2>1, <2>2, <2>3, SettleKeeps
<1>2. ASSUME NEW r \in Requests, Finish(r)
      PROVE  HostInv' /\ HostKeeps /\ marker' = marker
  <2>1. result[r].outcome = "CANDIDATE_READY" /\ r \in marker
    BY <1>2 DEF Finish
  <2>2. PICK o \in Outcomes : Settle(r, o, result[r].cand) /\ o # "CANDIDATE_READY"
    BY <1>2 DEF Finish, Outcomes, Failures
  <2>3. result[r].cand \in Candidates \union {None}
    BY DEF HostInv, Results
  <2>4. PICK d \in Candidates \union {None} : Settle(r, o, d)
    BY <2>2, <2>3
  <2>5. marker' = marker
    BY <2>4 DEF Settle
  <2>6. QED BY <1>0, <2>1, <2>2, <2>4, <2>5, SettleKeeps
<1>3. ASSUME NEW r \in Requests, Apply(r)
      PROVE  HostInv' /\ HostKeeps /\ marker' = marker
  <2>1. result[r].cand \in Candidates
    BY <1>3 DEF Apply, HostInv, Results
  <2>2. QED BY <1>3, <2>1 DEF Apply, HostInv, HostKeeps
<1>4. ASSUME NEW d \in Candidates, Choose(d)
      PROVE  HostInv' /\ HostKeeps /\ marker' = marker
  BY <1>4 DEF Choose, HostInv, HostKeeps
<1>5. ASSUME NEW d \in seen \union {None}, Show(d)
      PROVE  HostInv' /\ HostKeeps /\ marker' = marker
  BY <1>5 DEF Show, HostInv, HostKeeps
<1>6. CASE UNCHANGED hostVars
  BY <1>6 DEF hostVars, HostInv, HostKeeps
<1>7. QED BY <1>1, <1>2, <1>3, <1>4, <1>5, <1>6

\* A call stays what it is while the host goes on.
LEMMA CallKept ==
    ASSUME HostInv, CommitInv, LocalTypes, HostKeeps, confirmed \subseteq confirmed',
           NEW c \in Calls, CallOK(c)
    PROVE  CallOK(c)'
<1>1. confirmed \subseteq Requests
  BY DEF CommitInv, LocalTypes
<1>2. Bodies \subseteq Bodies'
  BY DEF Bodies, HostKeeps
<1>3. QED BY <1>1, <1>2 DEF CallOK, HostKeeps, HostInv

\* The coordinator's files and memory stay true while the host goes on.
LEMMA FilesKept ==
    ASSUME PublicationInv, HostKeeps, marker' \subseteq confirmed,
           UNCHANGED <<attempt, archive, co, reported, confirmed, used>>
    PROVE  AttemptInv' /\ ReportInv' /\ CommitInv' /\ CoInv'
<1>1. \A snap, rel, o : TrueOutcome(snap, rel, o) => TrueOutcome(snap, rel, o)'
  BY DEF TrueOutcome, Shows, HostKeeps
<1>2. \A r \in Requests : \A o : OutcomeOK(r, o) => OutcomeOK(r, o)'
  BY DEF OutcomeOK, HostKeeps, Terminal
<1>3. \A d, snap, rel : Expects(d, snap, rel) => Expects(d, snap, rel)'
  BY DEF Expects, Shows, HostKeeps
<1>4. AttemptInv'
  <2>1. attempt # None => attempt.id \in Requests
    BY DEF PublicationInv, AttemptInv, Attempts
  <2>2. QED BY <1>1, <1>2, <1>3, <2>1 DEF PublicationInv, AttemptInv, Unreported
<1>5. ReportInv'
  <2>1. \A x \in reported : x.id # None => x.id \in Requests
    BY DEF PublicationInv, ReportInv, LocalTypes
  <2>2. QED BY <1>1, <1>2, <2>1 DEF PublicationInv, ReportInv
<1>6. CommitInv'
  BY DEF PublicationInv, CommitInv
<1>7. CoInv'
  <2>1. co.pc = "verify" => attempt.id \in Requests /\ co.final.outcome \in Terminal
    BY DEF PublicationInv, CoInv, AttemptInv, Attempts, Working, Terminal
  <2>2. QED BY <1>3, <2>1 DEF PublicationInv, CoInv, Unreported, HostKeeps
<1>8. QED BY <1>4, <1>5, <1>6, <1>7

\* The steps of the host, of operators and of editors: none of them touches
\* the files of the coordinator or a call.
LEMMA EnvironmentStep ==
    ASSUME PublicationInv, HostInv', HostKeeps, marker' = marker,
           vault' \in Snapshots, release' \in Releases,
           UNCHANGED <<attempt, archive, co, wire, late, reported, confirmed, used>>
    PROVE  PublicationInv'
<1>1. AttemptInv' /\ ReportInv' /\ CommitInv' /\ CoInv'
  BY FilesKept DEF PublicationInv, CommitInv
<1>2. \A c \in late \union {wire} : c \in Calls /\ CallOK(c)'
  <2>1. ASSUME NEW c \in late \union {wire}
        PROVE  c \in Calls /\ CallOK(c)
    BY DEF PublicationInv, CallsInv
  <2>2. ASSUME NEW c \in late \union {wire}
        PROVE  CallOK(c)'
    BY <2>1, CallKept DEF PublicationInv
  <2>3. QED BY <2>1, <2>2
<1>3. CallsInv'
  BY <1>2 DEF PublicationInv, CallsInv
<1>4. LocalTypes' /\ WireInv'
  BY DEF PublicationInv, LocalTypes, WireInv
<1>5. QED BY <1>1, <1>3, <1>4 DEF PublicationInv

-----------------------------------------------------------------------------
(* The receiver *)

\* A process that answers or goes on keeps every other call as it is.
LEMMA ReplyStep ==
    ASSUME PublicationInv, HostInv', HostKeeps, marker' \subseteq confirmed,
           UNCHANGED <<vault, release, attempt, archive, co, reported, confirmed, used>>,
           NEW c \in late \union {wire}, c.verb # "none",
           NEW o \in Outcomes \union {"ACCEPTED", "REJECTED", "CURRENT"},
           NEW d \in Candidates \union {None},
           c.verb = "status" => /\ o \in Outcomes \union {"REJECTED"}
                                /\ o \in Terminal => result'[c.id] = [outcome |-> o, cand |-> d]
                                /\ o = "CANDIDATE_READY" => d # None,
           c.verb = "current" => /\ o \in {"CURRENT", "REJECTED"}
                                 /\ o = "CURRENT" => d \in seen' \union {None},
           Reply(c, o, d)
    PROVE  PublicationInv'
<1> DEFINE a == [outcome |-> o, cand |-> d]
           e == [c EXCEPT !.step = 9, !.ans = a]
<1>1. AttemptInv' /\ ReportInv' /\ CommitInv' /\ CoInv'
  BY FilesKept DEF PublicationInv
<1>2. \A b \in late \union {wire} : b \in Calls /\ CallOK(b) /\ CallOK(b)'
  <2>1. ASSUME NEW b \in late \union {wire}
        PROVE  b \in Calls /\ CallOK(b)
    BY DEF PublicationInv, CallsInv
  <2>2. ASSUME NEW b \in late \union {wire}
        PROVE  CallOK(b)'
    BY <2>1, CallKept DEF PublicationInv
  <2>3. QED BY <2>1, <2>2
<1>3. /\ e \in Calls /\ e.step = 9 /\ e.ans = a /\ a.outcome = o /\ a.cand = d
      /\ e.verb = c.verb /\ e.id = c.id /\ e.arg = c.arg
  BY <1>2 DEF Calls
<1>4. CallOK(e)'
  <2>1. CallOK(c)'
    BY <1>2
  <2> HIDE DEF e, a
  <2>2. c.verb = "status" /\ o \in Terminal => result'[c.id] = a
    BY DEF a
  <2>3. QED BY <1>3, <2>1, <2>2 DEF CallOK
<1> HIDE DEF e
<1>5. CallsInv' /\ WireInv'
  <2>1. CASE c = wire /\ late' = late /\ wire' = e
    <3>1. CallOK(wire)'
      BY <1>4, <2>1 DEF CallOK
    <3>2. CallsInv'
      BY <1>2, <1>3, <2>1, <3>1 DEF PublicationInv, CallsInv
    <3>3. wire.verb # "none" => wire # NoCall
      BY DEF NoCall
    <3>4. WireInv'
      BY <1>3, <2>1, <3>3 DEF PublicationInv, WireInv
    <3>5. QED BY <3>2, <3>4
  <2>2. CASE c \in late /\ late' = late \ {c} /\ UNCHANGED wire
    BY <1>2, <2>2 DEF PublicationInv, CallsInv, WireInv
  <2>3. QED BY <2>1, <2>2 DEF Reply, e
<1>6. LocalTypes'
  BY DEF PublicationInv, LocalTypes
<1>7. QED BY <1>1, <1>5, <1>6 DEF PublicationInv

LEMMA GoOnStep ==
    ASSUME PublicationInv, UNCHANGED hostVars,
           UNCHANGED <<vault, release, attempt, archive, co, reported, confirmed, used>>,
           NEW c \in late \union {wire}, c.verb \in {"status", "commit"},
           c.verb = "commit" => result[c.id].outcome = "CANDIDATE_READY",
           NEW saw \in BOOLEAN, GoOn(c, saw)
    PROVE  PublicationInv'
<1> DEFINE e == [c EXCEPT !.step = 1, !.saw = saw]
<1>0. HostInv' /\ HostKeeps /\ marker' = marker
  BY HostStep DEF PublicationInv
<1>1. AttemptInv' /\ ReportInv' /\ CommitInv' /\ CoInv'
  BY <1>0, FilesKept DEF PublicationInv, CommitInv
<1>2. \A b \in late \union {wire} : b \in Calls /\ CallOK(b) /\ CallOK(b)'
  <2>1. ASSUME NEW b \in late \union {wire}
        PROVE  b \in Calls /\ CallOK(b)
    BY DEF PublicationInv, CallsInv
  <2>2. ASSUME NEW b \in late \union {wire}
        PROVE  CallOK(b)'
    BY <1>0, <2>1, CallKept DEF PublicationInv
  <2>3. QED BY <2>1, <2>2
<1>3. e \in Calls /\ e.step = 1 /\ e.verb = c.verb /\ e.id = c.id /\ e.arg = c.arg
  BY <1>2 DEF Calls
<1> HIDE DEF e
<1>4. CallOK(e)'
  <2>1. CallOK(c)' /\ result' = result
    BY <1>2 DEF hostVars
  <2>2. QED BY <1>3, <2>1 DEF CallOK
<1>5. CallsInv' /\ WireInv'
  <2>1. CASE c = wire /\ late' = late /\ wire' = e
    <3>1. CallOK(wire)'
      BY <1>4, <2>1 DEF CallOK
    <3>2. CallsInv'
      BY <1>2, <1>3, <2>1, <3>1 DEF PublicationInv, CallsInv
    <3>3. wire.verb # "none" => wire # NoCall
      BY DEF NoCall
    <3>4. WireInv'
      BY <1>3, <2>1, <3>3 DEF PublicationInv, WireInv
    <3>5. QED BY <3>2, <3>4
  <2>2. CASE c \in late /\ late' = (late \ {c}) \union {e} /\ UNCHANGED wire
    BY <1>2, <1>3, <1>4, <2>2 DEF PublicationInv, CallsInv, WireInv
  <2>3. QED BY <2>1, <2>2 DEF GoOn, e
<1>6. LocalTypes'
  BY DEF PublicationInv, LocalTypes
<1>7. QED BY <1>0, <1>1, <1>5, <1>6 DEF PublicationInv

\* A call that is served keeps the invariant, whenever it is served.
LEMMA ReceiveStep ==
    ASSUME PublicationInv, NEW c \in late \union {wire}, Receive(c) \/ ReceiverFault(c)
    PROVE  PublicationInv'
<1>1. c \in Calls /\ CallOK(c)
  BY DEF PublicationInv, CallsInv
<1>2. /\ UNCHANGED <<vault, release, attempt, archive, co, reported, confirmed, used>>
      /\ c.verb # "none"
  BY DEF Receive, ReceiveSubmit, ReceiveStatus, ReceiveCommit, ReceiveCurrent, ReceiverFault,
         ghosts
<1>3. ASSUME UNCHANGED hostVars
      PROVE  HostInv' /\ HostKeeps /\ marker' \subseteq confirmed
  BY <1>3, HostStep DEF PublicationInv, CommitInv
<1>4. "ACCEPTED" \notin Outcomes /\ {"ACCEPTED", "REJECTED", "CURRENT"} \intersect Terminal = {}
      /\ "REJECTED" # "CANDIDATE_READY"
  BY DEF Outcomes, Terminal, Failures
<1>5. CASE ReceiveSubmit(c)
  <2>1. c.verb = "submit" /\ c.id \in Requests /\ c.arg \in Bodies
    BY <1>1, <1>5 DEF ReceiveSubmit, CallOK
  <2>2. HostInv' /\ HostKeeps /\ marker' \subseteq confirmed
    <3>1. CASE Enqueue(c.id, c.arg)
      <4>1. c.arg \in [snap : Snapshots, rel : Releases, expected : Candidates \union {None}]
        BY <2>1 DEF Bodies, PublicationInv, HostInv
      <4>2. QED BY <2>1, <3>1, <4>1 DEF Enqueue, PublicationInv, HostInv, HostKeeps, CommitInv
    <3>2. QED BY <1>3, <1>5, <3>1 DEF ReceiveSubmit
  <2>3. PICK o \in {"ACCEPTED", "REJECTED"} : Reply(c, o, None)
    BY <1>5 DEF ReceiveSubmit
  <2>4. QED BY <1>2, <2>1, <2>2, <2>3, ReplyStep
<1>6. CASE ReceiveStatus(c)
  <2>1. UNCHANGED hostVars /\ c.verb = "status" /\ c.id \in Requests
    BY <1>1, <1>6 DEF ReceiveStatus, CallOK
  <2>2. CASE GoOn(c, c.id \in marker)
    <3>1. \E saw \in BOOLEAN : GoOn(c, saw)
      <4>1. WITNESS (c.id \in marker) \in BOOLEAN
      <4>2. QED BY <2>2, Zenon
    <3>2. QED BY <1>2, <2>1, <3>1, GoOnStep
  <2>3. CASE Reply(c, result[c.id].outcome, result[c.id].cand)
    <3>1. PICK o, d : o = result[c.id].outcome /\ d = result[c.id].cand /\ Reply(c, o, d)
      BY <2>3
    <3>2. /\ o \in Outcomes /\ d \in Candidates \union {None}
          /\ o = "CANDIDATE_READY" => d # None
          /\ result[c.id] = [outcome |-> o, cand |-> d]
      BY <2>1, <3>1 DEF PublicationInv, HostInv, Results
    <3>3. result'[c.id] = [outcome |-> o, cand |-> d]
      BY <2>1, <3>2 DEF hostVars
    <3>4. QED BY <1>2, <1>3, <2>1, <3>1, <3>2, <3>3, ReplyStep
  <2>4. QED BY <1>6, <2>2, <2>3 DEF ReceiveStatus
<1>7. CASE ReceiveCommit(c)
  <2>1. c.verb = "commit" /\ c.id \in confirmed
    BY <1>1, <1>7 DEF ReceiveCommit, CallOK
  <2>2. CASE UNCHANGED hostVars /\ GoOn(c, FALSE) /\ c.id \notin marker
              /\ result[c.id] = [outcome |-> "CANDIDATE_READY", cand |-> c.arg]
    <3>1. /\ result[c.id].outcome = "CANDIDATE_READY" /\ FALSE \in BOOLEAN
          /\ c.verb \in {"status", "commit"}
      BY <2>1, <2>2
    <3>2. UNCHANGED hostVars /\ GoOn(c, FALSE)
      BY <2>2
    <3>3. QED BY <1>2, <3>1, <3>2, GoOnStep, Zenon
  <2>3. CASE UNCHANGED hostVars /\ \E o \in {"ACCEPTED", "REJECTED"} : Reply(c, o, None)
    BY <1>2, <1>3, <2>1, <2>3, ReplyStep
  <2>4. CASE /\ Reply(c, "ACCEPTED", None) /\ marker' = marker \union {c.id}
             /\ UNCHANGED <<req, result, current, shown, seen, applied>>
    <3>1. HostInv' /\ HostKeeps /\ marker' \subseteq confirmed
      BY <2>1, <2>4 DEF PublicationInv, HostInv, HostKeeps, CommitInv, LocalTypes
    <3>2. QED BY <1>2, <2>1, <2>4, <3>1, ReplyStep
  <2>5. QED BY <1>7, <2>2, <2>3, <2>4 DEF ReceiveCommit
<1>8. CASE ReceiveCurrent(c)
  <2>1. UNCHANGED hostVars /\ c.verb = "current" /\ shown' = shown /\ seen' = seen
    BY <1>8 DEF ReceiveCurrent, hostVars
  <2>2. PICK d : d = shown /\ Reply(c, "CURRENT", d)
    BY <1>8 DEF ReceiveCurrent
  <2>3. d \in seen \union {None} /\ seen \subseteq Candidates
    BY <2>2 DEF PublicationInv, HostInv
  <2>4. QED BY <1>2, <1>3, <2>1, <2>2, <2>3, ReplyStep
<1>9. CASE ReceiverFault(c)
  <2>1. UNCHANGED hostVars /\ Reply(c, "REJECTED", None)
    BY <1>9 DEF ReceiverFault
  <2>2. QED BY <1>2, <1>3, <1>4, <2>1, ReplyStep
<1>10. QED BY <1>5, <1>6, <1>7, <1>8, <1>9 DEF Receive

-----------------------------------------------------------------------------
(* The coordinator's calls and memory *)

\* A call that is sent is one the receiver may execute at any time.
LEMMA CallSent ==
    ASSUME PublicationInv, UNCHANGED <<hostVars, late>>, confirmed \subseteq confirmed',
           NEW v \in Verbs \ {"none"}, NEW r \in Requests \union {None}, NEW a \in Args,
           v = "submit" => r \in Requests /\ a \in Bodies,
           v = "status" => r \in Requests,
           v = "commit" => r \in confirmed',
           wire' = Call(v, r, a)
    PROVE  CallsInv' /\ wire'.verb = v /\ wire'.id = r
<1> DEFINE e == Call(v, r, a)
<1>1. e \in Calls /\ e.verb = v /\ e.id = r /\ e.arg = a /\ e.step = 0
  <2>1. NoResult \in [outcome : Outcomes \union {"ACCEPTED", "REJECTED", "CURRENT"},
                      cand : Candidates \union {None}] /\ FALSE \in BOOLEAN
    BY DEF NoResult, Outcomes
  <2>2. QED BY <2>1 DEF Calls, Call, NoCall
<1> HIDE DEF e
<1>2. HostInv' /\ HostKeeps /\ Bodies' = Bodies
  BY HostStep DEF PublicationInv, hostVars, Bodies
<1>3. CallOK(wire)'
  <2>1. wire' = e
    BY DEF e
  <2>2. QED BY <1>1, <1>2, <2>1 DEF CallOK
<1>4. \A c \in late : CallOK(c)'
  <2>1. ASSUME NEW c \in late
        PROVE  c \in Calls /\ CallOK(c)
    BY DEF PublicationInv, CallsInv
  <2>2. ASSUME NEW c \in late
        PROVE  CallOK(c)'
    BY <1>2, <2>1, CallKept DEF PublicationInv
  <2>3. QED BY <2>1, <2>2
<1>5. QED BY <1>1, <1>3, <1>4 DEF PublicationInv, CallsInv, e

\* A run that waits for no call, or still for the same; an interrupted
\* submission or commit goes on.
LEMMA CallDropped ==
    ASSUME PublicationInv, UNCHANGED <<hostVars, confirmed>>, wire' \in {NoCall, wire},
           \/ UNCHANGED late
           \/ wire.verb \in {"submit", "commit"} /\ wire.step # 9 /\ late' = late \union {wire}
    PROVE  CallsInv'
<1>1. HostInv' /\ HostKeeps
  BY HostStep DEF PublicationInv
<1>2. \A c \in late \union {wire} : c \in Calls /\ CallOK(c) /\ CallOK(c)'
  <2>1. ASSUME NEW c \in late \union {wire}
        PROVE  c \in Calls /\ CallOK(c)
    BY DEF PublicationInv, CallsInv
  <2>2. ASSUME NEW c \in late \union {wire}
        PROVE  CallOK(c)'
    BY <1>1, <2>1, CallKept DEF PublicationInv
  <2>3. QED BY <2>1, <2>2
<1>3. NoCall \in Calls /\ NoCall.verb = "none"
  <2>1. NoResult \in [outcome : Outcomes \union {"ACCEPTED", "REJECTED", "CURRENT"},
                      cand : Candidates \union {None}] /\ FALSE \in BOOLEAN
    BY DEF NoResult, Outcomes
  <2>2. QED BY <2>1 DEF Calls, NoCall, Verbs, Args
<1>4. wire' \in Calls /\ CallOK(wire)'
  <2>1. CASE wire' = NoCall
    BY <1>3, <2>1 DEF CallOK
  <2>2. CASE wire' = wire
    BY <1>2, <2>2 DEF CallOK
  <2>3. QED BY <2>1, <2>2
<1>5. QED BY <1>2, <1>4 DEF PublicationInv, CallsInv

LEMMA OffFacts == Off \in Memory /\ Off.pc = "off"
BY DEF Off, Memory, Results, NoResult, Outcomes

LEMMA GotoFacts ==
    ASSUME co \in Memory, NEW p \in Working, Goto(p)
    PROVE  co' \in Memory /\ co'.pc = p
BY DEF Goto, Memory

\* A step that changes nothing but the run, or confirms the pending attempt:
\* what the files say stays true.
LEMMA QuietStep ==
    ASSUME PublicationInv,
           UNCHANGED <<hostVars, vault, release, attempt, archive, reported, used>>,
           \/ confirmed' = confirmed
           \/ attempt # None /\ confirmed' = confirmed \union {attempt.id},
           CallsInv', CoInv', WireInv'
    PROVE  PublicationInv'
<1>1. HostInv'
  BY HostStep DEF PublicationInv
<1>2. /\ \A snap, rel, o : TrueOutcome(snap, rel, o)' = TrueOutcome(snap, rel, o)
      /\ \A r, o : OutcomeOK(r, o)' = OutcomeOK(r, o)
      /\ \A d, snap, rel : Expects(d, snap, rel)' = Expects(d, snap, rel)
      /\ marker' = marker
  BY DEF TrueOutcome, OutcomeOK, Expects, hostVars
<1>3. AttemptInv'
  BY <1>2 DEF PublicationInv, AttemptInv, Unreported
<1>4. ReportInv'
  BY <1>2 DEF PublicationInv, ReportInv
<1>5. CommitInv' /\ LocalTypes'
  BY <1>2 DEF PublicationInv, CommitInv, AttemptInv, LocalTypes
<1>6. QED BY <1>1, <1>3, <1>4, <1>5 DEF PublicationInv

\* Between runs nothing is known.
LEMMA OffStep ==
    ASSUME PublicationInv, co' = Off, wire' = NoCall
    PROVE  CoInv' /\ WireInv'
BY OffFacts DEF CoInv, WireInv, Working

-----------------------------------------------------------------------------
(* The coordinator's writes of the pending attempt *)

\* The attempt goes on to another phase, with its candidate from the decision
\* to commit on.
LEMMA AdvanceStep ==
    ASSUME PublicationInv, attempt # None, attempt.phase # "TERMINAL",
           attempt' \in Attempts,
           attempt'.phase \in Phases \ {"TERMINAL"},
           attempt'.phase \in {"COMMITTING", "COMMIT_REQUESTED"} => attempt'.cand # None,
           attempt'.id = attempt.id, attempt'.snap = attempt.snap, attempt'.rel = attempt.rel,
           attempt'.expected = attempt.expected, attempt'.outcome = attempt.outcome,
           UNCHANGED <<hostVars, vault, release, archive, reported, confirmed, used>>,
           CallsInv', CoInv', WireInv'
    PROVE  PublicationInv'
<1>1. HostInv'
  BY HostStep DEF PublicationInv
<1>2. /\ \A snap, rel, o : TrueOutcome(snap, rel, o)' = TrueOutcome(snap, rel, o)
      /\ \A r, o : OutcomeOK(r, o)' = OutcomeOK(r, o)
      /\ \A d, snap, rel : Expects(d, snap, rel)' = Expects(d, snap, rel)
      /\ marker' = marker
  BY DEF TrueOutcome, OutcomeOK, Expects, hostVars
<1>3. attempt' # None
  BY NullAssumption
<1>4. AttemptInv'
  <2>1. Expects(attempt.expected, attempt.snap, attempt.rel)'
    BY DEF PublicationInv, AttemptInv, Expects, Shows, hostVars
  <2>2. QED BY <2>1 DEF PublicationInv, AttemptInv, Unreported
<1>5. ReportInv'
  BY <1>2 DEF PublicationInv, ReportInv
<1>6. CommitInv' /\ LocalTypes'
  BY <1>2, <1>3 DEF PublicationInv, CommitInv, LocalTypes
<1>7. QED BY <1>1, <1>4, <1>5, <1>6 DEF PublicationInv

\* The attempt is over: with the result of the host, or withdrawn.
LEMMA ConcludeStep ==
    ASSUME PublicationInv, attempt # None, attempt.phase # "TERMINAL",
           UNCHANGED <<hostVars, vault, release, archive, late, reported, confirmed, used>>,
           NEW o \in Terminal \union {"LOCAL_SOURCE_CHANGED", "PROMOTED_SOURCE_MOVED"},
           OutcomeOK(attempt.id, o), TrueOutcome(attempt.snap, attempt.rel, o),
           Conclude(o)
    PROVE  PublicationInv'
<1>1. HostInv'
  BY HostStep DEF PublicationInv
<1>2. /\ \A snap, rel, x : TrueOutcome(snap, rel, x)' = TrueOutcome(snap, rel, x)
      /\ \A r, x : OutcomeOK(r, x)' = OutcomeOK(r, x)
      /\ \A d, snap, rel : Expects(d, snap, rel)' = Expects(d, snap, rel)
      /\ marker' = marker
  BY DEF TrueOutcome, OutcomeOK, Expects, hostVars
<1>3. /\ attempt' \in Attempts /\ attempt'.phase = "TERMINAL" /\ attempt'.outcome = o
      /\ attempt'.id = attempt.id /\ attempt'.snap = attempt.snap /\ attempt'.rel = attempt.rel
      /\ attempt'.expected = attempt.expected
  BY DEF Conclude, PublicationInv, AttemptInv, Attempts, Phases
<1>4. attempt' # None /\ o # "NONE"
  BY <1>3, NullAssumption DEF Terminal, Failures
<1>5. AttemptInv'
  <2>1. Expects(attempt.expected, attempt.snap, attempt.rel)'
    BY <1>3 DEF PublicationInv, AttemptInv, Expects, Shows, hostVars
  <2>2. OutcomeOK(attempt.id, attempt.outcome)'
    BY <1>3 DEF OutcomeOK, hostVars
  <2>3. TrueOutcome(attempt.snap, attempt.rel, attempt.outcome)'
    BY <1>3 DEF TrueOutcome, Shows, hostVars
  <2>4. /\ attempt.id \in used
        /\ \A x \in reported : x.id # attempt.id
    BY DEF PublicationInv, AttemptInv, Unreported
  <2>5. QED BY <1>3, <1>4, <2>1, <2>2, <2>3, <2>4 DEF AttemptInv
<1>6. ReportInv'
  BY <1>2 DEF PublicationInv, ReportInv
<1>7. CommitInv' /\ LocalTypes'
  BY <1>2, <1>3, <1>4 DEF PublicationInv, CommitInv, LocalTypes
<1>8. CallsInv'
  BY CallDropped DEF Conclude
<1>9. co' \in Memory /\ co'.pc = "resolve" /\ wire' = NoCall
  BY GotoFacts DEF Conclude, Working, PublicationInv, CoInv
<1>10. CoInv' /\ WireInv'
  BY <1>3, <1>4, <1>9 DEF CoInv, WireInv, Working
<1>11. QED BY <1>1, <1>5, <1>6, <1>7, <1>8, <1>10 DEF PublicationInv

-----------------------------------------------------------------------------
(* The steps of a run *)

\* What every step of the coordinator leaves alone.
LEMMA CoordinatorFrame ==
    ASSUME CoordinatorStep
    PROVE  UNCHANGED <<hostVars, vault, release, late, bounds>>
BY DEF CoordinatorStep, StartAttempt, Unchanged, PersistArchive, WriteAttempt, LoadAttempt,
       Withdraw, SendSubmit, Submitted, ResumePolling, KeepPolling, DecideCommit, SendCommit,
       Committed, TakeTerminal, Verified, GiveUp, ResumeTerminal, WriteLastResult,
       RemoveArchive, RemoveAttempt, ghosts

\* Starting, loading, polling and giving up change only the run itself.
LEMMA RunStep ==
    ASSUME PublicationInv,
           \/ StartAttempt \/ LoadAttempt \/ ResumePolling \/ KeepPolling
           \/ GiveUp \/ ResumeTerminal \/ Interrupt
    PROVE  PublicationInv'
<1>1. UNCHANGED <<hostVars, vault, release, attempt, archive, reported, confirmed, used>>
  BY DEF StartAttempt, LoadAttempt, ResumePolling, KeepPolling, GiveUp, ResumeTerminal,
         Interrupt, ghosts
<1>2. co \in Memory /\ vault \in Snapshots /\ release \in Releases
  BY DEF PublicationInv, CoInv, LocalTypes
<1>3. CASE StartAttempt
  <2>1. CallsInv' /\ wire'.verb = "current"
    BY <1>1, <1>3, CallSent DEF StartAttempt, Verbs, Args
  <2>2. co' \in Memory /\ co'.pc = "preflight" /\ co'.snap = vault /\ co'.rel = release
    BY <1>2, <1>3, OffFacts DEF StartAttempt, Memory
  <2>3. CoInv' /\ WireInv'
    BY <1>1, <1>2, <1>3, <2>1, <2>2 DEF StartAttempt, CoInv, WireInv, Working
  <2>4. QED BY <1>1, <2>1, <2>3, QuietStep
<1>4. CASE LoadAttempt
  <2>1. CallsInv'
    BY <1>1, <1>4, CallDropped DEF LoadAttempt
  <2>2. co' \in Memory /\ co'.pc = "resume" /\ attempt # None /\ co.pc = "off" /\ wire' = wire
    BY <1>2, <1>4, OffFacts DEF LoadAttempt, At, Memory, Working
  <2>3. CoInv' /\ WireInv'
    BY <1>1, <2>2 DEF PublicationInv, CoInv, WireInv, Working
  <2>4. QED BY <1>1, <2>1, <2>3, QuietStep
<1>5. ASSUME Poll, attempt # None, UNCHANGED late,
             attempt.phase \in {"SUBMITTED", "COMMITTING", "COMMIT_REQUESTED"}
      PROVE  PublicationInv'
  <2>1. PICK r : r = attempt.id /\ r \in Requests
    BY <1>5 DEF PublicationInv, AttemptInv, Attempts
  <2>2. CallsInv' /\ wire'.verb = "status" /\ wire'.id = r
    BY <1>1, <1>5, <2>1, CallSent DEF Poll, Ask, Verbs, Args
  <2>3. co' \in Memory /\ co'.pc = "poll"
    BY <1>2, <1>5, GotoFacts DEF Poll, Ask, Working
  <2>4. CoInv' /\ WireInv'
    BY <1>1, <1>5, <2>1, <2>2, <2>3 DEF CoInv, WireInv, Working
  <2>5. QED BY <1>1, <2>2, <2>4, QuietStep
<1>6. ASSUME Abandon, UNCHANGED late
      PROVE  PublicationInv'
  <2>1. CallsInv' /\ CoInv' /\ WireInv'
    BY <1>1, <1>6, CallDropped, OffStep DEF Abandon
  <2>2. QED BY <1>1, <2>1, QuietStep
<1>7. CASE ResumePolling
  <2>1. attempt # None
    BY <1>7 DEF ResumePolling, At, PublicationInv, CoInv, Working
  <2>2. QED BY <1>5, <1>7, <2>1 DEF ResumePolling
<1>8. CASE KeepPolling
  <2>1. /\ attempt # None
        /\ attempt.phase \in {"SUBMITTED", "COMMITTING", "COMMIT_REQUESTED"}
    BY <1>8 DEF KeepPolling, Answered, At, PublicationInv, CoInv, Working
  <2>2. QED BY <1>5, <1>6, <1>8, <2>1 DEF KeepPolling
<1>9. CASE GiveUp
  BY <1>6, <1>9 DEF GiveUp
<1>10. CASE ResumeTerminal
  <2>1. CallsInv'
    BY <1>1, <1>10, CallDropped DEF ResumeTerminal
  <2>2. co' \in Memory /\ co'.pc = "resolve"
    BY <1>2, <1>10, GotoFacts DEF ResumeTerminal, Working
  <2>3. CoInv' /\ WireInv'
    BY <1>1, <1>10, <2>2 DEF ResumeTerminal, At, PublicationInv, CoInv, WireInv, Working
  <2>4. QED BY <1>1, <2>1, <2>3, QuietStep
<1>11. CASE Interrupt
  <2>1. CallsInv' /\ CoInv' /\ WireInv'
    BY <1>1, <1>11, CallDropped, OffStep DEF Interrupt
  <2>2. QED BY <1>1, <2>1, QuietStep
<1>12. QED BY <1>3, <1>4, <1>7, <1>8, <1>9, <1>10, <1>11

\* Submitting: the source is compared first, and the request the receiver may
\* execute at any later time is one it may queue.
LEMMA SubmitStep ==
    ASSUME PublicationInv, Withdraw \/ SendSubmit \/ Submitted
    PROVE  PublicationInv'
<1>1. /\ UNCHANGED <<hostVars, vault, release, archive, late, reported, confirmed, used>>
      /\ co \in Memory /\ attempt # None /\ attempt.phase \in {"PREPARED", "SUBMITTING", "SUBMITTED"}
  BY DEF Withdraw, SendSubmit, Submitted, ghosts, At, Answered, Unsubmitted, PublicationInv,
         CoInv, Working
<1>2. attempt \in Attempts /\ attempt.id \in Requests
  BY <1>1 DEF PublicationInv, AttemptInv, Attempts
<1>3. CASE Withdraw
  <2>1. Conclude("LOCAL_SOURCE_CHANGED")
    BY <1>3 DEF Withdraw
  <2>2. /\ OutcomeOK(attempt.id, "LOCAL_SOURCE_CHANGED")
        /\ TrueOutcome(attempt.snap, attempt.rel, "LOCAL_SOURCE_CHANGED")
    BY DEF OutcomeOK, TrueOutcome
  <2>3. QED BY <1>1, <2>1, <2>2, ConcludeStep
<1>4. CASE SendSubmit
  <2>1. PICK r, a : r = attempt.id /\ a = Body /\ wire' = Call("submit", r, a)
    BY <1>4 DEF SendSubmit, Ask
  <2>2. a \in Bodies /\ a \in Args
    <3>1. Body \in [snap : Snapshots, rel : Releases, expected : Candidates \union {None}]
      BY <1>2 DEF Body, Attempts
    <3>2. Body \in [snap : Snapshots, rel : Releases, expected : seen \union {None}]
      BY <1>1, <1>2 DEF PublicationInv, AttemptInv, Expects, Attempts, Body
    <3>3. Body.expected # None => <<Body.expected.snap, Body.expected.rel>> # <<Body.snap, Body.rel>>
      BY <1>1 DEF PublicationInv, AttemptInv, Expects, Shows, Body
    <3>4. QED BY <2>1, <3>1, <3>2, <3>3 DEF Bodies, Args
  <2>3. CallsInv' /\ wire'.verb = "submit"
    BY <1>1, <1>2, <2>1, <2>2, CallSent DEF Verbs
  <2>4. co' \in Memory /\ co'.pc = "submit"
    BY <1>1, <1>4, GotoFacts DEF SendSubmit, Ask, Working
  <2>5. /\ attempt' \in Attempts /\ attempt'.phase = "SUBMITTING" /\ attempt'.id = attempt.id
        /\ attempt'.snap = attempt.snap /\ attempt'.rel = attempt.rel
        /\ attempt'.expected = attempt.expected /\ attempt'.outcome = attempt.outcome
    BY <1>2, <1>4 DEF SendSubmit, Write, Attempts, Phases
  <2>6. CoInv' /\ WireInv'
    BY <2>3, <2>4, <2>5, NullAssumption DEF CoInv, WireInv, Working
  <2>7. QED BY <1>1, <2>3, <2>5, <2>6, AdvanceStep DEF Phases
<1>5. CASE Submitted
  <2>1. PICK r : r = attempt.id /\ wire' = Call("status", r, None)
    BY <1>5 DEF Submitted, Poll, Ask
  <2>2. CallsInv' /\ wire'.verb = "status" /\ wire'.id = attempt.id
    BY <1>1, <1>2, <2>1, CallSent DEF Verbs, Args
  <2>3. co' \in Memory /\ co'.pc = "poll"
    BY <1>1, <1>5, GotoFacts DEF Submitted, Poll, Ask, Working
  <2>4. /\ attempt' \in Attempts /\ attempt'.phase = "SUBMITTED" /\ attempt'.id = attempt.id
        /\ attempt'.snap = attempt.snap /\ attempt'.rel = attempt.rel
        /\ attempt'.expected = attempt.expected /\ attempt'.outcome = attempt.outcome
    BY <1>2, <1>5 DEF Submitted, Write, Attempts, Phases
  <2>5. CoInv' /\ WireInv'
    BY <2>2, <2>3, <2>4, NullAssumption DEF CoInv, WireInv, Working
  <2>6. QED BY <1>1, <2>2, <2>4, <2>5, AdvanceStep DEF Phases
<1>6. QED BY <1>3, <1>4, <1>5

\* Committing: the decision names the candidate that was ready, and only a
\* commit that was just compared with the source is sent.
LEMMA CommitStep ==
    ASSUME PublicationInv, DecideCommit \/ SendCommit \/ Committed
    PROVE  PublicationInv'
<1>1. /\ UNCHANGED <<hostVars, vault, release, archive, late, reported, used>>
      /\ co \in Memory /\ attempt # None /\ attempt.phase \in {"SUBMITTED", "COMMITTING"}
      /\ SendCommit \/ confirmed' = confirmed
  BY DEF DecideCommit, SendCommit, Committed, ghosts, At, Answered, PublicationInv, CoInv, Working
<1>2. /\ attempt \in Attempts /\ attempt.id \in Requests
      /\ attempt.cand \in Candidates \union {None}
  BY <1>1 DEF PublicationInv, AttemptInv, Attempts
<1>3. ASSUME Conclude("LOCAL_SOURCE_CHANGED"), confirmed' = confirmed
      PROVE  PublicationInv'
  <2>1. /\ OutcomeOK(attempt.id, "LOCAL_SOURCE_CHANGED")
        /\ TrueOutcome(attempt.snap, attempt.rel, "LOCAL_SOURCE_CHANGED")
    BY DEF OutcomeOK, TrueOutcome
  <2>2. QED BY <1>1, <1>3, <2>1, ConcludeStep
<1>4. ASSUME Poll, confirmed' = confirmed, NEW p \in {"COMMITTING", "COMMIT_REQUESTED"},
             NEW d \in Candidates, attempt' = [attempt EXCEPT !.phase = p, !.cand = d]
      PROVE  PublicationInv'
  <2>1. PICK r : r = attempt.id /\ wire' = Call("status", r, None)
    BY <1>4 DEF Poll, Ask
  <2>2. CallsInv' /\ wire'.verb = "status" /\ wire'.id = attempt.id
    BY <1>1, <1>2, <1>4, <2>1, CallSent DEF Verbs, Args
  <2>3. co' \in Memory /\ co'.pc = "poll"
    BY <1>1, <1>4, GotoFacts DEF Poll, Ask, Working
  <2>4. /\ attempt' \in Attempts /\ attempt'.phase = p /\ attempt'.id = attempt.id
        /\ attempt'.snap = attempt.snap /\ attempt'.rel = attempt.rel /\ attempt'.cand = d
        /\ attempt'.expected = attempt.expected /\ attempt'.outcome = attempt.outcome
    BY <1>2, <1>4 DEF Attempts, Phases
  <2>5. CoInv' /\ WireInv'
    BY <2>2, <2>3, <2>4, NullAssumption DEF CoInv, WireInv, Working
  <2>6. QED BY <1>1, <1>4, <2>2, <2>4, <2>5, NullAssumption, AdvanceStep DEF Phases
<1>5. ASSUME Write("COMMIT_REQUESTED"), Poll, confirmed' = confirmed,
             attempt.phase = "COMMITTING"
      PROVE  PublicationInv'
  <2>1. attempt.cand \in Candidates
    BY <1>1, <1>2, <1>5 DEF PublicationInv, AttemptInv
  <2>2. PICK d \in Candidates : d = attempt.cand
    BY <2>1
  <2>3. attempt' = [attempt EXCEPT !.phase = "COMMIT_REQUESTED", !.cand = d]
    BY <1>2, <1>5, <2>2 DEF Write, Attempts
  <2>4. QED BY <1>4, <1>5, <2>2, <2>3
<1>6. CASE DecideCommit
  <2>1. confirmed' = confirmed /\ wire.ans.outcome = "CANDIDATE_READY"
        /\ wire \in Calls /\ CallOK(wire) /\ wire.verb = "status" /\ wire.step = 9
    BY <1>6 DEF DecideCommit, ghosts, Answered, At, PublicationInv, CallsInv, WireInv
  <2>2. PICK d \in Candidates : d = wire.ans.cand
    BY <2>1 DEF CallOK, Calls
  <2>3. QED BY <1>3, <1>4, <1>6, <2>1, <2>2 DEF DecideCommit
<1>7. CASE SendCommit
  <2>1. attempt.phase = "COMMITTING"
    BY <1>7 DEF SendCommit
  <2>2. CASE Ask("commit", "commit", attempt.id, attempt.cand) /\ UNCHANGED attempt
             /\ confirmed' = confirmed \union {attempt.id}
    <3>1. PICK r, a : r = attempt.id /\ a = attempt.cand /\ wire' = Call("commit", r, a)
      BY <2>2 DEF Ask
    <3>2. CallsInv' /\ wire'.verb = "commit"
      BY <1>1, <1>2, <2>2, <3>1, CallSent DEF Verbs, Args
    <3>3. co' \in Memory /\ co'.pc = "commit"
      BY <1>1, <2>2, GotoFacts DEF Ask, Working
    <3>4. CoInv' /\ WireInv'
      BY <1>1, <2>1, <2>2, <3>2, <3>3 DEF CoInv, WireInv, Working
    <3>5. QED BY <1>1, <2>2, <3>2, <3>4, QuietStep
  <2>3. QED BY <1>3, <1>5, <1>7, <2>1, <2>2 DEF SendCommit
<1>8. CASE Committed
  <2>1. attempt.phase = "COMMITTING" /\ confirmed' = confirmed
    BY <1>8 DEF Committed, Answered, At, ghosts, PublicationInv, CoInv
  <2>2. QED BY <1>5, <1>8, <2>1 DEF Committed
<1>9. QED BY <1>6, <1>7, <1>8

\* The final result is the one of the host, and a success was read back.
LEMMA FinalStep ==
    ASSUME PublicationInv, TakeTerminal \/ Verified
    PROVE  PublicationInv'
<1>1. /\ UNCHANGED <<hostVars, vault, release, archive, late, reported, confirmed, used>>
      /\ co \in Memory /\ attempt # None
      /\ attempt.phase \in {"SUBMITTED", "COMMITTING", "COMMIT_REQUESTED"}
      /\ wire \in Calls /\ CallOK(wire) /\ wire.step = 9
  BY DEF TakeTerminal, Verified, ghosts, At, Answered, PublicationInv, CoInv, CallsInv, Working
<1>2. CASE TakeTerminal
  <2>1. /\ wire.verb = "status" /\ wire.id = attempt.id
        /\ wire.ans.outcome \in Terminal /\ result[attempt.id] = wire.ans
    BY <1>1, <1>2 DEF TakeTerminal, Answered, At, PublicationInv, WireInv, CallOK
  <2>2. PICK o \in Terminal : o = wire.ans.outcome
    BY <2>1
  <2>3. CASE o \in Failures /\ Conclude(o)
    <3>1. OutcomeOK(attempt.id, o) /\ TrueOutcome(attempt.snap, attempt.rel, o)
      BY <2>1, <2>2, <2>3 DEF OutcomeOK, TrueOutcome, Failures
    <3>2. QED BY <1>1, <2>3, <3>1, ConcludeStep
  <2>4. CASE /\ o \notin Failures
             /\ co' = [co EXCEPT !.pc = "verify", !.final = wire.ans]
             /\ wire' = Call("current", None, None) /\ UNCHANGED attempt
    <3>1. CallsInv' /\ wire'.verb = "current"
      BY <1>1, <2>4, CallSent DEF Verbs, Args
    <3>2. wire.ans \in Results
      BY <1>1, <2>1, <2>2 DEF Calls, Results, Terminal, Outcomes
    <3>3. co' \in Memory /\ co'.pc = "verify" /\ co'.final = wire.ans
      BY <1>1, <2>4, <3>2 DEF Memory, Working
    <3>4. wire.ans.outcome \in {"PROMOTED", "UNCHANGED"} /\ result' = result
      BY <1>1, <2>2, <2>4 DEF Terminal, hostVars
    <3>5. CoInv' /\ WireInv'
      BY <1>1, <2>1, <2>4, <3>1, <3>3, <3>4 DEF CoInv, WireInv, Working
    <3>6. QED BY <1>1, <2>4, <3>1, <3>5, QuietStep
  <2>5. QED BY <1>2, <2>2, <2>3, <2>4 DEF TakeTerminal
<1>3. CASE Verified
  <2>1. /\ wire.verb = "current" /\ wire.ans.outcome = "CURRENT"
        /\ co.final.outcome \in {"PROMOTED", "UNCHANGED"} /\ result[attempt.id] = co.final
        /\ Shows(wire.ans.cand, attempt.snap, attempt.rel)
    BY <1>3 DEF Verified, Answered, At, PublicationInv, WireInv, CoInv
  <2>2. wire.ans.cand \in seen
    BY <1>1, <2>1 DEF CallOK, Shows
  <2>3. \A o : TrueOutcome(attempt.snap, attempt.rel, o)
    BY <2>1, <2>2 DEF TrueOutcome
  <2>4. PICK o \in {"PROMOTED", "UNCHANGED", "PROMOTED_SOURCE_MOVED"} :
            /\ Conclude(o)
            /\ o = co.final.outcome \/ (o = "PROMOTED_SOURCE_MOVED" /\ co.final.outcome = "PROMOTED")
    BY <1>3, <2>1 DEF Verified
  <2>5. OutcomeOK(attempt.id, o) /\ o \in Terminal \union {"PROMOTED_SOURCE_MOVED"}
    BY <2>1, <2>4 DEF OutcomeOK, Terminal
  <2>6. QED BY <1>1, <2>3, <2>4, <2>5, ConcludeStep
<1>4. QED BY <1>2, <1>3

\* Archive, attempt and last result, in the order they are written and removed.
LEMMA FileStep ==
    ASSUME PublicationInv,
           \/ Unchanged \/ (\E r \in Requests : PersistArchive(r)) \/ WriteAttempt
           \/ WriteLastResult \/ RemoveArchive \/ RemoveAttempt
    PROVE  PublicationInv'
<1>1. /\ UNCHANGED <<hostVars, vault, release, late, confirmed>>
      /\ wire' \in {wire, NoCall}
      /\ co \in Memory
  BY DEF Unchanged, PersistArchive, WriteAttempt, WriteLastResult, RemoveArchive, RemoveAttempt,
         ghosts, Abandon, PublicationInv, CoInv
<1>2. HostInv' /\ CallsInv'
  BY <1>1, HostStep, CallDropped DEF PublicationInv
<1>3. /\ \A snap, rel, o : TrueOutcome(snap, rel, o)' = TrueOutcome(snap, rel, o)
      /\ \A r, o : OutcomeOK(r, o)' = OutcomeOK(r, o)
      /\ \A d, snap, rel : Expects(d, snap, rel)' = Expects(d, snap, rel)
      /\ marker' = marker
  BY <1>1 DEF TrueOutcome, OutcomeOK, Expects, hostVars
<1>4. CASE Unchanged
  <2> DEFINE x == [id |-> None, snap |-> co.snap, rel |-> co.rel, outcome |-> "UNCHANGED"]
  <2>1. /\ attempt = None /\ co.snap \in Snapshots /\ co.rel \in Releases
        /\ wire.verb = "current" /\ wire.step = 9 /\ wire.ans.outcome = "CURRENT"
        /\ Shows(wire.ans.cand, co.snap, co.rel) /\ CallOK(wire)
        /\ attempt' = attempt /\ archive' = archive /\ used' = used
        /\ reported' = reported \union {x}
    BY <1>4 DEF Unchanged, Answered, At, PublicationInv, CoInv, WireInv, CallsInv
  <2>2. TrueOutcome(co.snap, co.rel, "UNCHANGED")
    BY <2>1 DEF TrueOutcome, CallOK, Shows
  <2>3. /\ x \in Reports /\ x.id = None /\ x.snap = co.snap /\ x.rel = co.rel
        /\ x.outcome = "UNCHANGED"
    BY <2>1 DEF Reports, Terminal
  <2> HIDE DEF x
  <2>4. ReportInv'
    BY <1>3, <2>1, <2>2, <2>3 DEF PublicationInv, ReportInv
  <2>5. AttemptInv' /\ CommitInv' /\ LocalTypes'
    BY <1>1, <1>3, <2>1 DEF PublicationInv, AttemptInv, CommitInv, LocalTypes
  <2>6. CoInv' /\ WireInv'
    BY <1>4, OffStep DEF Unchanged, Abandon
  <2>7. QED BY <1>2, <2>4, <2>5, <2>6 DEF PublicationInv
<1>5. ASSUME NEW r \in Requests, PersistArchive(r)
      PROVE  PublicationInv'
  <2>1. /\ attempt = None /\ co.snap \in Snapshots /\ co.rel \in Releases
        /\ wire.verb = "current" /\ wire.step = 9 /\ wire.ans.outcome = "CURRENT"
        /\ ~Shows(wire.ans.cand, co.snap, co.rel) /\ CallOK(wire) /\ wire \in Calls
        /\ attempt' = attempt /\ archive' = r /\ used' = used \union {r} /\ r \notin used
        /\ reported' = reported /\ wire' = NoCall
    BY <1>5 DEF PersistArchive, Answered, At, PublicationInv, CoInv, WireInv, CallsInv
  <2>2. wire.ans.cand \in seen \union {None} /\ wire.ans.cand \in Candidates \union {None}
    BY <2>1 DEF CallOK, Calls
  <2>3. /\ co' \in Memory /\ co'.pc = "prepare" /\ co'.id = r /\ co'.snap = co.snap
        /\ co'.rel = co.rel /\ co'.expected = wire.ans.cand
    BY <1>1, <1>5, <2>2 DEF PersistArchive, Memory
  <2>4. \A x \in reported : x.id # r
    BY <2>1, PublicationAssumption DEF PublicationInv, ReportInv
  <2>5. ReportInv'
    BY <1>3, <2>1 DEF PublicationInv, ReportInv
  <2>6. AttemptInv' /\ CommitInv' /\ LocalTypes'
    BY <1>1, <1>3, <2>1 DEF PublicationInv, AttemptInv, CommitInv, LocalTypes
  <2>7. Expects(co.expected, co.snap, co.rel)'
    BY <1>1, <2>1, <2>2, <2>3 DEF Expects, Shows, hostVars
  <2>8. CoInv' /\ WireInv'
    BY <2>1, <2>3, <2>4, <2>7 DEF CoInv, WireInv, Working, Unreported
  <2>9. QED BY <1>2, <2>5, <2>6, <2>8 DEF PublicationInv
<1>6. CASE WriteAttempt
  <2>1. /\ attempt = None /\ co.snap \in Snapshots /\ co.rel \in Releases
        /\ co.id \in used /\ archive = co.id /\ (\A x \in reported : x.id # co.id)
        /\ Expects(co.expected, co.snap, co.rel) /\ wire = NoCall /\ co.id \in Requests
    BY <1>6 DEF WriteAttempt, At, PublicationInv, CoInv, WireInv, Unreported, LocalTypes
  <2>2. archive' = archive /\ used' = used /\ reported' = reported /\ wire' = wire
    BY <1>6 DEF WriteAttempt, ghosts
  <2>3. /\ attempt' \in Attempts /\ attempt'.phase = "PREPARED" /\ attempt'.id = co.id
        /\ attempt'.snap = co.snap /\ attempt'.rel = co.rel /\ attempt'.expected = co.expected
        /\ attempt'.outcome = "NONE"
    BY <1>1, <1>6, <2>1 DEF WriteAttempt, Attempts, Phases, Memory
  <2>4. attempt' # None
    BY <2>3, NullAssumption
  <2>5. co' \in Memory /\ co'.pc = "resume"
    BY <1>1, <1>6, GotoFacts DEF WriteAttempt, Working
  <2>6. Expects(attempt.expected, attempt.snap, attempt.rel)'
    BY <1>1, <2>1, <2>3 DEF Expects, Shows, hostVars
  <2>7. AttemptInv'
    BY <2>1, <2>2, <2>3, <2>6 DEF AttemptInv, Unreported
  <2>8. ReportInv'
    BY <1>3, <2>2 DEF PublicationInv, ReportInv
  <2>9. CommitInv' /\ LocalTypes'
    BY <1>1, <1>3, <2>1, <2>2 DEF PublicationInv, CommitInv, LocalTypes
  <2>10. CoInv' /\ WireInv'
    BY <2>1, <2>2, <2>4, <2>5 DEF CoInv, WireInv, Working
  <2>11. QED BY <1>2, <2>7, <2>8, <2>9, <2>10 DEF PublicationInv
<1>7. CASE WriteLastResult
  <2> DEFINE x == [id |-> attempt.id, snap |-> attempt.snap, rel |-> attempt.rel,
                   outcome |-> attempt.outcome]
  <2>1. /\ attempt # None /\ attempt \in Attempts /\ attempt.phase = "TERMINAL" /\ wire = NoCall
        /\ attempt.id \in used /\ OutcomeOK(attempt.id, attempt.outcome)
        /\ TrueOutcome(attempt.snap, attempt.rel, attempt.outcome)
        /\ \A y \in reported : y.id = attempt.id => y = x
    BY <1>7 DEF WriteLastResult, At, PublicationInv, CoInv, WireInv, Working, AttemptInv, ReportOf
  <2>2. /\ attempt' = attempt /\ archive' = archive /\ used' = used /\ wire' = wire
        /\ reported' = reported \union {x}
    BY <1>7 DEF WriteLastResult
  <2>3. /\ x \in Reports /\ x.id = attempt.id /\ x.snap = attempt.snap /\ x.rel = attempt.rel
        /\ x.outcome = attempt.outcome
    BY <2>1 DEF Attempts, Reports
  <2>4. x = ReportOf(attempt)
    BY DEF ReportOf
  <2> HIDE DEF x
  <2>5. ReportInv'
    BY <1>3, <2>1, <2>2, <2>3 DEF PublicationInv, ReportInv
  <2>6. AttemptInv'
    BY <1>3, <2>1, <2>2, <2>3, <2>4 DEF PublicationInv, AttemptInv
  <2>7. CommitInv' /\ LocalTypes'
    BY <1>1, <1>3, <2>2 DEF PublicationInv, CommitInv, LocalTypes
  <2>8. co' \in Memory /\ co'.pc = "retire"
    BY <1>1, <1>7, GotoFacts DEF WriteLastResult, Working
  <2>9. CoInv' /\ WireInv'
    BY <2>1, <2>2, <2>4, <2>8 DEF CoInv, WireInv, Working
  <2>10. QED BY <1>2, <2>5, <2>6, <2>7, <2>9 DEF PublicationInv
<1>8. CASE RemoveArchive
  <2>1. /\ attempt # None /\ attempt.phase = "TERMINAL" /\ wire = NoCall
        /\ ReportOf(attempt) \in reported
        /\ attempt' = attempt /\ archive' = None /\ reported' = reported /\ used' = used
        /\ wire' = wire
    BY <1>8 DEF RemoveArchive, At, ghosts, PublicationInv, CoInv, WireInv, Working
  <2>2. AttemptInv' /\ ReportInv' /\ CommitInv' /\ LocalTypes'
    BY <1>1, <1>3, <2>1 DEF PublicationInv, AttemptInv, ReportInv, CommitInv, LocalTypes, Unreported
  <2>3. co' \in Memory /\ co'.pc = "forget"
    BY <1>1, <1>8, GotoFacts DEF RemoveArchive, Working
  <2>4. CoInv' /\ WireInv'
    BY <2>1, <2>3 DEF CoInv, WireInv, Working
  <2>5. QED BY <1>2, <2>2, <2>4 DEF PublicationInv
<1>9. CASE RemoveAttempt
  <2>1. /\ wire = NoCall /\ ReportOf(attempt) \in reported
        /\ attempt' = None /\ archive' = archive /\ reported' = reported /\ used' = used
        /\ wire' = wire /\ co' = Off
    BY <1>9 DEF RemoveAttempt, At, ghosts, PublicationInv, CoInv, WireInv
  <2>2. ReportInv'
    BY <1>3, <2>1 DEF PublicationInv, ReportInv
  <2>3. CommitInv' /\ LocalTypes'
    <3>1. ReportOf(attempt).id = attempt.id
      BY DEF ReportOf
    <3>2. QED BY <1>1, <1>3, <2>1, <3>1 DEF PublicationInv, CommitInv, LocalTypes
  <2>4. AttemptInv' /\ CoInv' /\ WireInv'
    BY <2>1, OffStep DEF AttemptInv
  <2>5. QED BY <1>2, <2>2, <2>3, <2>4 DEF PublicationInv
<1>10. QED BY <1>4, <1>5, <1>6, <1>7, <1>8, <1>9

-----------------------------------------------------------------------------
(* The theorems *)

LEMMA PublicationInit == InitPublication => PublicationInv
<1> SUFFICES ASSUME InitPublication PROVE PublicationInv
  OBVIOUS
<1>1. NoResult \in Results /\ NoResult.outcome = "NONE"
  BY DEF NoResult, Results, Outcomes
<1>2. HostInv
  BY <1>1 DEF InitPublication, InitHost, HostInv
<1>3. CallsInv
  <2>1. NoCall \in Calls /\ NoCall.verb = "none"
    <3>1. NoResult \in [outcome : Outcomes \union {"ACCEPTED", "REJECTED", "CURRENT"},
                        cand : Candidates \union {None}] /\ FALSE \in BOOLEAN
      BY DEF NoResult, Outcomes
    <3>2. QED BY <3>1 DEF Calls, NoCall, Verbs, Args
  <2>2. QED BY <2>1 DEF InitPublication, CallsInv, CallOK
<1>4. LocalTypes /\ AttemptInv /\ ReportInv /\ CommitInv
  BY DEF InitPublication, InitHost, LocalTypes, AttemptInv, ReportInv, CommitInv
<1>5. CoInv /\ WireInv
  BY OffFacts DEF InitPublication, CoInv, WireInv, Working
<1>6. QED BY <1>2, <1>3, <1>4, <1>5 DEF PublicationInv

LEMMA PublicationStep == PublicationInv /\ [NextPublication]_vars => PublicationInv'
<1> SUFFICES ASSUME PublicationInv, [NextPublication]_vars
             PROVE  PublicationInv'
  OBVIOUS
<1>1. CASE CoordinatorStep \/ Interrupt
  BY <1>1, RunStep, SubmitStep, CommitStep, FinalStep, FileStep DEF CoordinatorStep
<1>2. ASSUME NEW c \in late \union {wire}, Receive(c) \/ ReceiverFault(c)
      PROVE  PublicationInv'
  BY <1>2, ReceiveStep
<1>3. vault \in Snapshots /\ release \in Releases /\ HostInv /\ seen \subseteq Candidates
      /\ current \in seen \union {None}
  BY DEF PublicationInv, LocalTypes, HostInv
<1>4. ASSUME NEW r \in Requests, Process(r)
      PROVE  PublicationInv'
  <2>1. HostInv' /\ HostKeeps /\ marker' = marker
    BY <1>3, <1>4, HostStep DEF Process
  <2>2. QED BY <1>3, <1>4, <2>1, EnvironmentStep DEF Process, coVars, ghosts
<1>5. CASE ShowCurrent \/ ShowLate
  <2>1. \E d \in seen \union {None} : Show(d)
    BY <1>3, <1>5 DEF ShowCurrent, ShowLate
  <2>2. HostInv' /\ HostKeeps /\ marker' = marker
    BY <1>3, <2>1, HostStep
  <2>3. UNCHANGED <<vault, release, attempt, archive, co, wire, late, reported, confirmed, used>>
    BY <1>5 DEF ShowCurrent, ShowLate, coVars, ghosts
  <2>4. QED BY <1>3, <2>2, <2>3, EnvironmentStep
<1>6. CASE Operate
  <2>1. HostInv' /\ HostKeeps /\ marker' = marker
    BY <1>3, <1>6, HostStep DEF Operate
  <2>2. QED BY <1>3, <1>6, <2>1, EnvironmentStep DEF Operate, ghosts
<1>7. CASE Move
  <2>1. HostInv' /\ HostKeeps /\ marker' = marker
    BY <1>3, <1>7, HostStep DEF Move
  <2>2. vault' \in Snapshots /\ release' \in Releases
    BY <1>3, <1>7 DEF Move
  <2>3. QED BY <1>7, <2>1, <2>2, EnvironmentStep DEF Move, ghosts
<1>8. CASE UNCHANGED vars
  <2>1. HostInv' /\ HostKeeps /\ marker' = marker
    BY <1>3, <1>8, HostStep DEF vars
  <2>2. QED BY <1>3, <1>8, <2>1, EnvironmentStep DEF vars, coVars, ghosts
<1>9. QED BY <1>1, <1>2, <1>4, <1>5, <1>6, <1>7, <1>8 DEF NextPublication

\* PublicationInv holds throughout: whatever is lost, repeated, late or
\* interrupted on either side of the connection.
THEOREM PublicationInvariant == SpecPublication => []PublicationInv
BY PublicationInit, PublicationStep, PTL DEF SpecPublication

\* The contract of pending-attempt.json (_validate_pending_attempt) holds after
\* every write: a run never finds an attempt it cannot read.
THEOREM PublicationTypesHold == SpecPublication => []PublicationTypeOK
<1>1. PublicationInv => PublicationTypeOK
  <2> SUFFICES ASSUME PublicationInv PROVE PublicationTypeOK
    OBVIOUS
  <2>1. \A r \in Requests : result[r].outcome \in Outcomes
    BY DEF PublicationInv, HostInv, Results
  <2>2. QED BY <2>1 DEF PublicationInv, HostInv, LocalTypes, AttemptInv, PublicationTypeOK
<1>2. QED BY <1>1, PublicationInvariant, PTL

\* The archive of an unfinished attempt is there after every crash: the order
\* of the file operations in reconcile and _resolve_pending_attempt suffices.
THEOREM ArchiveIsAvailable == SpecPublication => []ArchiveAvailable
<1>1. PublicationInv => ArchiveAvailable
  BY DEF PublicationInv, AttemptInv, ArchiveAvailable
<1>2. QED BY <1>1, PublicationInvariant, PTL

\* A publication that last-result.json reports happened: a deployment with the
\* snapshot and the release of the attempt was selected on the host.
THEOREM ReportsTellTheTruth == SpecPublication => []ReportsAreTrue
<1>1. PublicationInv => ReportsAreTrue
  BY DEF PublicationInv, ReportInv, TrueOutcome, ReportsAreTrue
<1>2. QED BY <1>1, PublicationInvariant, PTL

\* Every attempt is reported with one outcome only, and it is the final result
\* of the host unless the attempt was withdrawn.
THEOREM ReportsAreFinal == SpecPublication => []ReportsMatchResults
<1>1. PublicationInv => ReportsMatchResults
  BY DEF PublicationInv, ReportInv, OutcomeOK, ReportsMatchResults
<1>2. QED BY <1>1, PublicationInvariant, PTL

\* No commit marker without a commit that was sent while vault and release were
\* those of the attempt: also for commits that are repeated or executed late.
THEOREM MarkersWereConfirmed == SpecPublication => []AuthorizedWasConfirmed
<1>1. PublicationInv => AuthorizedWasConfirmed
  BY DEF PublicationInv, CommitInv, AuthorizedWasConfirmed
<1>2. QED BY <1>1, PublicationInvariant, PTL

\* An authorized request is the pending attempt until it is reported: the
\* coordinator does not lose sight of it in a crash.
THEOREM CommitsStayFollowed == SpecPublication => []CommitsAreFollowed
<1>1. PublicationInv => CommitsAreFollowed
  BY DEF PublicationInv, CommitInv, CommitsAreFollowed
<1>2. QED BY <1>1, PublicationInvariant, PTL

\* What a receiver process does to the host: nothing, or it queues a request
\* with a body it may have, or it accepts a commit of a candidate that is ready.
LEMMA ReceiverEffect ==
    ASSUME PublicationInv, NEW c \in late \union {wire}, Receive(c) \/ ReceiverFault(c)
    PROVE  \/ UNCHANGED hostVars
           \/ \E r \in Requests, body \in Bodies : Enqueue(r, body)
           \/ \E r \in Requests \ marker : Authorize(r)
<1>1. CallOK(c)
  BY DEF PublicationInv, CallsInv
<1>2. CASE UNCHANGED hostVars
  BY <1>2
<1>3. CASE ReceiveSubmit(c) /\ Enqueue(c.id, c.arg)
  <2>1. c.id \in Requests /\ c.arg \in Bodies
    BY <1>1, <1>3 DEF ReceiveSubmit, CallOK
  <2>2. QED BY <1>3, <2>1
<1>4. CASE /\ c.verb = "commit" /\ c.step = 1 /\ marker' = marker \union {c.id}
           /\ UNCHANGED <<req, result, current, shown, seen, applied>>
  <2>1. c.id \in Requests
    BY <1>1, <1>4 DEF CallOK, PublicationInv, CommitInv, LocalTypes
  <2>2. CASE c.id \in marker
    <3>1. marker' = marker
      BY <1>4, <2>2
    <3>2. QED BY <1>4, <3>1 DEF hostVars
  <2>3. CASE c.id \notin marker
    <3>1. Authorize(c.id)
      BY <1>1, <1>4, <2>3 DEF CallOK, Authorize
    <3>2. QED BY <2>1, <2>3, <3>1
  <2>4. QED BY <2>2, <2>3
<1>5. QED
  BY <1>2, <1>3, <1>4
  DEF Receive, ReceiveSubmit, ReceiveStatus, ReceiveCommit, ReceiveCurrent, ReceiverFault

\* Every step on this side is one of PublicationHost, or leaves the host alone.
LEMMA PublicationMaps ==
    ASSUME PublicationInv, [NextPublication]_vars
    PROVE  [Next]_hostVars
<1>1. CASE CoordinatorStep \/ Interrupt \/ Move \/ UNCHANGED vars
  BY <1>1, CoordinatorFrame DEF Interrupt, Move, vars
<1>2. ASSUME NEW c \in late \union {wire}, Receive(c) \/ ReceiverFault(c)
      PROVE  [Next]_hostVars
  BY <1>2, ReceiverEffect DEF Next
<1>3. ASSUME NEW r \in Requests, Process(r)
      PROVE  [Next]_hostVars
  BY <1>3 DEF Process, Next
<1>4. CASE ShowCurrent \/ ShowLate
  <2>1. current \in seen \union {None}
    BY DEF PublicationInv, HostInv
  <2>2. QED BY <1>4, <2>1 DEF ShowCurrent, ShowLate, Next
<1>5. CASE Operate
  BY <1>5 DEF Operate, Next
<1>6. QED BY <1>1, <1>2, <1>3, <1>4, <1>5 DEF NextPublication

\* The host sees nothing but steps of PublicationHost: a request is queued once
\* and with a body it may have, a commit is accepted only for a candidate that
\* is ready or when it was accepted before, whatever is repeated or late.
THEOREM PublicationRespectsHost == SpecPublication => RespectsHost
<1>1. InitPublication => InitHost
  BY DEF InitPublication
<1>2. PublicationInv /\ [NextPublication]_vars => [Next]_hostVars
  BY PublicationMaps
<1>3. QED BY <1>1, <1>2, PublicationInvariant, PTL DEF SpecPublication, RespectsHost, Spec


-----------------------------------------------------------------------------
(* What the host is asked for is the attempt *)

\* b is what the pending attempt r asks for, or what r was reported to ask for.
Asked(r, b) ==
    \/ attempt # None /\ attempt.id = r /\ b = Body
    \/ \E x \in reported : x.id = r /\ x.snap = b.snap /\ x.rel = b.rel

\* Every request of the host, and every submission that is still on its way,
\* asks for the snapshot and the release of the attempt with its id.
RequestInv ==
    /\ \A r \in Requests : req[r] # None => Asked(r, req[r])
    /\ \A c \in late \union {wire} : c.verb = "submit" => Asked(c.id, c.arg)

\* The attempt keeps what it asks for, and is forgotten only after its report.
LEMMA AskedKept ==
    ASSUME PublicationInv, PublicationInv', CoordinatorStep \/ Interrupt
    PROVE  \A r, b : Asked(r, b) => Asked(r, b)'
<1> DEFINE Kept == \A r, b : Asked(r, b) => Asked(r, b)'
           Same == attempt' # None /\ attempt'.id = attempt.id /\ Body' = Body
           Writes == \/ Withdraw \/ SendSubmit \/ Submitted \/ DecideCommit \/ SendCommit
                     \/ Committed \/ TakeTerminal \/ Verified
<1> SUFFICES Kept
  OBVIOUS
<1>1. reported \subseteq reported'
  BY DEF CoordinatorStep, StartAttempt, Unchanged, PersistArchive, WriteAttempt, LoadAttempt,
     Withdraw, SendSubmit, Submitted, ResumePolling, KeepPolling, DecideCommit, SendCommit,
     Committed, TakeTerminal, Verified, GiveUp, ResumeTerminal, WriteLastResult,
     RemoveArchive, RemoveAttempt, Interrupt, ghosts
<1>2. ASSUME attempt = None \/ Same
      PROVE  Kept
  BY <1>1, <1>2 DEF Asked
<1>3. CASE attempt' = attempt
  BY <1>2, <1>3 DEF Body
<1>4. CASE WriteAttempt
  BY <1>2, <1>4 DEF WriteAttempt, At, PublicationInv, CoInv
<1>5. CASE RemoveAttempt
  <2>1. ReportOf(attempt) \in reported'
    BY <1>1, <1>5 DEF RemoveAttempt, At, PublicationInv, CoInv
  <2>2. /\ ReportOf(attempt).id = attempt.id /\ ReportOf(attempt).snap = attempt.snap
        /\ ReportOf(attempt).rel = attempt.rel
    BY DEF ReportOf
  <2>3. Body.snap = attempt.snap /\ Body.rel = attempt.rel
    BY DEF Body
  <2>4. QED BY <1>1, <2>1, <2>2, <2>3 DEF Asked
<1>6. CASE Writes
  <2>1. attempt # None /\ attempt \in Attempts
    BY <1>6 DEF Withdraw, SendSubmit, Submitted, DecideCommit, SendCommit, Committed, TakeTerminal,
       Verified, At, Answered, PublicationInv, CoInv, AttemptInv, Working
  <2>2. \/ attempt' = attempt
        \/ \E ph : attempt' = [attempt EXCEPT !.phase = ph]
        \/ \E ph, o : attempt' = [attempt EXCEPT !.phase = ph, !.outcome = o]
        \/ \E ph, d : attempt' = [attempt EXCEPT !.phase = ph, !.cand = d]
    <3>1. CASE Withdraw \/ Verified
      BY <3>1 DEF Withdraw, Verified, Conclude
    <3>2. CASE SendSubmit \/ Submitted \/ Committed
      BY <3>2 DEF SendSubmit, Submitted, Committed, Write
    <3>3. CASE DecideCommit
      BY <3>3 DEF DecideCommit, Conclude
    <3>4. CASE SendCommit
      BY <3>4 DEF SendCommit, Write, Conclude
    <3>5. CASE TakeTerminal
      BY <3>5 DEF TakeTerminal, Conclude
    <3>6. QED BY <1>6, <3>1, <3>2, <3>3, <3>4, <3>5
  <2>3. /\ attempt'.id = attempt.id /\ attempt'.snap = attempt.snap
        /\ attempt'.rel = attempt.rel /\ attempt'.expected = attempt.expected
    BY <2>1, <2>2 DEF Attempts
  <2>4. co \in Memory /\ co' \in Memory
    BY DEF PublicationInv, CoInv
  <2>5. co'.pc \in Working
    BY <1>6, <2>4 DEF Withdraw, SendSubmit, Submitted, DecideCommit, SendCommit, Committed,
       TakeTerminal, Verified, Conclude, Poll, Ask, Goto, Memory, Working
  <2>6. Same
    BY <2>3, <2>5 DEF PublicationInv, CoInv, Body
  <2>7. QED BY <1>2, <2>6
<1>7. QED
  BY <1>3, <1>4, <1>5, <1>6 DEF CoordinatorStep, StartAttempt, Unchanged, PersistArchive,
     LoadAttempt, ResumePolling, KeepPolling, GiveUp, ResumeTerminal, WriteLastResult,
     RemoveArchive, Interrupt

\* The coordinator sends no submission but the one of its attempt.
LEMMA SubmissionsSent ==
    ASSUME PublicationInv, CoordinatorStep \/ Interrupt,
           NEW c \in late' \union {wire'}, c.verb = "submit"
    PROVE  \/ c \in late \union {wire}
           \/ attempt # None /\ c.id = attempt.id /\ c.arg = Body
<1>1. late' \subseteq late \union {wire}
  BY CoordinatorFrame DEF Interrupt
<1>2. CASE wire' = wire
  BY <1>1, <1>2
<1>3. CASE wire' = NoCall \/ \E v, r, a : v # "submit" /\ wire' = Call(v, r, a)
  <2>1. NoCall.verb = "none" /\ \A v, r, a : Call(v, r, a).verb = v
    BY DEF Call, NoCall
  <2>2. wire'.verb # "submit"
    BY <1>3, <2>1
  <2>3. QED BY <1>1, <2>2
<1>4. CASE SendSubmit
  <2>1. attempt # None /\ wire' = Call("submit", attempt.id, Body)
    BY <1>4 DEF SendSubmit, Ask, At, PublicationInv, CoInv, Working
  <2>2. PICK r, b : r = attempt.id /\ b = Body /\ wire' = Call("submit", r, b)
    BY <2>1
  <2>3. wire'.id = r /\ wire'.arg = b
    BY <2>2 DEF Call, NoCall
  <2>4. QED BY <1>1, <2>1, <2>2, <2>3
<1>5. QED
  <2>1. \/ wire' = wire \/ wire' = NoCall \/ SendSubmit
        \/ \E r, a : \/ wire' = Call("status", r, a) \/ wire' = Call("commit", r, a)
                     \/ wire' = Call("current", r, a)
    BY DEF CoordinatorStep, StartAttempt, Unchanged, PersistArchive, WriteAttempt, LoadAttempt,
       Withdraw, Submitted, ResumePolling, KeepPolling, DecideCommit, SendCommit,
       Committed, TakeTerminal, Verified, GiveUp, ResumeTerminal, WriteLastResult,
       RemoveArchive, RemoveAttempt, Interrupt, Abandon, Conclude, Poll, Ask
  <2>2. QED BY <1>2, <1>3, <1>4, <2>1


\* A run of the coordinator.
LEMMA RequestRun ==
    ASSUME PublicationInv, PublicationInv', RequestInv, CoordinatorStep \/ Interrupt
    PROVE  RequestInv'
<1>1. \A r, b : Asked(r, b) => Asked(r, b)'
  BY AskedKept
<1>2. req' = req
  BY CoordinatorFrame DEF Interrupt, hostVars
<1>3. ASSUME NEW c \in late' \union {wire'}, c.verb = "submit"
      PROVE  Asked(c.id, c.arg)'
  <2>1. Asked(c.id, c.arg)
    BY <1>3, SubmissionsSent DEF RequestInv, Asked
  <2>2. QED BY <1>1, <2>1
<1>4. ASSUME NEW r \in Requests, req[r] # None
      PROVE  Asked(r, req[r])'
  <2>1. PICK b : b = req[r]
    OBVIOUS
  <2>2. Asked(r, b)'
    BY <1>1, <1>4, <2>1 DEF RequestInv
  <2>3. QED BY <1>2, <2>1, <2>2
<1>5. QED BY <1>2, <1>3, <1>4 DEF RequestInv

\* A receiver process: what it queues is what its call carries.
LEMMA RequestReceived ==
    ASSUME PublicationInv, RequestInv, NEW c \in late \union {wire}, Receive(c) \/ ReceiverFault(c)
    PROVE  RequestInv'
<1>1. UNCHANGED <<attempt, reported>>
  BY DEF Receive, ReceiveSubmit, ReceiveStatus, ReceiveCommit, ReceiveCurrent, ReceiverFault, ghosts
<1>2. \A r, b : Asked(r, b)' <=> Asked(r, b)
  BY <1>1 DEF Asked, Body
<1>3. /\ req \in [Requests -> [snap : Snapshots, rel : Releases,
                              expected : Candidates \union {None}] \union {None}]
      /\ wire \in Calls /\ late \subseteq Calls
  BY DEF PublicationInv, HostInv, CallsInv
<1>4. ASSUME NEW e \in late' \union {wire'}
      PROVE  \E f \in late \union {wire} : f.verb = e.verb /\ f.id = e.id /\ f.arg = e.arg
  <2>1. \/ \E o, d : Reply(c, o, d)
        \/ \E saw : GoOn(c, saw)
    BY DEF Receive, ReceiveSubmit, ReceiveStatus, ReceiveCommit, ReceiveCurrent, ReceiverFault
  <2>2. ASSUME NEW o, NEW d, Reply(c, o, d)
        PROVE  \E f \in late \union {wire} : f.verb = e.verb /\ f.id = e.id /\ f.arg = e.arg
    <3>1. CASE wire' = wire /\ late' \subseteq late
      BY <3>1
    <3>2. CASE late' = late /\ wire' = [wire EXCEPT !.step = 9, !.ans = [outcome |-> o, cand |-> d]]
      <4>1. wire'.verb = wire.verb /\ wire'.id = wire.id /\ wire'.arg = wire.arg
        BY <1>3, <3>2 DEF Calls
      <4>2. QED BY <3>2, <4>1
    <3>3. QED BY <2>2, <3>1, <3>2 DEF Reply
  <2>3. ASSUME NEW saw, GoOn(c, saw)
        PROVE  \E f \in late \union {wire} : f.verb = e.verb /\ f.id = e.id /\ f.arg = e.arg
    <3> DEFINE g == [c EXCEPT !.step = 1, !.saw = saw]
    <3>1. g.verb = c.verb /\ g.id = c.id /\ g.arg = c.arg
      BY <1>3 DEF Calls
    <3>2. \/ wire' = g /\ late' = late
          \/ wire' = wire /\ late' = (late \ {c}) \union {g}
      BY <2>3 DEF GoOn
    <3> HIDE DEF g
    <3>3. QED BY <3>1, <3>2
  <2>4. QED BY <2>1, <2>2, <2>3
<1>5. ASSUME NEW e \in late' \union {wire'}, e.verb = "submit"
      PROVE  Asked(e.id, e.arg)'
  BY <1>2, <1>4, <1>5 DEF RequestInv
<1>6. ASSUME NEW r \in Requests, req'[r] # None
      PROVE  Asked(r, req[r])'
  <2>1. \/ req' = req
        \/ /\ c.verb = "submit" /\ req[c.id] = None /\ req' = [req EXCEPT ![c.id] = c.arg]
    BY DEF Receive, ReceiveSubmit, ReceiveStatus, ReceiveCommit, ReceiveCurrent, ReceiverFault,
       Enqueue, hostVars
  <2>2. PICK b : b = req'[r]
    OBVIOUS
  <2>3. Asked(r, b)
    BY <1>3, <1>6, <2>1, <2>2 DEF RequestInv
  <2>4. QED BY <1>2, <2>2, <2>3
<1>7. QED BY <1>5, <1>6 DEF RequestInv

LEMMA RequestElsewhere ==
    ASSUME RequestInv, UNCHANGED <<req, attempt, reported, wire, late>>
    PROVE  RequestInv'
BY DEF RequestInv, Asked, Body

\* The host is asked for nothing but the attempts of the workstation: a request
\* holds the snapshot and the release of the pending attempt with its id, or of
\* the one that was reported, also when its submission was executed late.
THEOREM RequestsAreAttempts == SpecPublication => []RequestInv
<1>1. InitPublication => RequestInv
  BY DEF InitPublication, InitHost, RequestInv, NoCall
<1>2. PublicationInv /\ PublicationInv' /\ RequestInv /\ [NextPublication]_vars => RequestInv'
  <2> SUFFICES ASSUME PublicationInv, PublicationInv', RequestInv, [NextPublication]_vars
               PROVE  RequestInv'
    OBVIOUS
  <2>1. CASE CoordinatorStep \/ Interrupt
    BY <2>1, RequestRun
  <2>2. ASSUME NEW c \in late \union {wire}, Receive(c) \/ ReceiverFault(c)
        PROVE  RequestInv'
    BY <2>2, RequestReceived
  <2>3. ASSUME NEW r \in Requests, Process(r)
        PROVE  RequestInv'
    BY <2>3, RequestElsewhere DEF Process, coVars, ghosts, Answer, Apply, Finish, Settle
  <2>4. CASE ShowCurrent \/ ShowLate \/ Operate \/ Move \/ UNCHANGED vars
    BY <2>4, RequestElsewhere DEF ShowCurrent, ShowLate, Show, Operate, Choose, Move, vars, hostVars,
       coVars, ghosts
  <2>5. QED BY <2>1, <2>2, <2>3, <2>4 DEF NextPublication
<1>3. QED BY <1>1, <1>2, PublicationInvariant, PTL DEF SpecPublication


-----------------------------------------------------------------------------
(* What a host answers is what it was asked for *)

\* A candidate that is ready or authorized was built for its request: it has
\* the snapshot and the release the request asks for.
CandidateInv ==
    \A r \in Requests : result[r].outcome = "CANDIDATE_READY" \/ r \in marker =>
        /\ req[r] # None /\ result[r].outcome # "NONE"
        /\ result[r].cand.snap = req[r].snap /\ result[r].cand.rel = req[r].rel

\* PublicationHost keeps it, whoever implements the host.
LEMMA CandidateStep ==
    ASSUME HostInv, CandidateInv, [Next]_hostVars
    PROVE  CandidateInv'
<1>0. result \in [Requests -> Results] /\ marker \subseteq Requests
  BY DEF HostInv
<1>1. ASSUME NEW r \in Requests, NEW o \in Outcomes \ {"NONE"}, NEW d, Settle(r, o, d), req[r] # None,
             o = "CANDIDATE_READY" \/ r \in marker => d.snap = req[r].snap /\ d.rel = req[r].rel
      PROVE  CandidateInv'
  <2> DEFINE x == [outcome |-> o, cand |-> d]
  <2>1. result' = [result EXCEPT ![r] = x] /\ UNCHANGED <<req, marker>>
    BY <1>1 DEF Settle
  <2>2. x.outcome = o /\ x.cand = d
    OBVIOUS
  <2> HIDE DEF x
  <2>3. result'[r] = x /\ \A q \in Requests \ {r} : result'[q] = result[q]
    BY <1>0, <2>1
  <2>4. QED BY <1>1, <2>1, <2>2, <2>3 DEF CandidateInv
<1>2. ASSUME NEW r \in Requests, Answer(r)
      PROVE  CandidateInv'
  <2>1. r \notin marker /\ req[r] # None
    BY <1>2 DEF Answer, CandidateInv, NoResult
  <2>2. ASSUME NEW d \in Candidates, d.snap = req[r].snap, d.rel = req[r].rel,
               Settle(r, "CANDIDATE_READY", d)
        PROVE  CandidateInv'
    BY <1>1, <2>1, <2>2 DEF Outcomes
  <2>3. ASSUME NEW o \in Failures \union {"UNCHANGED"}, NEW d, Settle(r, o, d)
        PROVE  CandidateInv'
    BY <1>1, <2>1, <2>3 DEF Outcomes, Failures
  <2>4. QED BY <1>2, <2>2, <2>3 DEF Answer
<1>3. ASSUME NEW r \in Requests, Finish(r)
      PROVE  CandidateInv'
  <2>1. /\ req[r] # None /\ result[r].cand.snap = req[r].snap /\ result[r].cand.rel = req[r].rel
    BY <1>3 DEF Finish, CandidateInv
  <2>2. PICK o \in Failures \union {"PROMOTED", "UNCHANGED"} : Settle(r, o, result[r].cand)
    BY <1>3 DEF Finish
  <2>3. PICK d : d = result[r].cand /\ Settle(r, o, d)
    BY <2>2
  <2>4. QED BY <1>1, <2>1, <2>2, <2>3 DEF Outcomes, Failures
<1>4. ASSUME NEW r \in Requests, NEW b, Enqueue(r, b)
      PROVE  CandidateInv'
  <2>1. req[r] = None /\ UNCHANGED <<result, marker>> /\ \A q \in Requests \ {r} : req'[q] = req[q]
    BY <1>4 DEF Enqueue, HostInv
  <2>2. QED BY <2>1 DEF CandidateInv
<1>5. ASSUME NEW r \in Requests, Authorize(r)
      PROVE  CandidateInv'
  BY <1>5 DEF Authorize, CandidateInv
<1>6. CASE UNCHANGED <<req, result, marker>>
  BY <1>6 DEF CandidateInv
<1>7. QED BY <1>2, <1>3, <1>4, <1>5, <1>6 DEF Next, Apply, Choose, Show, hostVars

\* The candidate of a request that is ready to commit, or committed, is a build
\* of the snapshot and of the release its publisher sent.
THEOREM CandidatesAreBuiltForRequests == SpecPublication => []CandidateInv
<1>1. InitPublication => CandidateInv
  BY DEF InitPublication, InitHost, CandidateInv, NoResult
<1>2. PublicationInv /\ CandidateInv /\ [NextPublication]_vars => CandidateInv'
  BY CandidateStep, PublicationMaps DEF PublicationInv
<1>3. QED BY <1>1, <1>2, PublicationInvariant, PTL DEF SpecPublication

-----------------------------------------------------------------------------
(* What the host never takes back *)

\* Every step of PublicationHost, whoever implements it, keeps what was said.
LEMMA NextKeeps ==
    ASSUME HostInv, [Next]_hostVars
    PROVE  HostKeeps
<1>1. ASSUME NEW r \in Requests, NEW body, Enqueue(r, body)
      PROVE  HostKeeps
  BY <1>1 DEF Enqueue, HostKeeps
<1>2. ASSUME NEW r \in Requests, Authorize(r)
      PROVE  HostKeeps
  BY <1>2 DEF Authorize, HostKeeps
<1>3. CASE \/ \E r \in Requests : Answer(r) \/ Apply(r) \/ Finish(r)
           \/ \E d \in Candidates : Choose(d)
           \/ \E d \in seen \union {None} : Show(d)
           \/ UNCHANGED hostVars
  BY <1>3, HostStep
<1>4. QED BY <1>1, <1>2, <1>3 DEF Next

\* A final result is never changed, a marker never withdrawn, what was selected
\* stays known, and a ready candidate gets a final result only after its commit
\* was accepted: a coordinator that read one of them may rely on it, however
\* long it takes to act, and after a crash.
THEOREM WhatWasSaidStays == SpecPublication => [][HostKeeps]_vars
<1>1. PublicationInv /\ [NextPublication]_vars => [HostKeeps]_vars
  BY PublicationMaps, NextKeeps DEF PublicationInv
<1>2. QED BY <1>1, PublicationInvariant, PTL DEF SpecPublication
=============================================================================
