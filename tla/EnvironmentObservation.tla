------------------------ MODULE EnvironmentObservation ------------------------
(***************************************************************************)
(* Observations of an Environment and remedial redeployments that a plugin *)
(* asks the Data Plane for through Core (internal/api/plugin_observations, *)
(* plugin_observation_recovery and internal/model/environment_observation).*)
(*                                                                         *)
(* A submission first commits a proof-free intent and then, in a second    *)
(* transaction that reacquires all authority, calls the Data Plane while   *)
(* it holds the request's admission lock and the grant's lock.  The        *)
(* recovery of a request commits a closure, after which nothing more is    *)
(* sent, and then asks the Data Plane what became of the request.  Calls   *)
(* may be lost, or may reach the Data Plane after their sender gave up.    *)
(* Core processes that are older than the closures only meet the trigger   *)
(* that guards the journal.                                                *)
(*                                                                         *)
(* One grant and one target are considered; a request body names a grant   *)
(* revision.  The Data Plane is external: it decides a request once, keeps *)
(* its receipt, and leaves a tombstone where it resolved an absence.       *)
(***************************************************************************)
EXTENDS Naturals

CONSTANTS
    Observations,   \* request IDs of observations
    Redeployments,  \* request IDs of remedial redeployments
    ObservationOf,  \* the observation whose run a redeployment refers to
    Bodies,         \* exact request bodies
    BodiesOf,       \* those that may come with a request ID
    RevisionIn,     \* the grant revision that a body names
    Submitters,     \* submissions in progress
    Older,          \* those served by a Core process without closures
    Resolvers,      \* resolutions in progress
    None,           \* no body, no request
    MaxRevision,    \* bound: revisions of the grant
    MaxFailures     \* bound: resolutions that fail

Requests == Observations \cup Redeployments

ASSUME ObservationAssumption ==
    /\ Observations \cap Redeployments = {}
    /\ ObservationOf \in [Redeployments -> Observations]
    /\ BodiesOf \in [Requests -> SUBSET Bodies]
    /\ RevisionIn \in [Bodies -> Nat \ {0}]
    /\ Older \subseteq Submitters
    /\ None \notin Bodies
    /\ None \notin Requests
    /\ MaxRevision \in Nat
    /\ MaxFailures \in Nat

VARIABLES
    grant,     \* environment_observation_grants: revision and state
    issued,    \* environment_observation_grant_targets: revisions with the target
    journal,   \* request_body of an intent
    receipt,   \* the stored response of an observation request
    closure,   \* request_body of a closure
    outcome,   \* its state
    plane,     \* what the Data Plane decided for a request
    calls,     \* start calls on their way to the Data Plane
    submission, resolution,  \* requests that Core is serving
    failures   \* resolutions that failed

vars == <<grant, issued, journal, receipt, closure, outcome, plane, calls,
          submission, resolution, failures>>

Idle == [step |-> "idle", request |-> None, body |-> None]

\* The transaction around a call to the Data Plane is open.
InCall(x) == x.step \in {"calling", "answered"}

-----------------------------------------------------------------------------
(* Locks, held until a transaction ends.                                   *)

\* LockObservationAdmissionTx; older processes take it only to insert an intent.
AdmissionFree(r) ==
    /\ \A p \in Submitters \ Older : submission[p].request = r => ~InCall(submission[p])
    /\ \A q \in Resolvers : resolution[q].request = r => ~InCall(resolution[q])

\* Mutant: the lock of the grant is not held while the Data Plane is called.
GrantUnlocked == TRUE

\* lockExternalGrant.
GrantFree ==
    \A p \in Submitters : InCall(submission[p]) => submission[p].request \notin Observations

\* The journal row of an observation, read FOR UPDATE.
RowFree(r) ==
    r \in Observations =>
      \A p \in Submitters : submission[p].request = r => ~InCall(submission[p])

-----------------------------------------------------------------------------
(* The grant: ApplyObservationGrantCommandTx.                              *)

Replace(selected) ==
    /\ GrantFree
    /\ grant.revision < MaxRevision
    /\ grant' = [revision |-> grant.revision + 1, state |-> "active"]
    /\ issued' = IF selected THEN issued \cup {grant.revision + 1} ELSE issued
    /\ UNCHANGED <<journal, receipt, closure, outcome, plane, calls, submission, resolution, failures>>

Revoke ==
    /\ GrantFree
    /\ grant.revision < MaxRevision
    /\ grant' = [revision |-> grant.revision + 1, state |-> "revoked"]
    /\ UNCHANGED <<issued, journal, receipt, closure, outcome, plane, calls, submission, resolution, failures>>

Expire ==
    /\ grant.state = "active"
    /\ grant' = [grant EXCEPT !.state = "expired"]
    /\ UNCHANGED <<issued, journal, receipt, closure, outcome, plane, calls, submission, resolution, failures>>

-----------------------------------------------------------------------------
(* Submissions: TryStartObservation and RedeployObservationBaseline.       *)

\* CheckObservationGrantTargetTx.
GrantAllows(b) ==
    /\ grant.state = "active"
    /\ grant.revision = RevisionIn[b]
    /\ RevisionIn[b] \in issued

\* observationAuthority, observationRedeployAuthority.
Authorized(r, b) ==
    /\ r \in Observations => GrantFree /\ GrantAllows(b)
    /\ r \in Redeployments => receipt[ObservationOf[r]] = "accepted"

\* Mutant: what was settled as not started may be submitted again.
OpenWhenNotStarted(r) == outcome[r] \in {"open", "not_started"}

\* CheckObservationAdmissionOpenTx, environment_observation_journal_insert_guard.
AdmissionOpen(r) == closure[r] = None

\* The intent is committed; a repetition must be the same request.
RecordIntent(p, r, b) ==
    /\ submission[p].step = "idle"
    /\ AdmissionFree(r)
    /\ AdmissionOpen(r)
    /\ RowFree(r)
    /\ Authorized(r, b)
    /\ journal[r] \in {None, b}
    /\ journal' = [journal EXCEPT ![r] = b]
    /\ submission' = [submission EXCEPT ![p] = [step |-> "intended", request |-> r, body |-> b]]
    /\ UNCHANGED <<grant, issued, receipt, closure, outcome, plane, calls, resolution, failures>>

\* The second transaction takes all locks again.
Reauthorized(p) ==
    LET r == submission[p].request
    IN  /\ submission[p].step = "intended"
        /\ p \notin Older => AdmissionFree(r) /\ AdmissionOpen(r)
        /\ RowFree(r)
        /\ Authorized(r, submission[p].body)

\* A stored receipt answers an observation.
Replay(p) ==
    /\ Reauthorized(p)
    /\ submission[p].request \in Observations
    /\ receipt[submission[p].request] # "none"
    /\ submission' = [submission EXCEPT ![p] = Idle]
    /\ UNCHANGED <<grant, issued, journal, receipt, closure, outcome, plane, calls, resolution, failures>>

CallDataPlane(p) ==
    LET r == submission[p].request
    IN  /\ Reauthorized(p)
        /\ r \in Observations => receipt[r] = "none"
        /\ calls' = calls \cup {<<p, r>>}
        /\ submission' = [submission EXCEPT ![p].step = "calling"]
        /\ UNCHANGED <<grant, issued, journal, receipt, closure, outcome, plane, resolution, failures>>

\* CompleteObservationRequestTx keeps the first receipt.
Completed(r) ==
    [receipt EXCEPT ![r] = IF r \in Observations /\ @ = "none" THEN plane[r] ELSE @]

CommitCall(p) ==
    /\ submission[p].step = "answered"
    /\ receipt' = Completed(submission[p].request)
    /\ submission' = [submission EXCEPT ![p] = Idle]
    /\ UNCHANGED <<grant, issued, journal, closure, outcome, plane, calls, resolution, failures>>

\* A refusal, an error, a timeout or a crash; a call that was sent stays on its way.
Abandon(p) ==
    /\ submission[p].step # "idle"
    /\ submission' = [submission EXCEPT ![p] = Idle]
    /\ UNCHANGED <<grant, issued, journal, receipt, closure, outcome, plane, calls, resolution, failures>>

\* observationLookup of a request, and GetObservationRequest.
Lookup(r) ==
    /\ r \in Observations
    /\ journal[r] # None
    /\ RowFree(r)
    /\ plane[r] \in {"accepted", "skipped"}
    /\ receipt[r] = "none"
    /\ receipt' = Completed(r)
    /\ UNCHANGED <<grant, issued, journal, closure, outcome, plane, calls, submission, resolution, failures>>

-----------------------------------------------------------------------------
(* Recovery: closeObservationAdmission.                                    *)

\* validateMissing: without an intent the key must be one that could have been used.
KnownScope(r, b) ==
    /\ r \in Observations => RevisionIn[b] \in issued
    /\ r \in Redeployments => receipt[ObservationOf[r]] = "accepted"

\* The closure is committed before the Data Plane is asked; where no intent was ever
\* committed nothing was sent, and Core settles it on its own.  The journal is read,
\* and its row waited for, only when there is no closure yet.
Close(q, r, b) ==
    /\ resolution[q].step = "idle"
    /\ AdmissionFree(r)
    /\ closure[r] \in {None, b}
    /\ closure[r] = None => /\ RowFree(r)
                            /\ \/ journal[r] = b
                               \/ journal[r] = None /\ KnownScope(r, b)
    /\ closure' = [closure EXCEPT ![r] = b]
    /\ outcome' = [outcome EXCEPT ![r] =
         IF closure[r] # None THEN @
         ELSE IF journal[r] = None THEN "not_started" ELSE "close_requested"]
    /\ resolution' = [resolution EXCEPT ![q] = [step |-> "closed", request |-> r, body |-> b]]
    /\ UNCHANGED <<grant, issued, journal, receipt, plane, calls, submission, failures>>

\* A resolution that is stored is the answer.
ReplayResolution(q) ==
    /\ resolution[q].step = "closed"
    /\ AdmissionFree(resolution[q].request)
    /\ outcome[resolution[q].request] # "close_requested"
    /\ resolution' = [resolution EXCEPT ![q] = Idle]
    /\ UNCHANGED <<grant, issued, journal, receipt, closure, outcome, plane, calls, submission, failures>>

AskDataPlane(q) ==
    /\ resolution[q].step = "closed"
    /\ AdmissionFree(resolution[q].request)
    /\ outcome[resolution[q].request] = "close_requested"
    /\ resolution' = [resolution EXCEPT ![q].step = "calling"]
    /\ UNCHANGED <<grant, issued, journal, receipt, closure, outcome, plane, calls, submission, failures>>

\* Mutant: an observation that was answered before cannot be resolved.
NeverAnswered(r) == receipt[r] = "none"

\* recordObservationResolution: what is stored must not contradict the resolution.
Agrees(r) == plane[r] = "accepted" => receipt[r] \in {"none", "accepted"}

\* recordObservationResolution, CompleteObservationClosureTx.
CommitResolution(q) ==
    LET r == resolution[q].request
        accepted == plane[r] = "accepted"
    IN  /\ resolution[q].step = "answered"
        /\ Agrees(r)
        /\ accepted => RowFree(r)
        /\ receipt' = IF accepted THEN Completed(r) ELSE receipt
        /\ outcome' = [outcome EXCEPT ![r] =
             IF @ # "close_requested" THEN @
             ELSE IF accepted THEN "accepted" ELSE "not_started"]
        /\ resolution' = [resolution EXCEPT ![q] = Idle]
        /\ UNCHANGED <<grant, issued, journal, closure, plane, calls, submission, failures>>

FailResolution(q) ==
    /\ resolution[q].step # "idle"
    /\ failures < MaxFailures
    /\ failures' = failures + 1
    /\ resolution' = [resolution EXCEPT ![q] = Idle]
    /\ UNCHANGED <<grant, issued, journal, receipt, closure, outcome, plane, calls, submission>>

-----------------------------------------------------------------------------
(* The Data Plane.                                                         *)

\* A call starts the request unless it was decided; the sender may be gone.
PlaneStarts(p, r, d) ==
    /\ <<p, r>> \in calls
    /\ d = "skipped" => r \in Observations
    /\ calls' = calls \ {<<p, r>>}
    /\ plane' = [plane EXCEPT ![r] = IF @ = "undecided" THEN d ELSE @]
    /\ submission' = [submission EXCEPT ![p] =
         IF @.step = "calling" /\ @.request = r
           THEN IF plane[r] = "sealed" THEN Idle ELSE [@ EXCEPT !.step = "answered"]
           ELSE @]
    /\ UNCHANGED <<grant, issued, journal, receipt, closure, outcome, resolution, failures>>

PlaneLoses(p, r) ==
    /\ <<p, r>> \in calls
    /\ calls' = calls \ {<<p, r>>}
    /\ UNCHANGED <<grant, issued, journal, receipt, closure, outcome, plane, submission, resolution, failures>>

\* The Data Plane finds the request decided, or leaves its tombstone.
PlaneResolves(q) ==
    LET r == resolution[q].request
    IN  /\ resolution[q].step = "calling"
        /\ plane' = [plane EXCEPT ![r] = IF @ = "undecided" THEN "sealed" ELSE @]
        /\ resolution' = [resolution EXCEPT ![q].step = "answered"]
        /\ UNCHANGED <<grant, issued, journal, receipt, closure, outcome, calls, submission, failures>>

-----------------------------------------------------------------------------

Init ==
    /\ grant = [revision |-> 0, state |-> "absent"]
    /\ issued = {}
    /\ journal = [r \in Requests |-> None]
    /\ receipt = [r \in Requests |-> "none"]
    /\ closure = [r \in Requests |-> None]
    /\ outcome = [r \in Requests |-> "open"]
    /\ plane = [r \in Requests |-> "undecided"]
    /\ calls = {}
    /\ submission = [p \in Submitters |-> Idle]
    /\ resolution = [q \in Resolvers |-> Idle]
    /\ failures = 0

GrantStep == Revoke \/ Expire \/ \E selected \in BOOLEAN : Replace(selected)

Submit(p) ==
    \/ \E r \in Requests : \E b \in BodiesOf[r] : RecordIntent(p, r, b)
    \/ Replay(p) \/ CallDataPlane(p) \/ CommitCall(p) \/ Abandon(p)

Resolve(q) ==
    \/ \E r \in Requests : \E b \in BodiesOf[r] : Close(q, r, b)
    \/ ReplayResolution(q) \/ AskDataPlane(q) \/ CommitResolution(q) \/ FailResolution(q)

DataPlane ==
    \/ \E p \in Submitters, r \in Requests :
         \/ \E d \in {"accepted", "skipped"} : PlaneStarts(p, r, d)
         \/ PlaneLoses(p, r)
    \/ \E q \in Resolvers : PlaneResolves(q)

Next ==
    \/ GrantStep
    \/ \E p \in Submitters : Submit(p)
    \/ \E r \in Requests : Lookup(r)
    \/ \E q \in Resolvers : Resolve(q)
    \/ DataPlane

\* The plugin repeats a resolution that has no answer.
Retry(r) == outcome[r] = "close_requested" /\ \E q \in Resolvers : Close(q, r, closure[r])

\* Transactions end, the Data Plane answers a resolution, waiting for a lock ends if
\* it is freed again and again, and resolutions fail only finitely often.
Fairness ==
    /\ \A p \in Submitters : WF_vars(CommitCall(p) \/ Abandon(p))
    /\ \A r \in Requests : SF_vars(Retry(r))
    /\ \A q \in Resolvers :
         /\ SF_vars(AskDataPlane(q) \/ ReplayResolution(q))
         /\ WF_vars(PlaneResolves(q))
         /\ SF_vars(CommitResolution(q))

Spec == Init /\ [][Next]_vars /\ Fairness

-----------------------------------------------------------------------------
(* Properties.                                                             *)

\* What Core answered as the final outcome of a request is what happens in the Data
\* Plane, then and later: nothing runs that was settled as not started, even though
\* Core settles requests without an intent on its own, calls may arrive late and
\* older processes keep sending.
TerminalIsTrue ==
    \A r \in Requests : outcome[r] \in {"accepted", "not_started"} =>
      (outcome[r] = "accepted") <=> (plane[r] = "accepted")

\* While the Data Plane is asked for an observation, the grant revision that the
\* request names is the current one and is not revoked: a committed intent never
\* authorizes a later send.
SendsUnderCurrentGrant ==
    \A p \in Submitters :
      InCall(submission[p]) /\ submission[p].request \in Observations =>
        /\ grant.revision = RevisionIn[submission[p].body]
        /\ grant.state # "revoked"

\* A closure that was requested is resolved, if the plugin repeats the request.
ClosuresResolve ==
    \A r \in Requests :
      outcome[r] = "close_requested" ~> outcome[r] \in {"accepted", "not_started"}

=============================================================================
