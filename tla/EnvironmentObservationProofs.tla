--------------------- MODULE EnvironmentObservationProofs ---------------------
(***************************************************************************)
(* Proofs about EnvironmentObservation, for all sets of requests, bodies,  *)
(* submissions (older ones included) and resolutions.                      *)
(***************************************************************************)
EXTENDS EnvironmentObservation, TLAPS

Decided == {"accepted", "skipped", "sealed"}

\* The types that the argument needs.
Shapes ==
    /\ grant \in [revision : Nat, state : {"absent", "active", "revoked", "expired"}]
    /\ journal \in [Requests -> Bodies \cup {None}]
    /\ closure \in [Requests -> Bodies \cup {None}]
    /\ outcome \in [Requests -> {"open", "close_requested", "accepted", "not_started"}]
    /\ plane \in [Requests -> {"undecided"} \cup Decided]
    /\ calls \subseteq Submitters \X Requests
    /\ submission \in [Submitters -> [step : {"idle", "intended", "calling", "answered"},
                                      request : Requests \cup {None}, body : Bodies \cup {None}]]
    /\ resolution \in [Resolvers -> [step : {"idle", "closed", "calling", "answered"},
                                     request : Requests \cup {None}, body : Bodies \cup {None}]]

\* Nothing reaches the Data Plane without a committed intent.
IntentPrecedesSend ==
    /\ \A p \in Submitters : submission[p].step # "idle" =>
         submission[p].request \in Requests /\ journal[submission[p].request] # None
    /\ \A c \in calls : journal[c[2]] # None
    /\ \A r \in Requests : plane[r] # "undecided" => journal[r] # None

\* A closure that waits for the Data Plane has an intent; one that Core settled has
\* none, or the Data Plane will never start the request.
ClosureInv ==
    \A r \in Requests :
      /\ outcome[r] = "open" <=> closure[r] = None
      /\ outcome[r] = "close_requested" => journal[r] # None
      /\ outcome[r] = "accepted" => plane[r] = "accepted"
      /\ outcome[r] = "not_started" => journal[r] = None \/ plane[r] \in {"skipped", "sealed"}

\* A resolution calls the Data Plane only for a request with an intent.
ResolutionInv ==
    \A q \in Resolvers :
      /\ resolution[q].step # "idle" => resolution[q].request \in Requests
      /\ InCall(resolution[q]) => journal[resolution[q].request] # None
      /\ resolution[q].step = "answered" => plane[resolution[q].request] # "undecided"

IInv == Shapes /\ IntentPrecedesSend /\ ClosureInv /\ ResolutionInv

\* The initial state satisfies the inductive invariant.
LEMMA InitIInv == Init => IInv
  BY ObservationAssumption DEF Init, IInv, Shapes, IntentPrecedesSend, ClosureInv, ResolutionInv,
     Idle, InCall, Decided

\* Steps that touch nothing but the grant.
LEMMA GrantIInv ==
  ASSUME IInv, GrantStep
  PROVE  IInv'
  BY ObservationAssumption DEF GrantStep, Replace, Revoke, Expire, IInv, Shapes, IntentPrecedesSend, ClosureInv,
     ResolutionInv, InCall

\* The first transaction of a submission: the admission is open.
LEMMA IntentIInv ==
  ASSUME IInv, NEW p \in Submitters, NEW r \in Requests, NEW b \in Bodies, RecordIntent(p, r, b)
  PROVE  IInv'
<1>1. Shapes'
  BY DEF RecordIntent, IInv, Shapes
<1>2. \A x \in Requests : journal[x] # None => journal'[x] # None
  BY ObservationAssumption DEF RecordIntent, IInv, Shapes
<1>3. IntentPrecedesSend'
  BY <1>2, ObservationAssumption DEF RecordIntent, IInv, Shapes, IntentPrecedesSend
<1>4. ClosureInv'
  BY <1>2, ObservationAssumption DEF RecordIntent, AdmissionOpen, IInv, Shapes, ClosureInv
<1>5. ResolutionInv'
  BY <1>2 DEF RecordIntent, IInv, Shapes, ResolutionInv, InCall
<1> QED BY <1>1, <1>3, <1>4, <1>5 DEF IInv

\* The later steps of a submission.
LEMMA SubmitIInv ==
  ASSUME IInv, NEW p \in Submitters, Submit(p)
  PROVE  IInv'
<1>1. CASE \E r \in Requests : \E b \in BodiesOf[r] : RecordIntent(p, r, b)
  BY <1>1, IntentIInv, ObservationAssumption
<1>2. CASE Replay(p) \/ CommitCall(p) \/ Abandon(p)
  <2>1. /\ submission' = [submission EXCEPT ![p] = Idle]
        /\ UNCHANGED <<grant, journal, closure, outcome, plane, calls, resolution>>
    BY <1>2 DEF Replay, CommitCall, Abandon
  <2>2. Shapes' /\ ClosureInv' /\ ResolutionInv'
    BY <2>1 DEF Idle, IInv, Shapes, ClosureInv, ResolutionInv, InCall
  <2>3. IntentPrecedesSend'
    BY <2>1 DEF Idle, IInv, Shapes, IntentPrecedesSend
  <2> QED BY <2>2, <2>3 DEF IInv
<1>3. CASE CallDataPlane(p)
  <2>1. Shapes' /\ IntentPrecedesSend'
    BY <1>3 DEF CallDataPlane, Reauthorized, IInv, Shapes, IntentPrecedesSend
  <2>2. ClosureInv' /\ ResolutionInv'
    BY <1>3 DEF CallDataPlane, IInv, Shapes, ClosureInv, ResolutionInv, InCall
  <2> QED BY <2>1, <2>2 DEF IInv
<1> QED BY <1>1, <1>2, <1>3 DEF Submit

\* A lookup stores a receipt.
LEMMA LookupIInv ==
  ASSUME IInv, NEW r \in Requests, Lookup(r)
  PROVE  IInv'
  BY DEF Lookup, IInv, Shapes, IntentPrecedesSend, ClosureInv, ResolutionInv, InCall

\* The first transaction of a recovery settles only what has no intent.
LEMMA CloseIInv ==
  ASSUME IInv, NEW q \in Resolvers, NEW r \in Requests, NEW b \in Bodies, Close(q, r, b)
  PROVE  IInv'
<1>1. Shapes'
  BY DEF Close, IInv, Shapes
<1>2. IntentPrecedesSend'
  BY DEF Close, IInv, IntentPrecedesSend
<1>3. ClosureInv'
  <2>1. SUFFICES ASSUME NEW x \in Requests
                 PROVE  /\ outcome'[x] = "open" <=> closure'[x] = None
                        /\ outcome'[x] = "close_requested" => journal[x] # None
                        /\ outcome'[x] = "accepted" => plane[x] = "accepted"
                        /\ outcome'[x] = "not_started" => journal[x] = None \/ plane[x] \in {"skipped", "sealed"}
    BY DEF Close, ClosureInv
  <2>2. CASE x # r
    BY <2>2 DEF Close, IInv, Shapes, ClosureInv
  <2>3. CASE x = r
    BY <2>3, ObservationAssumption DEF Close, IInv, Shapes, ClosureInv
  <2> QED BY <2>2, <2>3
<1>4. ResolutionInv'
  BY DEF Close, IInv, Shapes, ResolutionInv, InCall
<1> QED BY <1>1, <1>2, <1>3, <1>4 DEF IInv

\* The later steps of a recovery.
LEMMA ResolveIInv ==
  ASSUME IInv, NEW q \in Resolvers, Resolve(q)
  PROVE  IInv'
<1>1. CASE \E r \in Requests : \E b \in BodiesOf[r] : Close(q, r, b)
  BY <1>1, CloseIInv, ObservationAssumption
<1>2. CASE ReplayResolution(q) \/ FailResolution(q)
  <2>1. /\ resolution' = [resolution EXCEPT ![q] = Idle]
        /\ UNCHANGED <<grant, journal, closure, outcome, plane, calls, submission>>
    BY <1>2 DEF ReplayResolution, FailResolution
  <2>2. Shapes' /\ ClosureInv' /\ IntentPrecedesSend'
    BY <2>1 DEF Idle, IInv, Shapes, ClosureInv, IntentPrecedesSend
  <2>3. ResolutionInv'
    BY <2>1 DEF Idle, IInv, Shapes, ResolutionInv, InCall
  <2> QED BY <2>2, <2>3 DEF IInv
<1>3. CASE AskDataPlane(q)
  <2>1. Shapes' /\ IntentPrecedesSend' /\ ClosureInv'
    BY <1>3 DEF AskDataPlane, IInv, Shapes, IntentPrecedesSend, ClosureInv
  <2>2. ResolutionInv'
    BY <1>3 DEF AskDataPlane, IInv, Shapes, ClosureInv, ResolutionInv, InCall
  <2> QED BY <2>1, <2>2 DEF IInv
<1>4. CASE CommitResolution(q)
  <2>1. resolution[q].request \in Requests
    BY <1>4 DEF CommitResolution, IInv, ResolutionInv
  <2>2. Shapes' /\ IntentPrecedesSend'
    BY <1>4, <2>1 DEF CommitResolution, Idle, IInv, Shapes, IntentPrecedesSend
  <2>3. ClosureInv'
    BY <1>4, <2>1 DEF CommitResolution, IInv, Shapes, ClosureInv, ResolutionInv, Decided
  <2>4. ResolutionInv'
    BY <1>4 DEF CommitResolution, Idle, IInv, Shapes, ResolutionInv, InCall
  <2> QED BY <2>2, <2>3, <2>4 DEF IInv
<1> QED BY <1>1, <1>2, <1>3, <1>4 DEF Resolve

\* A call that arrives, even late, concerns a request with an intent.
LEMMA StartIInv ==
  ASSUME IInv, NEW p \in Submitters, NEW r \in Requests, NEW d \in {"accepted", "skipped"},
         PlaneStarts(p, r, d)
  PROVE  IInv'
<1>1. journal[r] # None
  BY DEF PlaneStarts, IInv, IntentPrecedesSend
<1>2. \A x \in Requests : plane[x] # "undecided" => plane'[x] = plane[x]
  BY DEF PlaneStarts, IInv, Shapes
<1>3. Shapes'
  BY DEF PlaneStarts, IInv, Shapes, Idle, Decided
<1>4. IntentPrecedesSend'
  <2>1. \A x \in Submitters : submission'[x].step # "idle" =>
           submission[x].step # "idle" /\ submission'[x].request = submission[x].request
    BY DEF PlaneStarts, IInv, Shapes, Idle
  <2> QED BY <1>1, <2>1 DEF PlaneStarts, IInv, Shapes, IntentPrecedesSend
<1>5. ClosureInv'
  BY <1>1, <1>2 DEF PlaneStarts, IInv, Shapes, ClosureInv
<1>6. ResolutionInv'
  BY <1>2 DEF PlaneStarts, IInv, Shapes, ResolutionInv, InCall
<1> QED BY <1>3, <1>4, <1>5, <1>6 DEF IInv

\* All steps of the Data Plane.
LEMMA DataPlaneIInv ==
  ASSUME IInv, DataPlane
  PROVE  IInv'
<1>1. CASE \E p \in Submitters, r \in Requests : \E d \in {"accepted", "skipped"} : PlaneStarts(p, r, d)
  BY <1>1, StartIInv
<1>2. CASE \E p \in Submitters, r \in Requests : PlaneLoses(p, r)
  BY <1>2 DEF PlaneLoses, IInv, Shapes, IntentPrecedesSend, ClosureInv, ResolutionInv, InCall
<1>3. CASE \E q \in Resolvers : PlaneResolves(q)
  <2>1. PICK q \in Resolvers : PlaneResolves(q)
    BY <1>3
  <2>2. resolution[q].request \in Requests /\ journal[resolution[q].request] # None
    BY <2>1 DEF PlaneResolves, IInv, ResolutionInv, InCall
  <2>3. \A x \in Requests : plane[x] # "undecided" => plane'[x] = plane[x]
    BY <2>1 DEF PlaneResolves, IInv, Shapes
  <2>4. Shapes' /\ IntentPrecedesSend'
    BY <2>1, <2>2 DEF PlaneResolves, IInv, Shapes, IntentPrecedesSend, Decided
  <2>5. ClosureInv'
    BY <2>1, <2>2, <2>3 DEF PlaneResolves, IInv, Shapes, ClosureInv
  <2>6. ResolutionInv'
    BY <2>1, <2>2, <2>3 DEF PlaneResolves, IInv, Shapes, ResolutionInv, InCall
  <2> QED BY <2>4, <2>5, <2>6 DEF IInv
<1> QED BY <1>1, <1>2, <1>3 DEF DataPlane

\* The invariant is inductive.
LEMMA NextIInv == IInv /\ [Next]_vars => IInv'
<1>1. ASSUME IInv, UNCHANGED vars PROVE IInv'
  BY <1>1 DEF vars, IInv, Shapes, IntentPrecedesSend, ClosureInv, ResolutionInv, InCall
<1> QED BY <1>1, GrantIInv, SubmitIInv, LookupIInv, ResolveIInv, DataPlaneIInv DEF Next

\* The terminal answer of a recovery is the truth about the Data Plane, for every
\* number of submissions, older processes and resolutions.
THEOREM TerminalAnswer == Spec => []TerminalIsTrue
<1>1. IInv => TerminalIsTrue
  BY DEF IInv, Shapes, IntentPrecedesSend, ClosureInv, TerminalIsTrue
<1> QED BY <1>1, InitIInv, NextIInv, PTL DEF Spec

\* While an observation is being sent its grant revision is current and not revoked.
THEOREM SendAuthority == Spec => []SendsUnderCurrentGrant
<1> DEFINE J == IInv /\ SendsUnderCurrentGrant
<1>1. Init => J
  BY InitIInv DEF Init, SendsUnderCurrentGrant, Idle, InCall
<1>2. J /\ [Next]_vars => J'
  <2> SUFFICES ASSUME J, [Next]_vars PROVE SendsUnderCurrentGrant'
    BY NextIInv
  <2>1. CASE GrantStep
    BY <2>1 DEF GrantStep, Replace, Revoke, Expire, GrantFree, InCall, SendsUnderCurrentGrant, IInv, Shapes
  <2>2. ASSUME NEW p \in Submitters, Submit(p) PROVE SendsUnderCurrentGrant'
    <3>1. CASE CallDataPlane(p)
      BY <3>1 DEF CallDataPlane, Reauthorized, Authorized, GrantAllows, InCall, SendsUnderCurrentGrant,
         IInv, Shapes
    <3>2. CASE ~CallDataPlane(p)
      <4>1. grant' = grant
        BY <2>2, <3>2 DEF Submit, RecordIntent, Replay, CommitCall, Abandon
      <4>2. /\ ~InCall(submission'[p])
            /\ \A x \in Submitters \ {p} : submission'[x] = submission[x]
        <5>1. CASE \E r \in Requests : \E b \in BodiesOf[r] : RecordIntent(p, r, b)
          BY <5>1 DEF RecordIntent, InCall, IInv, Shapes
        <5>2. CASE Replay(p) \/ CommitCall(p) \/ Abandon(p)
          BY <5>2 DEF Replay, CommitCall, Abandon, Idle, InCall, IInv, Shapes
        <5> QED BY <2>2, <3>2, <5>1, <5>2 DEF Submit
      <4> QED BY <4>1, <4>2 DEF InCall, SendsUnderCurrentGrant, IInv, Shapes
    <3> QED BY <3>1, <3>2
  <2>3. CASE \E r \in Requests : Lookup(r)
    BY <2>3 DEF Lookup, InCall, SendsUnderCurrentGrant
  <2>4. CASE \E q \in Resolvers : Resolve(q)
    BY <2>4 DEF Resolve, Close, ReplayResolution, AskDataPlane, CommitResolution, FailResolution, InCall,
       SendsUnderCurrentGrant
  <2>5. CASE DataPlane
    <3>1. grant' = grant
      BY <2>5 DEF DataPlane, PlaneStarts, PlaneLoses, PlaneResolves
    <3>2. \A x \in Submitters : InCall(submission'[x]) =>
             /\ InCall(submission[x])
             /\ submission'[x].request = submission[x].request
             /\ submission'[x].body = submission[x].body
      <4>1. ASSUME NEW p \in Submitters, NEW r \in Requests, NEW d, PlaneStarts(p, r, d), NEW x \in Submitters,
                   InCall(submission'[x])
            PROVE  /\ InCall(submission[x])
                   /\ submission'[x].request = submission[x].request
                   /\ submission'[x].body = submission[x].body
        <5>1. CASE x = p /\ submission[p].step = "calling" /\ submission[p].request = r
          BY <4>1, <5>1 DEF PlaneStarts, InCall, Idle, IInv, Shapes
        <5>2. CASE ~(x = p /\ submission[p].step = "calling" /\ submission[p].request = r)
          BY <4>1, <5>2 DEF PlaneStarts, InCall, IInv, Shapes
        <5> QED BY <5>1, <5>2
      <4> QED BY <2>5, <4>1 DEF DataPlane, PlaneLoses, PlaneResolves
    <3> QED BY <3>1, <3>2 DEF SendsUnderCurrentGrant, InCall
  <2>6. CASE UNCHANGED vars
    BY <2>6 DEF vars, InCall, SendsUnderCurrentGrant
  <2> QED BY <2>1, <2>2, <2>3, <2>4, <2>5, <2>6 DEF Next
<1>3. J => SendsUnderCurrentGrant
  OBVIOUS
<1> QED BY <1>1, <1>2, <1>3, PTL DEF Spec

=============================================================================
