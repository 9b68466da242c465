------------------------- MODULE PluginManagerProofs -------------------------
(***************************************************************************)
(* Proofs about PluginManager, for all sets of packages, installations,    *)
(* organizations, effects and replicas and for every sequence of commands. *)
(***************************************************************************)
EXTENDS PluginManager, FiniteSetTheorems, TLAPS

States == {"none", "installed", "active", "disabled", "uninstalled", "purged"}
Rows == [state : States, package : Packages \cup {None}, target : Packages \cup {None},
         mode : {"selected", "all"}]
Enablements == [installation : Installations, state : {"enabled", "disabled"}]
Plans == [revision : Nat, installation : Installations \cup {None}, limited : BOOLEAN]
Reasons == {"no", "host_off", "limit_reached", "removed"}
Uses == [installation : Installations, package : Packages \cup {None},
         organization : Organizations, safety : BOOLEAN]

\* The types that the argument needs.
Shapes ==
    /\ revision \in Nat
    /\ installation \in [Installations -> Rows]
    /\ enablement \in [Organizations -> {NoEnablement} \cup Enablements]
    /\ organization \in [Organizations -> {"absent", "new", "bare", "settled"}]
    /\ creation \in [Organizations -> {None} \cup Plans]
    /\ skipped \in [Organizations -> Reasons]
    /\ effect \in [Effects -> {None} \cup Uses]
    /\ work \in [Organizations -> {"none", "open", "settled"}]

Live(i) == installation[i].state \notin {"none", "purged"}

\* One installation of the plugin at a time; only a served one serves all
\* organizations or has enablements.
Ownership ==
    /\ \A i, j \in Installations : Live(i) /\ Live(j) => i = j
    /\ \A i \in Installations : installation[i].mode = "all" => IsServed(i)
    /\ \A o \in Organizations :
         enablement[o] # NoEnablement =>
           enablement[o].installation \in Installations /\ IsServed(enablement[o].installation)
    /\ \A o \in Organizations : organization[o] = "absent" => enablement[o] = NoEnablement

\* What a creation read under the lock still holds when it commits.
CreationInv ==
    /\ \A o, p \in Organizations : creation[o] # None /\ creation[p] # None => o = p
    /\ \A o \in Organizations : creation[o] # None =>
         /\ organization[o] = "absent"
         /\ creation[o].installation # None =>
              creation[o].installation \in Installations
              /\ installation[creation[o].installation].mode = "all"
         /\ creation[o].installation = None /\ ~creation[o].limited =>
              \A i \in Installations : installation[i].mode # "all"

\* Snapshots and activations name installations.
SnapshotInv ==
    /\ DOMAIN snapshot = Replicas /\ DOMAIN refresh = Replicas
    /\ \A r \in Replicas : DOMAIN snapshot[r].view \subseteq Installations
    /\ \A r \in Replicas : DOMAIN refresh[r] = Refreshers
    /\ \A r \in Replicas, t \in Refreshers :
         refresh[r][t] # None => DOMAIN refresh[r][t].view \subseteq Installations

ActivationInv == activation # None => activation.installation \in Installations

IInv ==
    /\ Shapes
    /\ Ownership
    /\ CreationInv
    /\ EffectsAreCurrent
    /\ WorkKeepsItsInstallation
    /\ AllServesEveryOrganization

-----------------------------------------------------------------------------
(* Effects.                                                                *)

\* What an effect relies on, without the snapshot's vocabulary.
Current(f) ==
    /\ IsServed(f.installation)
    /\ installation[f.installation].package = f.package
    /\ enablement[f.organization].installation = f.installation
    /\ \/ f.safety
       \/ /\ installation[f.installation].state = "active"
          /\ enablement[f.organization].state = "enabled"

\* What the view calls available.
LEMMA Available ==
  ASSUME NEW i, NEW o
  PROVE  /\ enablement[o].installation = i =>
              (Availability(i, o) = "available"
               <=> installation[i].state = "active" /\ enablement[o].state = "enabled")
         /\ enablement'[o].installation = i =>
              (Availability(i, o)' = "available"
               <=> installation'[i].state = "active" /\ enablement'[o].state = "enabled")
  BY DEF Availability

\* RequirePluginEnablement asks for exactly that.
LEMMA RequireIsCurrent ==
  ASSUME NEW f \in Uses
  PROVE  RequirePluginEnablement(f.installation, f.package, f.organization, f.safety)
         <=> Current(f)
  <1>1. f.safety \in BOOLEAN
    BY DEF Uses
  <1>2. CASE f.safety = TRUE
    BY <1>2 DEF RequirePluginEnablement, Current
  <1>3. CASE f.safety = FALSE
    BY <1>3, Available DEF RequirePluginEnablement, Current
  <1> QED
    BY <1>1, <1>2, <1>3

\* The same of the state after a step.
LEMMA RequireIsCurrentNext ==
  ASSUME NEW f \in Uses
  PROVE  RequirePluginEnablement(f.installation, f.package, f.organization, f.safety)'
         <=> Current(f)'
  <1>1. f.safety \in BOOLEAN
    BY DEF Uses
  <1>2. CASE f.safety = TRUE
    BY <1>2 DEF RequirePluginEnablement, Current, IsServed
  <1>3. CASE f.safety = FALSE
    BY <1>3, Available DEF RequirePluginEnablement, Current, IsServed
  <1> QED
    BY <1>1, <1>2, <1>3

\* The invariant in these terms.
LEMMA EffectsCurrent ==
  ASSUME Shapes
  PROVE  EffectsAreCurrent <=> \A e \in Effects : effect[e] # None => Current(effect[e])
  <1>1. \A e \in Effects : effect[e] # None => effect[e] \in Uses
    BY DEF Shapes
  <1> QED
    BY <1>1, RequireIsCurrent DEF EffectsAreCurrent

\* The same of the state after a step.
LEMMA EffectsCurrentNext ==
  ASSUME Shapes'
  PROVE  EffectsAreCurrent' <=> \A e \in Effects : effect'[e] # None => Current(effect[e])'
  <1>1. \A e \in Effects : effect'[e] # None => effect'[e] \in Uses
    BY DEF Shapes
  <1> QED
    BY <1>1, RequireIsCurrentNext DEF EffectsAreCurrent

\* A step that leaves the rows of the effects in progress alone keeps them current.
LEMMA KeepsEffects ==
  ASSUME Shapes, Shapes', EffectsAreCurrent, effect' = effect,
         \A e \in Effects : effect[e] # None =>
           /\ installation'[effect[e].installation] = installation[effect[e].installation]
           /\ enablement'[effect[e].organization] = enablement[effect[e].organization]
  PROVE  EffectsAreCurrent'
  <1>1. \A e \in Effects : effect[e] # None => Current(effect[e])
    BY EffectsCurrent
  <1>2. \A e \in Effects : effect'[e] # None => Current(effect[e])'
    BY <1>1 DEF Current, IsServed
  <1> QED
    BY <1>2, EffectsCurrentNext

-----------------------------------------------------------------------------
(* Commands.                                                               *)

\* The initial state satisfies the inductive invariant.
LEMMA InitIInv == Init => IInv
  BY PluginAssumption DEF Init, IInv, Shapes, Ownership, CreationInv, EffectsAreCurrent,
     WorkKeepsItsInstallation, AllServesEveryOrganization, NoInstallation, NoEnablement, Rows,
     States, Live, IsServed, Committed, NothingSkipped, Reasons

\* A new installation comes when every other one is purged.
LEMMA CreateStep ==
  ASSUME IInv, NEW i \in Installations, NEW p \in Packages, CreateInstallation(i, p)
  PROVE  IInv'
  <1> USE DEF IInv, CreateInstallation, Execute, stateVars, effectVars, replicaVars
  <1>1. Shapes'
    BY DEF Shapes, Rows, States
  <1>2. Ownership' /\ CreationInv' /\ WorkKeepsItsInstallation' /\ AllServesEveryOrganization'
    BY DEF Shapes, Rows, States, Ownership, CreationInv, WorkKeepsItsInstallation,
       AllServesEveryOrganization, Live, IsServed, Committed, ManagerFree
  <1>3. EffectsAreCurrent'
    BY <1>1, KeepsEffects, EffectsCurrent DEF Shapes, Current, IsServed, Uses
  <1> QED
    BY <1>1, <1>2, <1>3

\* Activate, disable, enable, reinstall, purge and upgrade change the row of an
\* installation that no effect shares, and neither its mode nor whether it is served.
LEMMA RowStep ==
  ASSUME IInv, NEW i \in Installations, NEW row \in Rows, Update(i, row), Live(i),
         row.mode = installation[i].mode,
         IsServed(i) => row.state \in {"active", "disabled"},
         enablement' = enablement, skipped' = skipped
  PROVE  IInv'
  <1> USE DEF IInv, Update, Execute, effectVars, replicaVars
  <1>1. Shapes'
    BY DEF Shapes
  <1>2. Ownership'
    BY DEF Shapes, Rows, Ownership, Live, IsServed
  <1>3. CreationInv' /\ AllServesEveryOrganization'
    BY DEF Shapes, Rows, CreationInv, AllServesEveryOrganization, Committed, ManagerFree
  <1>4. WorkKeepsItsInstallation'
    BY DEF Shapes, WorkKeepsItsInstallation, IsServed
  <1>5. EffectsAreCurrent'
    BY <1>1, KeepsEffects DEF Shapes, Uses, RowFree
  <1> QED
    BY <1>1, <1>2, <1>3, <1>4, <1>5

\* The four transitions without further conditions.
LEMMA TransitionStep ==
  ASSUME IInv, NEW i \in Installations, Transition(i)
  PROVE  IInv'
  <1> DEFINE row(to) == [installation[i] EXCEPT !.state = to]
  <1>1. PICK from \in States, to \in States :
          /\ <<from, to>> \in {<<"active", "disabled">>, <<"disabled", "active">>,
                              <<"uninstalled", "installed">>, <<"uninstalled", "purged">>}
          /\ TransitionTo(i, from, to)
    BY DEF Transition, States
  <1>2. row(to) \in Rows /\ row(to).mode = installation[i].mode /\ row(to).state = to
    BY DEF IInv, Shapes, Rows
  <1>3. Live(i) /\ (IsServed(i) => to \in {"active", "disabled"})
    BY <1>1 DEF TransitionTo, Live, IsServed
  <1> HIDE DEF row
  <1> QED
    BY <1>1, <1>2, <1>3, RowStep DEF TransitionTo, row

\* An upgrade changes the target only.
LEMMA UpgradeStep ==
  ASSUME IInv, NEW i \in Installations, NEW p \in Packages, Upgrade(i, p)
  PROVE  IInv'
  <1> DEFINE row == [installation[i] EXCEPT !.target =
                       IF p = installation[i].package THEN None ELSE p]
  <1>1. row \in Rows /\ row.mode = installation[i].mode /\ row.state = installation[i].state
    BY DEF IInv, Shapes, Rows
  <1>2. Live(i)
    BY DEF Upgrade, Live
  <1>3. Update(i, row) /\ enablement' = enablement /\ skipped' = skipped
    BY DEF Upgrade
  <1> HIDE DEF row
  <1> QED
    BY <1>1, <1>2, <1>3, RowStep DEF IsServed

\* An activation serves the package it was proved for.
LEMMA ActivateStep ==
  ASSUME IInv, Activate, activation.installation \in Installations
  PROVE  IInv'
  <1> DEFINE i == activation.installation
             row == [installation[i] EXCEPT
                       !.state = IF @ = "installed" THEN "active" ELSE @,
                       !.package = ToServe(i), !.target = None]
  <1>0. installation[i] \in Rows /\ ToServe(i) \in Packages \cup {None}
    BY DEF IInv, Shapes, Rows, ToServe
  <1>1. row \in Rows /\ row.mode = installation[i].mode
        /\ (IsServed(i) => row.state \in {"active", "disabled"})
    BY <1>0 DEF Rows, States, IsServed
  <1>2. Live(i)
    BY DEF Activate, AwaitsProof, Live, IsServed
  <1>3. Update(i, row) /\ enablement' = enablement /\ skipped' = skipped
    BY DEF Activate
  <1> HIDE DEF i, row
  <1>4. i \in Installations
    BY DEF i
  <1> QED
    BY <1>1, <1>2, <1>3, <1>4, RowStep

\* Uninstalling, with no work open: the enablements of the installation go.
LEMMA UninstallStep ==
  ASSUME IInv, NEW i \in Installations, Uninstall(i)
  PROVE  IInv'
  <1> USE DEF IInv, Uninstall, Update, Execute, effectVars, replicaVars
  <1>0. Live(i) /\ NoEnablement.installation \notin Installations
    BY PluginAssumption DEF Live, NoEnablement
  <1>1. Shapes'
    <2>1. installation' \in [Installations -> Rows]
      <3>1. [installation[i] EXCEPT !.state = "uninstalled", !.target = None,
                                    !.mode = "selected"] \in Rows
        BY DEF Shapes, Rows, States
      <3> QED
        BY <3>1 DEF Shapes
    <2>2. enablement' \in [Organizations -> {NoEnablement} \cup Enablements]
      BY DEF Shapes
    <2> QED
      BY <2>1, <2>2 DEF Shapes, NothingSkipped, Reasons
  <1>a. /\ installation' = [installation EXCEPT ![i] = installation'[i]]
        /\ installation'[i].state = "uninstalled" /\ installation'[i].mode = "selected"
    BY DEF Shapes, Rows
  <1>b. \A o \in Organizations :
          /\ enablement'[o] \in {enablement[o], NoEnablement}
          /\ enablement[o].installation = i => enablement'[o] = NoEnablement
    OBVIOUS
  <1>2. Ownership'
    <2>1. \A j, k \in Installations : Live(j)' /\ Live(k)' => j = k
      BY <1>0, <1>a DEF Shapes, Ownership, Live
    <2>2. \A j \in Installations : installation'[j].mode = "all" => IsServed(j)'
      BY <1>0, <1>a DEF Shapes, Ownership, IsServed
    <2>3. \A o \in Organizations : enablement'[o] = NoEnablement
      BY <1>0, <1>b DEF Shapes, Ownership, Live, IsServed
    <2> QED
      BY <2>1, <2>2, <2>3 DEF Ownership, Live, IsServed
  <1>3. \A j \in Installations : installation'[j].mode # "all"
    BY <1>0 DEF Shapes, Rows, Ownership, Live, IsServed
  <1>4. CreationInv' /\ AllServesEveryOrganization'
    BY <1>3 DEF CreationInv, AllServesEveryOrganization, ManagerFree
  <1>5. WorkKeepsItsInstallation'
    BY DEF WorkKeepsItsInstallation, WorkSettled
  <1>6. \A e \in Effects : effect[e] # None => enablement[effect[e].organization].installation # i
    BY EffectsCurrent DEF Current, RowFree
  <1>7. EffectsAreCurrent'
    BY <1>1, <1>6, KeepsEffects DEF Shapes, Uses, RowFree
  <1> QED
    BY <1>1, <1>2, <1>4, <1>5, <1>7

\* The mode switch enables every organization that has no enablement: the others
\* have one of this installation, the only live one.
LEMMA ModeStep ==
  ASSUME IInv, NEW i \in Installations, NEW mode \in {"selected", "all"},
         SetOrganizationMode(i, mode)
  PROVE  IInv'
  <1> DEFINE pending == IF mode = "all" THEN WithoutEnablement ELSE {}
             row == [installation[i] EXCEPT !.mode = mode]
  <1>a. /\ installation[i].state \notin {"none", "purged"}
        /\ mode = "all" => IsServed(i)
        /\ ManagerFree /\ RowFree(i)
        /\ revision' = revision + 1
        /\ installation' = [installation EXCEPT ![i] = row]
        /\ enablement' = [o \in Organizations |->
              IF o \in pending THEN Enablement(i, "enabled") ELSE enablement[o]]
        /\ skipped' = NothingSkipped
        /\ UNCHANGED <<organization, creation, effect, work>>
    BY DEF SetOrganizationMode, Update, Execute, effectVars
  <1>b. row \in Rows /\ row.mode = mode /\ row.state = installation[i].state
    BY DEF IInv, Shapes, Rows
  <1>c. /\ pending \subseteq Organizations
        /\ \A o \in pending : enablement[o] = NoEnablement /\ organization[o] # "absent"
        /\ Enablement(i, "enabled") \in Enablements
        /\ Enablement(i, "enabled").installation = i
        /\ NoEnablement.installation = None /\ None \notin Installations
    BY PluginAssumption DEF WithoutEnablement, Committed, Enablement, Enablements, NoEnablement
  <1> HIDE DEF row, pending
  <1>1. Shapes'
    BY <1>a, <1>b, <1>c DEF IInv, Shapes, NothingSkipped, Reasons
  <1>2. Ownership'
    <2>1. \A j \in Installations :
            /\ installation'[j].state = installation[j].state
            /\ j # i => installation'[j].mode = installation[j].mode
      BY <1>a, <1>b DEF IInv, Shapes
    <2>2. \A j, k \in Installations : Live(j)' /\ Live(k)' => j = k
      BY <2>1 DEF IInv, Ownership, Live
    <2>3. \A j \in Installations : installation'[j].mode = "all" => IsServed(j)'
      BY <1>a, <1>b, <2>1 DEF IInv, Shapes, Ownership, IsServed
    <2>4. \A o \in Organizations : enablement'[o] # NoEnablement =>
            enablement'[o].installation \in Installations /\ IsServed(enablement[o].installation)'
      <3> SUFFICES ASSUME NEW o \in Organizations, enablement'[o] # NoEnablement
                   PROVE  enablement'[o].installation \in Installations
                          /\ IsServed(enablement[o].installation)'
        OBVIOUS
      <3>1. CASE o \in pending
        <4>1. mode = "all" /\ enablement'[o].installation = i
          BY <3>1, <1>a, <1>c DEF pending
        <4> QED
          BY <4>1, <1>a, <2>1 DEF IsServed
      <3>2. CASE o \notin pending
        BY <3>2, <1>a, <2>1 DEF IInv, Ownership, IsServed
      <3> QED
        BY <3>1, <3>2
    <2>5. \A o \in Organizations : organization'[o] = "absent" => enablement'[o] = NoEnablement
      BY <1>a, <1>c DEF IInv, Ownership
    <2> QED
      BY <2>2, <2>3, <2>4, <2>5 DEF Ownership
  <1>3. CreationInv'
    BY <1>a DEF IInv, CreationInv, ManagerFree
  <1>4. WorkKeepsItsInstallation'
    BY <1>a, <1>b DEF IInv, Shapes, WorkKeepsItsInstallation, IsServed
  <1>5. AllServesEveryOrganization'
    <2>1. CASE mode = "all"
      <3> SUFFICES ASSUME NEW j \in Installations, installation'[j].mode = "all",
                          NEW o \in Organizations, organization[o] # "absent"
                   PROVE  enablement'[o].installation = j
        BY <1>a DEF AllServesEveryOrganization, Committed
      <3>1. j = i
        BY <1>a, <1>b DEF IInv, Shapes, Ownership, Live, IsServed
      <3>2. CASE o \in pending
        BY <3>1, <3>2, <1>a, <1>c
      <3>3. CASE o \notin pending
        <4>1. enablement[o] # NoEnablement
          BY <2>1, <3>3 DEF pending, WithoutEnablement, Committed
        <4>2. enablement[o].installation = i
          BY <4>1, <1>a DEF IInv, Ownership, Live, IsServed
        <4> QED
          BY <3>1, <3>3, <4>2, <1>a
      <3> QED
        BY <3>2, <3>3
    <2>2. CASE mode = "selected"
      <3>1. \A j \in Installations : installation'[j].mode # "all"
        BY <2>2, <1>a, <1>b DEF IInv, Shapes, Ownership, Live, IsServed
      <3> QED
        BY <3>1 DEF AllServesEveryOrganization
    <2> QED
      BY <2>1, <2>2
  <1>6. EffectsAreCurrent'
    <2>1. \A e \in Effects : effect[e] # None =>
             effect[e] \in Uses /\ enablement[effect[e].organization].installation = effect[e].installation
      BY EffectsCurrent DEF IInv, Shapes, Current
    <2>2. \A e \in Effects : effect[e] # None => effect[e].organization \notin pending
      BY <2>1, <1>c DEF Uses
    <2> QED
      BY <2>1, <2>2, <1>1, <1>a, KeepsEffects DEF IInv, Shapes, Uses, RowFree
  <1> QED
    BY <1>1, <1>2, <1>3, <1>4, <1>5, <1>6 DEF IInv

\* Put replaces the enablement of an organization that no effect shares.
LEMMA PutStep ==
  ASSUME IInv, NEW i \in Installations, NEW o \in Organizations,
         NEW s \in {"enabled", "disabled"}, PutEnablement(i, o, s)
  PROVE  IInv'
  <1>a. /\ IsServed(i) /\ organization[o] # "absent"
        /\ ManagerFree /\ RowFree(i) /\ EnablementFree(o)
        /\ revision' = revision + 1
        /\ installation' = installation
        /\ enablement' = [enablement EXCEPT ![o] = Enablement(i, s)]
        /\ skipped' = [skipped EXCEPT ![o] = "no"]
        /\ UNCHANGED <<organization, creation, effect, work>>
    BY DEF PutEnablement, Update, Execute, effectVars, Committed, IInv, Shapes
  <1>b. Enablement(i, s) \in Enablements /\ Enablement(i, s).installation = i
    BY DEF Enablement, Enablements
  <1>1. Shapes'
    BY <1>a, <1>b DEF IInv, Shapes, Reasons
  <1>2. Ownership'
    BY <1>a, <1>b DEF IInv, Shapes, Ownership, Live, IsServed
  <1>3. CreationInv' /\ WorkKeepsItsInstallation'
    BY <1>a DEF IInv, CreationInv, ManagerFree, WorkKeepsItsInstallation, IsServed
  <1>4. AllServesEveryOrganization'
    <2>1. \A j \in Installations : installation[j].mode = "all" => j = i
      BY <1>a DEF IInv, Ownership, Live, IsServed
    <2> QED
      BY <1>a, <1>b, <2>1 DEF IInv, Shapes, AllServesEveryOrganization, Committed
  <1>5. EffectsAreCurrent'
    BY <1>a, <1>1, KeepsEffects DEF IInv, Shapes, Uses, EnablementFree
  <1> QED
    BY <1>1, <1>2, <1>3, <1>4, <1>5 DEF IInv

\* Remove takes an enablement away that no effect shares; an organization that an
\* installation in mode all loses this way counts as skipped.
LEMMA RemoveStep ==
  ASSUME IInv, NEW i \in Installations, NEW o \in Organizations, RemoveEnablement(i, o)
  PROVE  IInv'
  <1>a. /\ enablement[o] # NoEnablement /\ MayRemove(i, o)
        /\ ManagerFree /\ EnablementFree(o)
        /\ revision' = revision + 1
        /\ installation' = installation
        /\ enablement' = [enablement EXCEPT ![o] = NoEnablement]
        /\ skipped' = [skipped EXCEPT ![o] =
              IF enablement[o].installation \in ServingAll THEN "removed" ELSE @]
        /\ UNCHANGED <<organization, creation, effect, work>>
    BY DEF RemoveEnablement, Update, Execute, effectVars, IInv, Shapes
  <1>1. Shapes'
    BY <1>a DEF IInv, Shapes, Reasons
  <1>2. Ownership'
    BY <1>a DEF IInv, Shapes, Ownership, Live, IsServed
  <1>3. CreationInv' /\ WorkKeepsItsInstallation'
    BY <1>a DEF IInv, CreationInv, ManagerFree, WorkKeepsItsInstallation, IsServed
  <1>4. AllServesEveryOrganization'
    <2>1. \A j \in Installations : installation[j].mode = "all" => enablement[o].installation = j
      BY <1>a DEF IInv, Ownership, Live, IsServed
    <2> QED
      BY <1>a, <2>1 DEF IInv, Shapes, AllServesEveryOrganization, Committed, MayRemove, ServingAll
  <1>5. EffectsAreCurrent'
    BY <1>a, <1>1, KeepsEffects DEF IInv, Shapes, Uses, EnablementFree
  <1> QED
    BY <1>1, <1>2, <1>3, <1>4, <1>5 DEF IInv

-----------------------------------------------------------------------------
(* Organizations.                                                          *)

\* A creation that begins holds the lock alone.
LEMMA BeginOrganizationStep ==
  ASSUME IInv, NEW o \in Organizations, BeginOrganization(o)
  PROVE  IInv'
  <1>a. PICK i \in IF ServingAll = {} THEN {None} ELSE ServingAll :
          creation' = [creation EXCEPT ![o] =
            [revision |-> revision,
             installation |-> IF i # None /\ WithinLimit(i, 1) THEN i ELSE None,
             limited |-> i # None /\ ~WithinLimit(i, 1)]]
    BY DEF BeginOrganization
  <1>b. /\ organization[o] = "absent" /\ ManagerFree
        /\ UNCHANGED <<revision, installation, enablement, organization, skipped, effect, work>>
    BY DEF BeginOrganization, effectVars
  <1>c. i = None \/ (i \in Installations /\ installation[i].mode = "all")
    BY DEF ServingAll
  <1>d. i = None => \A j \in Installations : installation[j].mode # "all"
    BY PluginAssumption DEF ServingAll
  <1>1. Shapes'
    BY <1>a, <1>b, <1>c DEF IInv, Shapes, Plans
  <1>2. Ownership' /\ WorkKeepsItsInstallation' /\ AllServesEveryOrganization'
    BY <1>b DEF IInv, Ownership, WorkKeepsItsInstallation, AllServesEveryOrganization, Live,
       IsServed, Committed
  <1>3. CreationInv'
    <2>1. \A p \in Organizations : p # o => creation'[p] = None
      BY <1>a, <1>b DEF IInv, Shapes, ManagerFree
    <2>2. /\ creation'[o].installation = IF i # None /\ WithinLimit(i, 1) THEN i ELSE None
          /\ creation'[o].limited = (i # None /\ ~WithinLimit(i, 1))
      BY <1>a DEF IInv, Shapes
    <2>3. creation'[o].installation # None =>
            creation'[o].installation \in Installations
            /\ installation[creation'[o].installation].mode = "all"
      BY <2>2, <1>c
    <2>4. creation'[o].installation = None /\ ~creation'[o].limited => i = None
      BY <2>2
    <2> QED
      BY <2>1, <2>3, <2>4, <1>b, <1>d DEF CreationInv
  <1>4. EffectsAreCurrent'
    BY <1>b, <1>1, KeepsEffects DEF IInv
  <1> QED
    BY <1>1, <1>2, <1>3, <1>4 DEF IInv

\* A creation commits what it read under the lock.
LEMMA CommitOrganizationStep ==
  ASSUME IInv, NEW o \in Organizations, CommitOrganization(o)
  PROVE  IInv'
  <1> DEFINE i == creation[o].installation
  <1>a. /\ creation[o] # None
        /\ creation' = [creation EXCEPT ![o] = None]
        /\ organization' = [organization EXCEPT ![o] = "new"]
        /\ UNCHANGED <<installation, effect, work>>
        /\ skipped' = [skipped EXCEPT ![o] =
                        IF creation[o].limited THEN "limit_reached" ELSE @]
    BY DEF CommitOrganization, effectVars
  <1>b. /\ i # None => enablement' = [enablement EXCEPT ![o] = Enablement(i, "enabled")]
        /\ i = None => enablement' = enablement
        /\ revision' \in Nat
    BY DEF CommitOrganization, SystemRevision, IInv, Shapes, Plans
  <1>c. /\ creation[o] \in Plans
        /\ organization[o] = "absent" /\ enablement[o] = NoEnablement
        /\ i # None => i \in Installations /\ installation[i].mode = "all" /\ IsServed(i)
        /\ i = None /\ ~creation[o].limited => \A j \in Installations : installation[j].mode # "all"
    BY <1>a DEF IInv, Shapes, CreationInv, Ownership
  <1>d. i # None => Enablement(i, "enabled") \in Enablements /\ Enablement(i, "enabled").installation = i
    BY <1>c DEF Enablement, Enablements
  <1> HIDE DEF i
  <1>1. Shapes'
    BY <1>a, <1>b, <1>c, <1>d DEF IInv, Shapes, Reasons
  <1>2. Ownership'
    BY <1>a, <1>b, <1>c, <1>d DEF IInv, Shapes, Ownership, Live, IsServed
  <1>3. CreationInv' /\ WorkKeepsItsInstallation'
    BY <1>a DEF IInv, Shapes, CreationInv, WorkKeepsItsInstallation, IsServed
  <1>4. AllServesEveryOrganization'
    <2> SUFFICES ASSUME NEW j \in Installations, installation[j].mode = "all",
                        NEW p \in Organizations, organization'[p] # "absent"
                 PROVE  \/ enablement'[p].installation = j
                        \/ skipped'[p] \in {"host_off", "limit_reached", "removed"}
      BY <1>a DEF AllServesEveryOrganization, Committed
    <2>1. CASE p # o
      BY <2>1, <1>a, <1>b DEF IInv, Shapes, AllServesEveryOrganization, Committed
    <2>2. CASE p = o /\ i # None
      <3>1. i = j
        BY <2>2, <1>c DEF IInv, Ownership, Live, IsServed
      <3> QED
        BY <3>1, <2>2, <1>b, <1>d DEF IInv, Shapes
    <2>3. CASE p = o /\ i = None
      BY <2>3, <1>a, <1>c DEF IInv, Shapes
    <2> QED
      BY <2>1, <2>2, <2>3
  <1>5. EffectsAreCurrent'
    <2>1. \A e \in Effects : effect[e] # None =>
            effect[e] \in Uses /\ enablement[effect[e].organization].installation = effect[e].installation
      BY EffectsCurrent DEF IInv, Shapes, Current
    <2>2. \A e \in Effects : effect[e] # None => effect[e].organization # o
      BY <2>1, <1>c, PluginAssumption DEF Uses, NoEnablement
    <2> QED
      BY <2>1, <2>2, <1>1, <1>a, <1>b, KeepsEffects DEF IInv, Shapes, Uses
  <1> QED
    BY <1>1, <1>2, <1>3, <1>4, <1>5 DEF IInv

\* A creation that rolls back, and an organization that gets its administrator.
LEMMA SettleOrganizationStep ==
  ASSUME IInv, NEW o \in Organizations, RollBackOrganization(o) \/ SettleOrganization(o)
  PROVE  IInv'
  <1>a. /\ UNCHANGED <<revision, installation, enablement, skipped, effect, work>>
        /\ \/ creation' = [creation EXCEPT ![o] = None] /\ organization' = organization
           \/ /\ organization[o] # "absent" /\ creation' = creation
              /\ organization' = [organization EXCEPT ![o] = "settled"]
    BY DEF RollBackOrganization, SettleOrganization, effectVars
  <1>1. Shapes'
    BY <1>a DEF IInv, Shapes
  <1>2. Ownership' /\ WorkKeepsItsInstallation' /\ AllServesEveryOrganization'
    BY <1>a DEF IInv, Shapes, Ownership, WorkKeepsItsInstallation, AllServesEveryOrganization,
       Live, IsServed, Committed
  <1>3. CreationInv'
    BY <1>a DEF IInv, Shapes, CreationInv
  <1>4. EffectsAreCurrent'
    BY <1>a, <1>1, KeepsEffects DEF IInv
  <1> QED
    BY <1>1, <1>2, <1>3, <1>4 DEF IInv

\* A discarded organization loses its enablement, which no effect shares.
LEMMA DiscardOrganizationStep ==
  ASSUME IInv, NEW o \in Organizations, DiscardOrganization(o)
  PROVE  IInv'
  <1>a. /\ ManagerFree
        /\ organization' = [organization EXCEPT ![o] = "absent"]
        /\ skipped' = [skipped EXCEPT ![o] = "no"]
        /\ UNCHANGED <<installation, creation, effect, work>>
    BY DEF DiscardOrganization, effectVars
  <1>b. /\ enablement' = [enablement EXCEPT ![o] = NoEnablement]
        /\ revision' \in Nat
        /\ enablement[o] # NoEnablement => RowFree(enablement[o].installation)
    BY DEF DiscardOrganization, SystemRevision, IInv, Shapes
  <1>1. Shapes'
    BY <1>a, <1>b DEF IInv, Shapes, Reasons
  <1>2. Ownership'
    BY <1>a, <1>b DEF IInv, Shapes, Ownership, Live, IsServed
  <1>3. CreationInv' /\ WorkKeepsItsInstallation'
    BY <1>a DEF IInv, CreationInv, ManagerFree, WorkKeepsItsInstallation, IsServed
  <1>4. AllServesEveryOrganization'
    BY <1>a, <1>b DEF IInv, Shapes, AllServesEveryOrganization, Committed
  <1>5. EffectsAreCurrent'
    <2>1. \A e \in Effects : effect[e] # None =>
            effect[e] \in Uses /\ enablement[effect[e].organization].installation = effect[e].installation
      BY EffectsCurrent DEF IInv, Shapes, Current
    <2>2. \A e \in Effects : effect[e] # None => effect[e].organization # o
      BY <2>1, <1>b, PluginAssumption DEF Uses, NoEnablement, RowFree
    <2> QED
      BY <2>1, <2>2, <1>1, <1>a, <1>b, KeepsEffects DEF IInv, Shapes, Uses
  <1> QED
    BY <1>1, <1>2, <1>3, <1>4, <1>5 DEF IInv

\* A server without the plugin host adds an organization that counts as skipped, and
\* removes it again only while it has no enablement.
LEMMA WithoutHostStep ==
  ASSUME IInv, NEW o \in Organizations, CreateWithoutHost(o) \/ DiscardWithoutHost(o)
  PROVE  IInv'
  <1>a. /\ UNCHANGED <<revision, installation, enablement, creation, effect, work>>
        /\ creation[o] = None \/ organization[o] # "absent"
        /\ enablement[o] = NoEnablement
        /\ \/ /\ organization' = [organization EXCEPT ![o] = "bare"]
              /\ skipped' = [skipped EXCEPT ![o] = IF ServingAll = {} THEN "no" ELSE "host_off"]
           \/ /\ organization' = [organization EXCEPT ![o] = "absent"]
              /\ skipped' = [skipped EXCEPT ![o] = "no"]
    BY DEF CreateWithoutHost, DiscardWithoutHost, effectVars, IInv, Ownership
  <1>1. Shapes'
    BY <1>a DEF IInv, Shapes, Reasons
  <1>2. Ownership' /\ WorkKeepsItsInstallation'
    BY <1>a DEF IInv, Shapes, Ownership, WorkKeepsItsInstallation, Live, IsServed
  <1>3. CreationInv'
    <2>1. creation[o] = None
      BY <1>a DEF IInv, CreationInv
    <2> QED
      BY <1>a, <2>1 DEF IInv, Shapes, CreationInv
  <1>4. AllServesEveryOrganization'
    BY <1>a DEF IInv, Shapes, AllServesEveryOrganization, Committed, ServingAll
  <1>5. EffectsAreCurrent'
    BY <1>a, <1>1, KeepsEffects DEF IInv
  <1> QED
    BY <1>1, <1>2, <1>3, <1>4, <1>5 DEF IInv

-----------------------------------------------------------------------------
(* Effects begin and end.                                                  *)

\* An effect begins with what it just read of the rows.
LEMMA BeginEffectStep ==
  ASSUME IInv, NEW e \in Effects, NEW r \in Replicas, NEW o \in Organizations,
         NEW safety \in BOOLEAN, BeginEffect(e, r, o, safety), SnapshotInv
  PROVE  IInv'
  <1>a. UNCHANGED <<revision, installation, enablement, organization, creation, skipped, work>>
    BY DEF BeginEffect, stateVars
  <1>b. PICK i \in DOMAIN snapshot[r].view :
          /\ RequirePluginEnablement(i, snapshot[r].view[i].package, o, safety)
          /\ effect' = [effect EXCEPT ![e] =
               [installation |-> i, package |-> snapshot[r].view[i].package,
                organization |-> o, safety |-> safety]]
    BY DEF BeginEffect
  <1>c. IsServed(i) /\ enablement[o].installation = i
        /\ installation[i].package = snapshot[r].view[i].package
    BY <1>b DEF RequirePluginEnablement
  <1>d. i \in Installations /\ installation[i].package \in Packages \cup {None}
    <2>1. i \in Installations
      BY <1>b DEF SnapshotInv
    <2> QED
      BY <2>1 DEF IInv, Shapes, Rows
  <1> DEFINE f == [installation |-> i, package |-> snapshot[r].view[i].package,
                   organization |-> o, safety |-> safety]
  <1>e. f \in Uses
    BY <1>c, <1>d DEF Uses
  <1>f. RequirePluginEnablement(f.installation, f.package, f.organization, f.safety)
    BY <1>b
  <1> HIDE DEF f
  <1>1. Shapes'
    BY <1>a, <1>b, <1>e DEF IInv, Shapes, f
  <1>2. Ownership' /\ CreationInv' /\ WorkKeepsItsInstallation' /\ AllServesEveryOrganization'
    BY <1>a DEF IInv, Ownership, CreationInv, WorkKeepsItsInstallation,
       AllServesEveryOrganization, Live, IsServed, Committed
  <1>3. Current(f)
    BY <1>e, <1>f, RequireIsCurrent
  <1>4. EffectsAreCurrent'
    <2>1. effect' = [effect EXCEPT ![e] = f]
      BY <1>b DEF f
    <2>2. \A d \in Effects : effect'[d] # None => Current(effect'[d])
      BY <2>1, <1>3, EffectsCurrent DEF IInv, Shapes
    <2>3. \A d \in Effects : effect'[d] # None => Current(effect[d])'
      BY <2>2, <1>a DEF Current, IsServed
    <2> QED
      BY <2>3, <1>1, EffectsCurrentNext
  <1> QED
    BY <1>1, <1>2, <1>4 DEF IInv

\* An effect ends; work it opened has the installation it ran under.
LEMMA EndEffectStep ==
  ASSUME IInv, NEW e \in Effects,
         RollBackEffect(e) \/ \E outcome \in {"open", "settled"} : CommitEffect(e, outcome)
  PROVE  IInv'
  <1>a. /\ UNCHANGED <<revision, installation, enablement, organization, creation, skipped>>
        /\ effect[e] # None
        /\ effect' = [effect EXCEPT ![e] = None]
        /\ \/ work' = work
           \/ \E outcome \in {"open", "settled"} :
                work' = [work EXCEPT ![effect[e].organization] = outcome]
    BY DEF RollBackEffect, CommitEffect, stateVars
  <1>b. effect[e] \in Uses /\ Current(effect[e])
    BY <1>a, EffectsCurrent DEF IInv, Shapes
  <1>1. Shapes'
    BY <1>a, <1>b DEF IInv, Shapes, Uses
  <1>2. Ownership' /\ CreationInv' /\ AllServesEveryOrganization'
    BY <1>a DEF IInv, Ownership, CreationInv, AllServesEveryOrganization, Live, IsServed, Committed
  <1>3. WorkKeepsItsInstallation'
    BY <1>a, <1>b DEF IInv, WorkKeepsItsInstallation, Current, IsServed, Uses
  <1>4. EffectsAreCurrent'
    <2>1. \A d \in Effects : effect'[d] # None => effect'[d] = effect[d] /\ Current(effect[d])
      BY <1>a, EffectsCurrent DEF IInv, Shapes
    <2>2. \A d \in Effects : effect'[d] # None => Current(effect[d])'
      BY <2>1, <1>a DEF Current, IsServed
    <2> QED
      BY <2>2, <1>1, EffectsCurrentNext
  <1> QED
    BY <1>1, <1>2, <1>3, <1>4 DEF IInv

-----------------------------------------------------------------------------
(* The invariant.                                                          *)

\* Refresh and restart keep the snapshots well formed; nothing else touches them.
LEMMA SnapshotStep ==
  ASSUME SnapshotInv, [Next]_vars
  PROVE  SnapshotInv'
  <1>1. ASSUME NEW r \in Replicas, NEW t \in Refreshers, LoadSnapshot(r, t)
        PROVE  SnapshotInv'
    <2>1. DOMAIN Snapshot(revision, ServedView).view \subseteq Installations
      BY DEF Snapshot, ServedView
    <2> QED
      BY <1>1, <2>1 DEF SnapshotInv, LoadSnapshot
  <1>2. ASSUME NEW r \in Replicas, NEW t \in Refreshers, Replace(r, t)
        PROVE  SnapshotInv'
    BY <1>2 DEF SnapshotInv, Replace
  <1>3. ASSUME NEW r \in Replicas, Restart(r)
        PROVE  SnapshotInv'
    <2>1. DOMAIN Snapshot(0, EmptyView).view = {}
      BY DEF Snapshot, EmptyView
    <2> QED
      BY <1>3, <2>1 DEF SnapshotInv, Restart
  <1>4. ASSUME UNCHANGED <<snapshot, refresh>>
        PROVE  SnapshotInv'
    BY <1>4 DEF SnapshotInv
  <1>5. ASSUME NEW i \in Installations, InstallationCommand(i)
        PROVE  UNCHANGED <<snapshot, refresh>>
    BY <1>5 DEF InstallationCommand, CreateInstallation, Upgrade, Transition, TransitionTo,
       Uninstall, SetOrganizationMode, ImportEntitlementBundle, Update, Execute, replicaVars
  <1>6. ASSUME NEW i \in Installations, NEW o \in Organizations, EnablementCommand(i, o)
        PROVE  UNCHANGED <<snapshot, refresh>>
    BY <1>6 DEF EnablementCommand, PutEnablement, RemoveEnablement, Update, Execute, replicaVars
  <1>7. ASSUME Activation
        PROVE  UNCHANGED <<snapshot, refresh>>
    BY <1>7 DEF Activation, ReadStatus, Activate, AbandonActivation, Update, Execute, replicaVars
  <1>8. ASSUME NEW o \in Organizations, OrganizationStep(o)
        PROVE  UNCHANGED <<snapshot, refresh>>
    BY <1>8 DEF OrganizationStep, BeginOrganization, CommitOrganization, RollBackOrganization,
       SettleOrganization, DiscardOrganization, CreateWithoutHost, DiscardWithoutHost, replicaVars
  <1>9. ASSUME NEW e \in Effects, EffectStep(e)
        PROVE  UNCHANGED <<snapshot, refresh>>
    BY <1>9 DEF EffectStep, BeginEffect, CommitEffect, RollBackEffect, replicaVars
  <1> QED
    BY <1>1, <1>2, <1>3, <1>4, <1>5, <1>6, <1>7, <1>8, <1>9 DEF Next, RefreshStep, vars, replicaVars

\* An activation in progress names an installation.
LEMMA ActivationStep ==
  ASSUME ActivationInv, [Next]_vars
  PROVE  ActivationInv'
  <1>1. ASSUME NEW i \in Installations, NEW report \in Reports, ReadStatus(i, report)
        PROVE  ActivationInv'
    BY <1>1 DEF ReadStatus, ActivationInv
  <1>2. ASSUME activation' \in {activation, None}
        PROVE  ActivationInv'
    BY <1>2 DEF ActivationInv
  <1>3. ASSUME NEW i \in Installations, InstallationCommand(i)
        PROVE  activation' = activation
    BY <1>3 DEF InstallationCommand, CreateInstallation, Upgrade, Transition, TransitionTo,
       Uninstall, SetOrganizationMode, ImportEntitlementBundle
  <1>4. ASSUME NEW i \in Installations, NEW o \in Organizations, EnablementCommand(i, o)
        PROVE  activation' = activation
    BY <1>4 DEF EnablementCommand, PutEnablement, RemoveEnablement
  <1>5. ASSUME NEW o \in Organizations, OrganizationStep(o)
        PROVE  activation' = activation
    BY <1>5 DEF OrganizationStep, BeginOrganization, CommitOrganization, RollBackOrganization,
       SettleOrganization, DiscardOrganization, CreateWithoutHost, DiscardWithoutHost
  <1>6. ASSUME NEW e \in Effects, EffectStep(e)
        PROVE  activation' = activation
    BY <1>6 DEF EffectStep, BeginEffect, CommitEffect, RollBackEffect
  <1>7. ASSUME NEW r \in Replicas, NEW t \in Refreshers, RefreshStep(r, t)
        PROVE  activation' = activation
    BY <1>7 DEF RefreshStep, LoadSnapshot, Replace
  <1>8. ASSUME NEW r \in Replicas, Restart(r)
        PROVE  activation' = activation
    BY <1>8 DEF Restart
  <1> QED
    BY <1>1, <1>2, <1>3, <1>4, <1>5, <1>6, <1>7, <1>8 DEF Next, Activation, Activate,
       AbandonActivation, vars

\* Every step keeps the inductive invariant.
LEMMA NextIInv ==
  ASSUME IInv, SnapshotInv, ActivationInv, [Next]_vars
  PROVE  IInv'
  <1>1. ASSUME UNCHANGED <<revision, installation, enablement, organization, creation, skipped,
                           effect, work>>
        PROVE  IInv'
    <2>1. Shapes'
      BY <1>1 DEF IInv, Shapes
    <2>2. Ownership' /\ CreationInv' /\ WorkKeepsItsInstallation' /\ AllServesEveryOrganization'
      BY <1>1 DEF IInv, Ownership, CreationInv, WorkKeepsItsInstallation,
         AllServesEveryOrganization, Live, IsServed, Committed
    <2>3. EffectsAreCurrent'
      BY <1>1, <2>1, KeepsEffects DEF IInv
    <2> QED
      BY <2>1, <2>2, <2>3 DEF IInv
  <1>2. ASSUME NEW i \in Installations, InstallationCommand(i)
        PROVE  IInv'
    <2>1. ASSUME NEW n \in Limits, ImportEntitlementBundle(i, n)
          PROVE  IInv'
      <3>1. /\ revision' = revision + 1
            /\ UNCHANGED <<installation, enablement, organization, creation, skipped, effect, work>>
        BY <2>1 DEF ImportEntitlementBundle, Execute, effectVars
      <3>2. Shapes'
        BY <3>1 DEF IInv, Shapes
      <3>3. Ownership' /\ CreationInv' /\ WorkKeepsItsInstallation' /\ AllServesEveryOrganization'
        BY <3>1 DEF IInv, Ownership, CreationInv, WorkKeepsItsInstallation,
           AllServesEveryOrganization, Live, IsServed, Committed
      <3>4. EffectsAreCurrent'
        BY <3>1, <3>2, KeepsEffects DEF IInv
      <3> QED
        BY <3>2, <3>3, <3>4 DEF IInv
    <2> QED
      BY <1>2, <2>1, CreateStep, UpgradeStep, TransitionStep, UninstallStep, ModeStep
         DEF InstallationCommand
  <1>3. ASSUME NEW i \in Installations, NEW o \in Organizations, EnablementCommand(i, o)
        PROVE  IInv'
    BY <1>3, PutStep, RemoveStep DEF EnablementCommand
  <1>4. CASE Activation
    <2>1. CASE Activate
      BY <2>1, ActivateStep DEF Activate, ActivationInv
    <2>2. CASE ~Activate
      BY <1>1, <1>4, <2>2 DEF Activation, ReadStatus, AbandonActivation, stateVars, effectVars
    <2> QED
      BY <2>1, <2>2
  <1>5. ASSUME NEW o \in Organizations, OrganizationStep(o)
        PROVE  IInv'
    BY <1>5, BeginOrganizationStep, CommitOrganizationStep, SettleOrganizationStep,
       DiscardOrganizationStep, WithoutHostStep DEF OrganizationStep
  <1>6. ASSUME NEW e \in Effects, EffectStep(e)
        PROVE  IInv'
    BY <1>6, BeginEffectStep, EndEffectStep DEF EffectStep
  <1>7. ASSUME NEW r \in Replicas, NEW t \in Refreshers, RefreshStep(r, t)
        PROVE  IInv'
    BY <1>1, <1>7 DEF RefreshStep, LoadSnapshot, Replace, stateVars, effectVars
  <1>8. ASSUME NEW r \in Replicas, Restart(r)
        PROVE  IInv'
    BY <1>1, <1>8 DEF Restart, stateVars, effectVars
  <1>9. CASE UNCHANGED vars
    BY <1>1, <1>9 DEF vars, stateVars, effectVars
  <1> QED
    BY <1>2, <1>3, <1>4, <1>5, <1>6, <1>7, <1>8, <1>9 DEF Next

\* The inductive invariant holds of every behaviour.
LEMMA AlwaysIInv == Spec => [](IInv /\ SnapshotInv /\ ActivationInv)
  <1>1. Init => SnapshotInv /\ ActivationInv
    BY DEF Init, SnapshotInv, ActivationInv, Snapshot, EmptyView
  <1> QED
    BY <1>1, InitIInv, NextIInv, SnapshotStep, ActivationStep, PTL DEF Spec

\* However commands, new organizations and effects interleave, an effect that passed
\* RequirePluginEnablement runs under rows that still say so until it commits.
THEOREM EffectAuthority == Spec => []EffectsAreCurrent
  BY AlwaysIInv, PTL DEF IInv

\* Uninstalling never cuts off work that Core still holds for the plugin, although
\* work commits concurrently with the command that counts it.
THEOREM WorkStaysReachable == Spec => []WorkKeepsItsInstallation
  BY AlwaysIInv, PTL DEF IInv

\* The lock of the Plugin Manager orders a new organization against the switch to
\* mode all: whichever commits second sees the other.  An organization is left out
\* only if its server runs no plugin host, the limit was reached, or its enablement
\* was removed through an earlier installation.
THEOREM EveryOrganizationServed == Spec => []AllServesEveryOrganization
  BY AlwaysIInv, PTL DEF IInv

-----------------------------------------------------------------------------
(* Activation.                                                             *)

\* What is served after the step was served before it, in the same package.
ServesNothingNew ==
    \A i \in Installations :
      IsServed(i)' => IsServed(i) /\ installation'[i].package = installation[i].package

\* No command but an activation begins to serve a package.
LEMMA OnlyActivationServes ==
  ASSUME Shapes, [Next]_vars, ~Activate
  PROVE  ServesNothingNew
  <1>1. ASSUME installation' = installation
        PROVE  ServesNothingNew
    BY <1>1 DEF ServesNothingNew, IsServed
  <1>2. ASSUME NEW i \in Installations, NEW row,
               installation' = [installation EXCEPT ![i] = row],
               row.state \in {"active", "disabled"} =>
                 IsServed(i) /\ row.package = installation[i].package
        PROVE  ServesNothingNew
    BY <1>2 DEF ServesNothingNew, IsServed, Shapes
  <1>3. ASSUME NEW i \in Installations, InstallationCommand(i)
        PROVE  ServesNothingNew
    <2>0. installation[i] \in Rows
      BY DEF Shapes
    <2>1. ASSUME NEW q \in Packages, CreateInstallation(i, q)
          PROVE  ServesNothingNew
      BY <1>2, <2>1 DEF CreateInstallation
    <2>2. ASSUME NEW q \in Packages, Upgrade(i, q)
          PROVE  ServesNothingNew
      BY <1>2, <2>0, <2>2 DEF Upgrade, Update, Rows, IsServed
    <2>3. CASE Transition(i)
      BY <1>2, <2>0, <2>3 DEF Transition, TransitionTo, Update, Rows, IsServed
    <2>4. CASE Uninstall(i)
      BY <1>2, <2>0, <2>4 DEF Uninstall, Update, Rows
    <2>5. ASSUME NEW mode \in {"selected", "all"}, SetOrganizationMode(i, mode)
          PROVE  ServesNothingNew
      BY <1>2, <2>0, <2>5 DEF SetOrganizationMode, Update, Rows, IsServed
    <2>6. ASSUME NEW n \in Limits, ImportEntitlementBundle(i, n)
          PROVE  ServesNothingNew
      BY <1>1, <2>6 DEF ImportEntitlementBundle
    <2> QED
      BY <1>3, <2>1, <2>2, <2>3, <2>4, <2>5, <2>6 DEF InstallationCommand
  <1>4. ASSUME NEW i \in Installations, NEW o \in Organizations, EnablementCommand(i, o)
        PROVE  ServesNothingNew
    BY <1>1, <1>4 DEF EnablementCommand, PutEnablement, RemoveEnablement, Update, Shapes
  <1>5. CASE Activation
    BY <1>1, <1>5 DEF Activation, ReadStatus, AbandonActivation, stateVars
  <1>6. ASSUME NEW o \in Organizations, OrganizationStep(o)
        PROVE  ServesNothingNew
    BY <1>1, <1>6 DEF OrganizationStep, BeginOrganization, CommitOrganization,
       RollBackOrganization, SettleOrganization, DiscardOrganization, CreateWithoutHost,
       DiscardWithoutHost
  <1>7. ASSUME NEW e \in Effects, EffectStep(e)
        PROVE  ServesNothingNew
    BY <1>1, <1>7 DEF EffectStep, BeginEffect, CommitEffect, RollBackEffect, stateVars
  <1>8. ASSUME NEW r \in Replicas, NEW t \in Refreshers, RefreshStep(r, t)
        PROVE  ServesNothingNew
    BY <1>1, <1>8 DEF RefreshStep, LoadSnapshot, Replace, stateVars
  <1>9. ASSUME NEW r \in Replicas, Restart(r)
        PROVE  ServesNothingNew
    BY <1>1, <1>9 DEF Restart, stateVars
  <1>10. CASE UNCHANGED vars
    BY <1>1, <1>10 DEF vars, stateVars
  <1> QED
    BY <1>3, <1>4, <1>5, <1>6, <1>7, <1>8, <1>9, <1>10 DEF Next

\* Core serves a package only after the running plugin reported exactly it, for this
\* installation, at the revision at which the switch commits.
THEOREM ActivationProves == Spec => ServesWhatItProved
  <1> DEFINE Body ==
        \A i \in Installations :
          /\ IsServed(i)'
          /\ ~IsServed(i) \/ installation'[i].package # installation[i].package
          => /\ activation # None
             /\ activation.observed = [installation |-> i, package |-> installation'[i].package]
             /\ activation.expected = revision
  <1>1. IInv /\ ActivationInv /\ [Next]_vars => [Body]_vars
    <2> SUFFICES ASSUME IInv, ActivationInv, [Next]_vars
                 PROVE  Body
      OBVIOUS
    <2>1. CASE ~Activate
      BY <2>1, OnlyActivationServes DEF IInv, ServesNothingNew
    <2>2. CASE Activate
      <3> DEFINE j == activation.installation
      <3>1. /\ activation # None /\ j \in Installations
            /\ activation.expected = revision
            /\ activation.observed = [installation |-> j, package |-> ToServe(j)]
        BY <2>2 DEF Activate, ActivationInv, Proves, ExpectsThisRevision
      <3>2. installation' = [installation EXCEPT ![j] = [installation[j] EXCEPT
               !.state = IF @ = "installed" THEN "active" ELSE @,
               !.package = ToServe(j), !.target = None]]
        BY <2>2 DEF Activate, Update
      <3>3. installation'[j].package = ToServe(j)
        BY <3>1, <3>2 DEF IInv, Shapes, Rows
      <3>4. \A i \in Installations : i # j => installation'[i] = installation[i]
        BY <3>2 DEF IInv, Shapes
      <3> QED
        BY <3>1, <3>3, <3>4 DEF IsServed
    <2> QED
      BY <2>1, <2>2
  <1> QED
    BY <1>1, AlwaysIInv, PTL DEF Spec, ServesWhatItProved

-----------------------------------------------------------------------------
(* The organization limit.                                                 *)

\* What a creation found within the limit is within it until the creation ends: the
\* lock of the Plugin Manager keeps every other enablement and every limit out.
PlansWithinLimit ==
    \A o \in Organizations :
      creation[o] # None /\ creation[o].installation # None =>
        WithinLimit(creation[o].installation, 1)

\* The installation enables no more organizations than before, or is within its limit.
LimitKept(i) ==
    /\ limit'[i] # 0
    /\ Cardinality(EnabledOrganizations(i)') > Cardinality(EnabledOrganizations(i))
    => Cardinality(EnabledOrganizations(i)') <= limit'[i]

\* The enabled organizations before and after a step are finitely many.
LEMMA EnabledFinite ==
  ASSUME IsFiniteSet(Organizations), NEW i
  PROVE  /\ IsFiniteSet(EnabledOrganizations(i)) /\ Cardinality(EnabledOrganizations(i)) \in Nat
         /\ IsFiniteSet(EnabledOrganizations(i)')
         /\ Cardinality(EnabledOrganizations(i)') \in Nat
  <1>1. /\ EnabledOrganizations(i) \subseteq Organizations
        /\ EnabledOrganizations(i)' \subseteq Organizations
    BY DEF EnabledOrganizations
  <1> QED
    BY <1>1, FS_Subset, FS_CardinalityType

\* A step that enables no organization keeps the limit.
LEMMA NothingEnabled ==
  ASSUME IsFiniteSet(Organizations), NEW i,
         EnabledOrganizations(i)' \subseteq EnabledOrganizations(i)
  PROVE  LimitKept(i)
  <1>1. Cardinality(EnabledOrganizations(i)') <= Cardinality(EnabledOrganizations(i))
    BY EnabledFinite, FS_Subset
  <1> QED
    BY <1>1, EnabledFinite DEF LimitKept

\* A step that enables the organizations of X, after it found them within the limit.
LEMMA EnabledWithin ==
  ASSUME IsFiniteSet(Organizations), NEW i, limit[i] \in Nat, limit' = limit,
         NEW X, X \subseteq Organizations,
         EnabledOrganizations(i)' \subseteq EnabledOrganizations(i) \cup X,
         WithinLimit(i, Cardinality(X))
  PROVE  LimitKept(i)
  <1> DEFINE before == EnabledOrganizations(i)
             after == EnabledOrganizations(i)'
  <1>1. IsFiniteSet(X) /\ Cardinality(X) \in Nat
    BY FS_Subset, FS_CardinalityType
  <1>2. IsFiniteSet(before) /\ Cardinality(before) \in Nat /\ Cardinality(after) \in Nat
    BY EnabledFinite
  <1>3. after \subseteq before \cup X
    OBVIOUS
  <1>4. WithinLimit(i, Cardinality(X)) =>
          Cardinality(X) = 0 \/ limit[i] = 0 \/ Cardinality(before) + Cardinality(X) <= limit[i]
    BY DEF WithinLimit
  <1>5. LimitKept(i) <=>
          (limit'[i] # 0 /\ Cardinality(after) > Cardinality(before) => Cardinality(after) <= limit'[i])
    BY DEF LimitKept
  <1> HIDE DEF before, after
  <1>6. /\ IsFiniteSet(before \cup X) /\ Cardinality(before \cup X) \in Nat
        /\ Cardinality(before \cup X) <= Cardinality(before) + Cardinality(X)
    <2>1. IsFiniteSet(before \cup X)
      BY <1>1, <1>2, FS_Union
    <2>2. Cardinality(before \cup X)
            = Cardinality(before) + Cardinality(X) - Cardinality(before \cap X)
      BY <1>1, <1>2, FS_Union
    <2>3. before \cap X \subseteq X
      OBVIOUS
    <2>4. IsFiniteSet(before \cap X)
      BY <1>1, <2>3, FS_Subset
    <2>5. Cardinality(before \cap X) \in Nat
      BY <2>4, FS_CardinalityType
    <2>6. Cardinality(before \cup X) \in Nat
      BY <2>1, FS_CardinalityType
    <2> QED
      BY <1>1, <1>2, <2>1, <2>2, <2>5, <2>6
  <1>7. Cardinality(after) <= Cardinality(before \cup X)
    BY <1>3, <1>6, FS_Subset
  <1>8. limit'[i] = limit[i]
    OBVIOUS
  <1> QED
    BY <1>1, <1>2, <1>4, <1>5, <1>6, <1>7, <1>8

\* Every step of the Plugin Manager.
LEMMA LimitStep ==
  ASSUME IsFiniteSet(Organizations), IInv, ActivationInv, limit \in [Installations -> Nat],
         PlansWithinLimit, [Next]_vars, NEW j \in Installations
  PROVE  LimitKept(j)
  <1>1. ASSUME \A o \in Organizations : enablement'[o] \in {enablement[o], NoEnablement}
        PROVE  LimitKept(j)
    <2>1. Enablement(j, "enabled") # NoEnablement
      BY PluginAssumption DEF Enablement, NoEnablement
    <2>2. EnabledOrganizations(j)' \subseteq EnabledOrganizations(j)
      BY <1>1, <2>1 DEF EnabledOrganizations
    <2> QED
      BY <2>2, NothingEnabled
  <1>2. ASSUME NEW i \in Installations, NEW X \in SUBSET Organizations, limit' = limit,
               WithinLimit(i, Cardinality(X)),
               \A o \in Organizations :
                 \/ enablement'[o] = enablement[o]
                 \/ o \in X /\ enablement'[o].installation = i
        PROVE  LimitKept(j)
    <2>1. CASE i = j
      <3>1. EnabledOrganizations(j)' \subseteq EnabledOrganizations(j) \cup X
        BY <1>2 DEF EnabledOrganizations
      <3> QED
        BY <1>2, <2>1, <3>1, EnabledWithin
    <2>2. CASE i # j
      <3>1. Enablement(j, "enabled").installation = j
        BY DEF Enablement
      <3>2. EnabledOrganizations(j)' \subseteq EnabledOrganizations(j)
        BY <1>2, <2>2, <3>1 DEF EnabledOrganizations
      <3> QED
        BY <3>2, NothingEnabled
    <2> QED
      BY <2>1, <2>2
  <1>3. ASSUME NEW i \in Installations, NEW mode \in {"selected", "all"},
               SetOrganizationMode(i, mode)
        PROVE  LimitKept(j)
    <2> DEFINE pending == IF mode = "all" THEN WithoutEnablement ELSE {}
    <2>1. /\ limit' = limit /\ WithinLimit(i, Cardinality(pending))
          /\ enablement' = [o \in Organizations |->
               IF o \in pending THEN Enablement(i, "enabled") ELSE enablement[o]]
      BY <1>3 DEF SetOrganizationMode
    <2>2. pending \in SUBSET Organizations
      BY DEF WithoutEnablement, Committed
    <2> HIDE DEF pending
    <2>3. Enablement(i, "enabled").installation = i
      BY DEF Enablement
    <2>4. \A o \in Organizations :
            \/ enablement'[o] = enablement[o]
            \/ o \in pending /\ enablement'[o].installation = i
      BY <2>1, <2>3
    <2> QED
      BY <1>2, <2>1, <2>2, <2>4
  <1>4. ASSUME NEW i \in Installations, NEW o \in Organizations,
               NEW s \in {"enabled", "disabled"}, PutEnablement(i, o, s)
        PROVE  LimitKept(j)
    <2>1. /\ limit' = limit /\ WithinLimit(i, Added(i, o, s))
          /\ enablement' = [enablement EXCEPT ![o] = Enablement(i, s)]
      BY <1>4 DEF PutEnablement
    <2>2. \A p \in Organizations :
            enablement'[p] = IF p = o THEN Enablement(i, s) ELSE enablement[p]
      BY <2>1 DEF IInv, Shapes
    <2>3. Enablement(i, s).installation = i /\ Enablement(i, s).state = s
      BY DEF Enablement
    <2>4. CASE Added(i, o, s) = 1
      <3>1. Cardinality({o}) = 1
        BY FS_Singleton
      <3> QED
        BY <1>2, <2>1, <2>2, <2>3, <2>4, <3>1
    <2>5. CASE Added(i, o, s) # 1
      <3>1. s # "enabled" \/ o \in EnabledOrganizations(i)
        BY <2>5 DEF Added
      <3>2. EnabledOrganizations(j)' \subseteq EnabledOrganizations(j)
        <4>1. ASSUME NEW p \in EnabledOrganizations(j)'
              PROVE  p \in EnabledOrganizations(j)
          <5>1. p \in Organizations /\ enablement'[p] = Enablement(j, "enabled")
            BY DEF EnabledOrganizations
          <5>2. CASE p # o
            BY <2>2, <5>1, <5>2 DEF EnabledOrganizations
          <5>3. CASE p = o
            <6>1. Enablement(i, s) = Enablement(j, "enabled")
              BY <2>2, <5>1, <5>3
            <6>2. Enablement(j, "enabled").state = "enabled" /\ Enablement(j, "enabled").installation = j
              BY DEF Enablement
            <6>3. s = "enabled" /\ i = j
              BY <2>3, <6>1, <6>2
            <6> QED
              BY <3>1, <5>3, <6>3
          <5> QED
            BY <5>2, <5>3
        <4> QED
          BY <4>1
      <3> QED
        BY <3>2, NothingEnabled
    <2> QED
      BY <2>4, <2>5
  <1>5. ASSUME NEW o \in Organizations, CommitOrganization(o)
        PROVE  LimitKept(j)
    <2> DEFINE i == creation[o].installation
    <2>1. /\ creation[o] # None /\ limit' = limit
          /\ i # None => enablement' = [enablement EXCEPT ![o] = Enablement(i, "enabled")]
          /\ i = None => enablement' = enablement
      BY <1>5 DEF CommitOrganization
    <2>2. CASE i = None
      BY <1>1, <2>1, <2>2
    <2>3. CASE i # None
      <3>1. i \in Installations /\ WithinLimit(i, 1)
        BY <2>1, <2>3 DEF PlansWithinLimit, IInv, CreationInv
      <3>2. Enablement(i, "enabled").installation = i
        BY DEF Enablement
      <3> HIDE DEF i
      <3>3. \A p \in Organizations :
              \/ enablement'[p] = enablement[p]
              \/ p \in {o} /\ enablement'[p].installation = i
        BY <2>1, <2>3, <3>2 DEF IInv, Shapes
      <3>4. Cardinality({o}) = 1
        BY FS_Singleton
      <3> QED
        BY <1>2, <2>1, <3>1, <3>3, <3>4
    <2> QED
      BY <2>2, <2>3
  <1>6. ASSUME NEW i \in Installations, InstallationCommand(i)
        PROVE  LimitKept(j)
    <2>1. ASSUME Uninstall(i) \/ Transition(i)
                 \/ (\E q \in Packages : CreateInstallation(i, q) \/ Upgrade(i, q))
                 \/ (\E n \in Limits : ImportEntitlementBundle(i, n))
          PROVE  \A o \in Organizations : enablement'[o] \in {enablement[o], NoEnablement}
      BY <2>1 DEF Uninstall, Transition, TransitionTo, CreateInstallation, Upgrade,
         ImportEntitlementBundle
    <2> QED
      BY <1>1, <1>3, <1>6, <2>1 DEF InstallationCommand
  <1>7. ASSUME NEW i \in Installations, NEW o \in Organizations, RemoveEnablement(i, o)
        PROVE  LimitKept(j)
    <2>1. enablement' = [enablement EXCEPT ![o] = NoEnablement]
      BY <1>7 DEF RemoveEnablement
    <2> QED
      BY <1>1, <2>1 DEF IInv, Shapes
  <1>8. ASSUME NEW o \in Organizations, OrganizationStep(o), ~CommitOrganization(o)
        PROVE  LimitKept(j)
    <2>1. enablement' = [enablement EXCEPT ![o] = NoEnablement] \/ enablement' = enablement
      BY <1>8 DEF OrganizationStep, BeginOrganization, RollBackOrganization, SettleOrganization,
         DiscardOrganization, CreateWithoutHost, DiscardWithoutHost
    <2> QED
      BY <1>1, <2>1 DEF IInv, Shapes
  <1>9. ASSUME enablement' = enablement
        PROVE  LimitKept(j)
    BY <1>1, <1>9
  <1>10. ASSUME NEW e \in Effects, EffectStep(e)
         PROVE  enablement' = enablement
    BY <1>10 DEF EffectStep, BeginEffect, CommitEffect, RollBackEffect, stateVars
  <1>11. ASSUME Activation \/ UNCHANGED vars
                \/ (\E r \in Replicas, t \in Refreshers : RefreshStep(r, t))
                \/ (\E r \in Replicas : Restart(r))
         PROVE  enablement' = enablement
    BY <1>11 DEF Activation, ReadStatus, Activate, AbandonActivation, RefreshStep, LoadSnapshot,
       Replace, Restart, stateVars, vars
  <1> QED
    BY <1>4, <1>5, <1>6, <1>7, <1>8, <1>9, <1>10, <1>11 DEF Next, EnablementCommand

\* Every step keeps the limits' type and what creations in progress found.
LEMMA PlansStep ==
  ASSUME IInv, limit \in [Installations -> Nat], PlansWithinLimit, [Next]_vars
  PROVE  limit' \in [Installations -> Nat] /\ PlansWithinLimit'
  <1>1. ASSUME ManagerFree, creation' = creation
        PROVE  PlansWithinLimit'
    BY <1>1 DEF ManagerFree, PlansWithinLimit
  <1>2. ASSUME UNCHANGED <<creation, enablement, limit>>
        PROVE  limit' \in [Installations -> Nat] /\ PlansWithinLimit'
    BY <1>2 DEF PlansWithinLimit, WithinLimit, EnabledOrganizations
  <1>3. ASSUME NEW i \in Installations, InstallationCommand(i)
        PROVE  limit' \in [Installations -> Nat] /\ PlansWithinLimit'
    <2>1. Execute
      BY <1>3 DEF InstallationCommand, CreateInstallation, Upgrade, Transition, TransitionTo,
         Uninstall, SetOrganizationMode, ImportEntitlementBundle, Update
    <2>2. PlansWithinLimit'
      BY <1>1, <2>1 DEF Execute
    <2>3. limit' = limit \/ \E n \in Limits : limit' = [limit EXCEPT ![i] = n]
      BY <1>3 DEF InstallationCommand, CreateInstallation, Upgrade, Transition, TransitionTo,
         Uninstall, SetOrganizationMode, ImportEntitlementBundle
    <2>4. \A n \in Limits : n \in Nat
      BY PluginAssumption
    <2> QED
      BY <2>2, <2>3, <2>4
  <1>4. ASSUME NEW i \in Installations, NEW o \in Organizations, EnablementCommand(i, o)
        PROVE  limit' \in [Installations -> Nat] /\ PlansWithinLimit'
    <2>1. Execute /\ limit' = limit
      BY <1>4 DEF EnablementCommand, PutEnablement, RemoveEnablement, Update
    <2> QED
      BY <1>1, <2>1 DEF Execute
  <1>5. ASSUME Activation
        PROVE  limit' \in [Installations -> Nat] /\ PlansWithinLimit'
    BY <1>1, <1>2, <1>5 DEF Activation, ReadStatus, Activate, AbandonActivation, Update, Execute,
       stateVars
  <1>6. ASSUME NEW o \in Organizations, BeginOrganization(o)
        PROVE  limit' \in [Installations -> Nat] /\ PlansWithinLimit'
    <2>1. UNCHANGED <<limit, enablement>>
      BY <1>6 DEF BeginOrganization
    <2>2. PICK i : creation' = [creation EXCEPT ![o] =
            [revision |-> revision,
             installation |-> IF i # None /\ WithinLimit(i, 1) THEN i ELSE None,
             limited |-> i # None /\ ~WithinLimit(i, 1)]]
      BY <1>6 DEF BeginOrganization
    <2>3. creation'[o].installation = IF i # None /\ WithinLimit(i, 1) THEN i ELSE None
      BY <2>2 DEF IInv, Shapes
    <2>4. \A p \in Organizations : p # o => creation'[p] = creation[p]
      BY <2>2 DEF IInv, Shapes
    <2>5. ASSUME NEW p \in Organizations, creation'[p] # None, creation'[p].installation # None
          PROVE  WithinLimit(creation'[p].installation, 1)
      BY <2>3, <2>4, <2>5 DEF PlansWithinLimit
    <2> QED
      BY <2>1, <2>5 DEF PlansWithinLimit, WithinLimit, EnabledOrganizations
  <1>7. ASSUME NEW o \in Organizations, CommitOrganization(o) \/ RollBackOrganization(o)
        PROVE  limit' \in [Installations -> Nat] /\ PlansWithinLimit'
    <2>1. creation[o] # None /\ creation' = [creation EXCEPT ![o] = None] /\ limit' = limit
      BY <1>7 DEF CommitOrganization, RollBackOrganization
    <2>2. \A p \in Organizations : creation'[p] = None
      BY <2>1 DEF IInv, Shapes, CreationInv
    <2> QED
      BY <2>1, <2>2 DEF PlansWithinLimit
  <1>8. ASSUME NEW o \in Organizations, SettleOrganization(o) \/ DiscardOrganization(o)
               \/ CreateWithoutHost(o) \/ DiscardWithoutHost(o)
        PROVE  limit' \in [Installations -> Nat] /\ PlansWithinLimit'
    <2>1. CASE SettleOrganization(o) \/ CreateWithoutHost(o) \/ DiscardWithoutHost(o)
      BY <1>2, <2>1 DEF SettleOrganization, CreateWithoutHost, DiscardWithoutHost
    <2>2. CASE DiscardOrganization(o)
      BY <1>1, <2>2 DEF DiscardOrganization
    <2> QED
      BY <1>8, <2>1, <2>2
  <1>9. ASSUME NEW e \in Effects, EffectStep(e)
        PROVE  UNCHANGED <<creation, enablement, limit>>
    BY <1>9 DEF EffectStep, BeginEffect, CommitEffect, RollBackEffect, stateVars
  <1>10. ASSUME UNCHANGED vars \/ (\E r \in Replicas, t \in Refreshers : RefreshStep(r, t))
                \/ (\E r \in Replicas : Restart(r))
         PROVE  UNCHANGED <<creation, enablement, limit>>
    BY <1>10 DEF RefreshStep, LoadSnapshot, Replace, Restart, stateVars, vars
  <1> QED
    BY <1>2, <1>3, <1>4, <1>5, <1>6, <1>7, <1>8, <1>9, <1>10 DEF Next, OrganizationStep

\* checkOrganizationLimit decides for every way of enabling an organization, the
\* creation of one included, which decides long before it commits: an installation
\* never passes the limit of its licence by a step that enables.
THEOREM LimitHolds ==
  ASSUME IsFiniteSet(Organizations)
  PROVE  Spec => EnablesWithinLimit
  <1> DEFINE Body == \A i \in Installations :
        /\ limit'[i] # 0
        /\ Cardinality(EnabledOrganizations(i)') > Cardinality(EnabledOrganizations(i))
        => Cardinality(EnabledOrganizations(i)') <= limit'[i]
             Bounded == limit \in [Installations -> Nat] /\ PlansWithinLimit
  <1>1. Init => Bounded
    BY DEF Init, PlansWithinLimit
  <1>2. IInv /\ Bounded /\ [Next]_vars => Bounded'
    BY PlansStep
  <1>3. IInv /\ ActivationInv /\ Bounded /\ [Next]_vars => [Body]_vars
    BY LimitStep DEF LimitKept
  <1> QED
    BY <1>1, <1>2, <1>3, AlwaysIInv, PTL DEF Spec, EnablesWithinLimit
=============================================================================
