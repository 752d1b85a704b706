------------------------- MODULE OperatorEpoch_proofs -------------------------
(***************************************************************************)
(* Theorems about the operator commands, for every budget of archives,     *)
(* every set of versions and any number of grants, edits and faults: the   *)
(* types, and the four properties the operator relies on.                  *)
(*                                                                         *)
(* The argument: what the loss of power can leave of the parent directory  *)
(* (`since') is only ever older than the directory itself - its archives   *)
(* are archives still, and its marker is that of the rotation under way or *)
(* names an epoch rotated out since.  An epoch that opens is the active    *)
(* one in all of these forms, so no command works inside an epoch that the *)
(* power could take.  Where a command is says what it has found, and that  *)
(* stays true because it has the lease.  One lemma says what a step does   *)
(* to the directory, one what it does inside an epoch; each conjunct of    *)
(* the invariant is kept by those two and by the steps of the command.     *)
(***************************************************************************)
EXTENDS OperatorEpoch, FiniteSetTheorems, TLAPS

-----------------------------------------------------------------------------
(* The parent directory, in every form that a power failure may leave *)

\* What a power failure can take is younger: no form has an archive that the
\* directory has lost since, and an epoch is archived or active, never both.
FormsAreOlder ==
  \A p \in since : p.archives \subseteq parent.archives /\ p.active \notin p.archives

\* The marker of a form names an epoch of that form, and if it is not the marker
\* of the rotation under way, then one that has been rotated out since.
MarkersAreOlder ==
  \A p \in since :
    /\ p.marker = EmptyMarker => p = parent
    /\ p.marker \in Epochs /\ p.marker # Rotating => p.marker \in parent.archives

\* An epoch that is in neither place has never been touched.
OthersAreNew ==
  \A e \in Epochs : e \notin parent.archives \cup {Active} => epoch[e] = NewEpoch

\* An epoch that opens is the active one of every form.
OpenIsThere ==
  "unsynced" \notin gaps /\ Opens => \A p \in since : p.active = Active

\* A form with the marker of this rotation has its epoch still in place and
\* settled, or archived and the next one unused.
Unused(e) == ~epoch[e].audited /\ epoch[e].transactions = 0
StillActive(p) ==
  /\ p.active = p.marker /\ Valid(p.active)
  /\ epoch[p.active].tx \in ArchivableTransactions
  /\ Cardinality(p.archives) < MaxArchives
MovedAway(p) ==
  p.marker \in p.archives /\ (p.active = NoEpoch \/ Unused(p.active))
RotationHolds ==
  "undone" \notin gaps =>
    \A p \in since : p.marker \in Epochs /\ p.marker = Rotating => StillActive(p) \/ MovedAway(p)

-----------------------------------------------------------------------------
(* Where a command is says what it has found *)

Confirmed == {"grant", "load", "lock", "candidate", "consume", "intent"}
Applies ==
  {"review", "confirm", "grant", "load", "lock", "candidate", "consume", "intent", "effect",
   "settle", "dispatch"}
Begins == {"marker", "fill"}
Moving == {"sync_marker", "rename"}
Rotates ==
  Begins \cup Moving \cup {"sync_rename", "fresh", "sync_active", "unlink", "sync_unlink"}
Refreshes == {"directories", "stage", "link", "unstage", "unlink"}

\* apply and recover work on an epoch that opens; apply on one that is unused.
\* What the grant was issued for was confirmed, what is applied is what was
\* granted.
AppliesInside ==
  /\ command.pc \in Applies => command.kind \in {"apply", "recover"} /\ Opens
  /\ command.pc \in Confirmed \cup {"effect", "settle"} => command.kind = "apply"
  /\ command.pc \in {"review", "confirm"} \cup Confirmed /\ command.kind = "apply" =>
       epoch[Active].transactions = 0
  /\ command.pc = "confirm" /\ command.kind = "apply" => command.shown \subseteq Versions
  /\ command.pc \in Confirmed =>
       command.granted # {} /\ command.granted \subseteq epoch[Active].confirmed
  /\ command.pc \in {"consume", "intent"} => command.bytes = command.loaded
  /\ command.pc = "intent" => command.loaded = command.granted
  /\ command.pc \in {"report", "failed"} => command.kind \in {"apply", "recover"}
  /\ command.settled \/ command.dispatched => command.pc \in {"report", "failed"}

\* A rotation has what it proved before the marker, then the marker of the active
\* epoch, then the marker of an archive and the next epoch.
RotatesInOrder ==
  /\ command.pc \in Begins =>
       /\ Active # NoEpoch /\ Valid(Active) /\ epoch[Active].tx \in ArchivableTransactions
       /\ Rotating = IF command.pc = "fill" THEN EmptyMarker ELSE NoMarker
  /\ command.pc \in Moving => Active # NoEpoch /\ Rotating = Active
  /\ command.pc \in Begins \cup Moving => WithinBudget
  /\ command.pc \in Rotates => command.kind \in {"rotate", "resume"}
  /\ command.pc \in {"sync_rename", "fresh", "sync_active"} => Rotating \in parent.archives
  /\ command.pc = "sync_unlink" => Rotating = NoMarker

\* A fresh epoch is made under a marker that names an archive, or by init.
RefreshesInside ==
  /\ command.pc = "sync_active" => Active # NoEpoch
  /\ command.pc \in Refreshes =>
       /\ Active # NoEpoch
       /\ \/ /\ command.kind \in {"rotate", "resume"} /\ Rotating \in parent.archives
             /\ "unsynced" \notin gaps => \A p \in since : p.active = Active
          \/ /\ command.kind = "init" /\ Rotating = NoMarker
             /\ command.pc = "directories" => epoch[Active] = NewEpoch
             /\ command.pc # "directories" => since = {parent}

EpochInv ==
  /\ EpochTypeOK
  /\ FormsAreOlder /\ MarkersAreOlder /\ OthersAreNew /\ OpenIsThere /\ RotationHolds
  /\ AppliesInside /\ RotatesInOrder /\ RefreshesInside
  /\ EpochsAreKept /\ OnlyShownIsApplied /\ AnswersAreHonest

-----------------------------------------------------------------------------
(* Names, types and what a step does to the parent directory *)

Forms == [active : Epochs \cup {NoEpoch}, archives : SUBSET Epochs,
          marker : Epochs \cup {NoMarker, EmptyMarker}]
Insides == [dirs : BOOLEAN, header : {"none", "staged", "linked", "there"},
            audited : BOOLEAN, confirmed : SUBSET Versions,
            transactions : 0..1, tx : Transactions, applied : SUBSET Versions,
            base : Epochs \cup {Original, Foreign}, grants : 0..MaxLiveGrants]
Commands == [kind : Kinds, pc : CommandPlaces, shown : SUBSET (Versions \cup Transactions),
             granted : SUBSET Versions, loaded : SUBSET Versions, bytes : SUBSET Versions,
             source : Epochs \cup {Original, Foreign},
             settled : BOOLEAN, dispatched : BOOLEAN]
Answers == [how : {"none", "done", "refused", "uncertain"}, kind : Kinds,
            settled : BOOLEAN, dispatched : BOOLEAN]

\* No epoch has the name of what is not there.
LEMMA Names ==
  /\ NoEpoch \notin Epochs /\ NoMarker \notin Epochs /\ EmptyMarker \notin Epochs
  /\ NoMarker # EmptyMarker /\ NoMarker = NoEpoch /\ 1 \in Epochs
BY EpochAssumption DEF Epochs, NoEpoch, NoMarker, EmptyMarker

\* The type invariant by its parts, under names of their own.
LEMMA Typed ==
  ASSUME EpochTypeOK
  PROVE /\ parent \in since /\ parent \in Forms /\ \A p \in since : p \in Forms
        /\ epoch \in [Epochs -> Insides]
        /\ command \in Commands /\ answer \in Answers
        /\ live \in Epochs \cup {Original, Foreign} /\ version \in Versions
BY DEF EpochTypeOK, Forms, Insides, Commands, Answers

\* A new form of the directory beside the old ones.
Adds(active, archives, marker) ==
  /\ parent' = [active |-> active, archives |-> archives, marker |-> marker]
  /\ parent' \in Forms
  /\ since' = since \cup {parent'} /\ gaps' = gaps

\* The other ways of changing it: not at all, a sync, a loss of power, the fresh
\* directory found or made, the marker made, written or removed, the rename.
PlacesStay == UNCHANGED <<parent, since, gaps>>
Syncs == since' = {parent} /\ parent' = parent /\ gaps' = gaps
Loses ==
  /\ parent' \in since /\ since' = {parent'}
  /\ gaps' = gaps \cup IF parent'.marker \in {NoMarker, Rotating} THEN {} ELSE {"undone"}
Finds ==
  /\ UNCHANGED <<parent, since>> /\ command.pc = "fresh"
  /\ gaps' = gaps \cup IF \A p \in since : p.active = Active THEN {} ELSE {"unsynced"}
Appoints(e) ==
  /\ Adds(e, parent.archives, parent.marker)
  /\ Active = NoEpoch /\ e \in Epochs \ parent.archives /\ epoch' = epoch /\ epoch[e] = NewEpoch
  /\ \/ command.pc = "start" /\ parent = FreshParent
     \/ command.pc = "fresh"
Marks == Adds(Active, parent.archives, EmptyMarker) /\ command.pc = "marker" /\ epoch' = epoch
Unmarks == Adds(Active, parent.archives, NoMarker) /\ command.pc = "unlink" /\ epoch' = epoch
Archives ==
  /\ Adds(NoEpoch, parent.archives \cup {Active}, parent.marker)
  /\ command.pc = "rename" /\ epoch' = epoch /\ Active \in Epochs /\ Eligible(Active)
Fills == FillMarker /\ Active \in Epochs

\* What a step does to the parent directory.
LEMMA PlaceSteps ==
  ASSUME EpochTypeOK, RotatesInOrder, OthersAreNew, EpochNext
  PROVE \/ PlacesStay \/ Syncs \/ Finds \/ (\E e \in Epochs : Appoints(e))
        \/ Marks \/ Fills \/ Archives \/ Unmarks
        \/ PowerIsLost /\ Loses
  <1>0. /\ parent \in Forms /\ Active \in Epochs \cup {NoEpoch}
        /\ parent = [active |-> Active, archives |-> parent.archives, marker |-> parent.marker]
    BY Typed DEF Forms, Active
  <1>1. CASE Initialize
    <2>1. CASE parent = FreshParent
      <3>1. parent' = [active |-> 1, archives |-> parent.archives, marker |-> parent.marker]
        BY <1>0, <1>1, <2>1 DEF Initialize, Relink
      <3>2. Active = NoEpoch /\ parent.archives = {}
        BY <2>1 DEF FreshParent, Active
      <3>3. epoch[1] = NewEpoch
        BY <3>2, Names DEF OthersAreNew
      <3> QED
        BY <1>0, <1>1, <2>1, <3>1, <3>2, <3>3, Names DEF Initialize, Relink, Appoints, Adds,
           Forms
    <2>2. CASE parent # FreshParent
      BY <1>1, <2>2 DEF Initialize, PlacesStay
    <2> QED
      BY <2>1, <2>2
  <1>2. CASE MakeActive
    <2>1. CASE Active = NoEpoch
      <3>1. PICK e \in Epochs : /\ e \notin parent.archives /\ epoch[e] = NewEpoch
                                /\ Relink([parent EXCEPT !.active = e])
        BY <1>2, <2>1 DEF MakeActive
      <3>2. parent' = [active |-> e, archives |-> parent.archives, marker |-> parent.marker]
        BY <1>0, <3>1 DEF Relink
      <3>3. Appoints(e)
        BY <1>0, <1>2, <2>1, <3>1, <3>2 DEF MakeActive, Relink, Appoints, Adds, Forms
      <3> QED
        BY <3>3
    <2>2. CASE Active # NoEpoch
      BY <1>2, <2>2 DEF MakeActive, Finds
    <2> QED
      BY <2>1, <2>2
  <1>3. CASE CreateMarker
    <2>1. parent' = [active |-> Active, archives |-> parent.archives, marker |-> EmptyMarker]
      BY <1>0, <1>3 DEF CreateMarker, Relink
    <2> QED
      BY <1>0, <1>3, <2>1 DEF CreateMarker, Relink, Marks, Adds, Forms
  <1>4. CASE UnlinkMarker
    <2>1. parent' = [active |-> Active, archives |-> parent.archives, marker |-> NoMarker]
      BY <1>0, <1>4 DEF UnlinkMarker, Relink
    <2> QED
      BY <1>0, <1>4, <2>1 DEF UnlinkMarker, Relink, Unmarks, Adds, Forms
  <1>5. CASE RenameActive
    <2>1. CASE Eligible(Active)
      <3>1. Active \in Epochs
        BY <1>0, <1>5 DEF RenameActive, RotatesInOrder, Moving
      <3>2. parent' = [active |-> NoEpoch, archives |-> parent.archives \cup {Active},
                       marker |-> parent.marker]
        BY <1>0, <1>5, <2>1 DEF RenameActive, Relink
      <3> QED
        BY <1>0, <1>5, <2>1, <3>1, <3>2 DEF RenameActive, Relink, Archives, Adds, Forms
    <2>2. CASE ~Eligible(Active)
      BY <1>5, <2>2 DEF RenameActive, PlacesStay
    <2> QED
      BY <2>1, <2>2
  <1>6. CASE FillMarker
    BY <1>0, <1>6 DEF FillMarker, Fills, RotatesInOrder, Begins
  <1>7. CASE SyncMarker \/ SyncRename \/ SyncActive \/ SyncUnlink \/ MakeDirectories
    BY <1>7 DEF SyncMarker, SyncRename, SyncActive, SyncUnlink, MakeDirectories, SyncParent,
       Syncs,
       PlacesStay
  <1>8. CASE PowerIsLost
    BY <1>8 DEF PowerIsLost, Loses
  <1>9. CASE \/ \E kind \in Kinds : StartCommand(kind)
             \/ OpenEpoch \/ StartRotation \/ StartResume \/ Review \/ Confirm \/ IssueGrant
             \/ LoadProposal \/ LoadCandidate \/ ConsumeGrant \/ RecordIntent
             \/ ExchangeFile \/ SettleApply \/ DispatchRecovery
             \/ Report \/ Failure \/ MakeHeader \/ CallFails \/ OperatorDies
             \/ (\E e \in Epochs : GrantExpires(e)) \/ ProposalChanges \/ LiveFileEdited
    BY <1>9 DEF PlacesStay, StartCommand, OpenEpoch, StartRotation, StartResume, Review,
       Confirm, LoadProposal, LoadCandidate,
       IssueGrant, ConsumeGrant, RecordIntent, ExchangeFile, SettleApply, DispatchRecovery, Report,
       Failure, MakeHeader, CallFails, OperatorDies, GrantExpires, ProposalChanges, LiveFileEdited
  <1> QED
    BY <1>1, <1>2, <1>3, <1>4, <1>5, <1>6, <1>7, <1>8, <1>9 DEF EpochNext

\* Only the rename adds to the archives, and it leaves no active directory.
LEMMA FormsKept ==
  ASSUME EpochTypeOK, FormsAreOlder, RotatesInOrder, OthersAreNew, EpochNext
  PROVE FormsAreOlder'
  <1>0. /\ parent \in since /\ \A p \in since : p \in Forms /\ p.archives \subseteq Epochs
        /\ NoEpoch \notin Epochs
    BY Typed, Names DEF Forms
  <1>1. CASE PlacesStay \/ Syncs \/ Finds \/ Loses
    BY <1>0, <1>1 DEF PlacesStay, Syncs, Finds, Loses, FormsAreOlder
  <1>2. ASSUME NEW active, NEW archives, NEW marker, Adds(active, archives, marker),
               parent.archives \subseteq archives, active \notin archives
        PROVE FormsAreOlder'
    BY <1>2 DEF Adds, FormsAreOlder
  <1>3. ASSUME NEW e \in Epochs, Appoints(e) PROVE FormsAreOlder'
    BY <1>2, <1>3 DEF Appoints
  <1>4. CASE Marks \/ Unmarks
    BY <1>0, <1>2, <1>4 DEF Marks, Unmarks, FormsAreOlder, Active
  <1>5. CASE Archives
    BY <1>0, <1>2, <1>5 DEF Archives
  <1>6. CASE Fills
    <2>1. \A p \in since' : \E q \in since : p.archives = q.archives /\ p.active = q.active
      BY <1>0, <1>6 DEF Fills, FillMarker, Forms
    <2>2. parent'.archives = parent.archives
      BY <1>0, <1>6 DEF Fills, FillMarker, Forms
    <2> QED
      BY <2>1, <2>2 DEF FormsAreOlder
  <1> QED
    BY <1>1, <1>3, <1>4, <1>5, <1>6, PlaceSteps

\* A marker is made where there was none, and removed when its epoch is archived.
LEMMA MarkersKept ==
  ASSUME EpochTypeOK, FormsAreOlder, MarkersAreOlder, RotatesInOrder, RefreshesInside, OthersAreNew,
         EpochNext
  PROVE MarkersAreOlder'
  <1>0. /\ parent \in since /\ \A p \in since : p \in Forms
        /\ NoMarker \notin Epochs /\ EmptyMarker \notin Epochs /\ NoMarker # EmptyMarker
    BY Typed, Names
  <1>1. CASE PlacesStay \/ Syncs \/ Finds \/ Loses
    BY <1>0, <1>1 DEF PlacesStay, Syncs, Finds, Loses, MarkersAreOlder, Rotating
  <1>2. ASSUME NEW active, NEW archives, Adds(active, archives, parent.marker),
               parent.archives \subseteq archives, parent.marker # EmptyMarker
        PROVE MarkersAreOlder'
    BY <1>0, <1>2 DEF Adds, MarkersAreOlder, Rotating
  <1>3. ASSUME NEW e \in Epochs, Appoints(e) PROVE MarkersAreOlder'
    <2>1. parent.marker # EmptyMarker
      BY <1>0, <1>3 DEF Appoints, FreshParent, RotatesInOrder, Rotating, Forms
    <2> QED
      BY <1>2, <1>3, <2>1 DEF Appoints
  <1>4. CASE Marks
    <2>1. Rotating = NoMarker
      BY <1>4 DEF Marks, RotatesInOrder, Begins
    <2> QED
      BY <1>0, <1>4, <2>1 DEF Marks, Adds, MarkersAreOlder, Rotating
  <1>5. CASE Unmarks
    <2>1. Rotating \in parent.archives
      BY <1>5 DEF Unmarks, RefreshesInside, RotatesInOrder, Refreshes, Rotates
    <2>2. Rotating \in Epochs
      BY <1>0, <2>1 DEF Forms
    <2> QED
      BY <1>0, <1>5, <2>1, <2>2 DEF Unmarks, Adds, MarkersAreOlder, Rotating
  <1>6. CASE Archives
    <2>1. parent.marker # EmptyMarker
      BY <1>0, <1>6 DEF Archives, RotatesInOrder, Moving, Rotating, Active, Forms
    <2> QED
      BY <1>2, <1>6, <2>1 DEF Archives
  <1>7. CASE Fills
    <2>1. Rotating = EmptyMarker
      BY <1>7 DEF Fills, FillMarker, RotatesInOrder, Begins
    <2>2. parent'.marker = Active /\ parent'.archives = parent.archives
      BY <1>0, <1>7 DEF Fills, FillMarker, Forms
    <2>3. \A p \in since' : p.marker = Active \/ (p \in since /\ p.marker # EmptyMarker)
      BY <1>0, <1>7 DEF Fills, FillMarker, Forms
    <2> QED
      BY <1>0, <1>7, <2>1, <2>2, <2>3 DEF Fills, MarkersAreOlder, Rotating
  <1> QED
    BY <1>1, <1>3, <1>4, <1>5, <1>6, <1>7, PlaceSteps

-----------------------------------------------------------------------------
(* What a step does inside the epochs *)

\* A command works inside the active epoch.
Works ==
  /\ Active \in Epochs /\ epoch' \in [Epochs -> Insides]
  /\ \A e \in Epochs \ {Active} : epoch'[e] = epoch[e]
  /\ command.pc \in Applies \cup Refreshes
  /\ LET old == epoch[Active]
         new == epoch'[Active]
     IN /\ old.confirmed \subseteq new.confirmed
        /\ new.audited # old.audited => command.pc = "review"
        /\ command.pc = "intent" =>
             /\ command'.pc = "effect" /\ new.transactions = 1
             /\ new.applied = command.loaded \cup command.bytes
        /\ command.pc # "intent" =>
             new.transactions = old.transactions /\ new.applied = old.applied
        /\ new.tx # old.tx => command.pc \in {"intent", "effect", "settle", "dispatch"}
        /\ new.dirs # old.dirs => command.pc = "directories"
        /\ new.header # old.header => command.pc \in {"stage", "link", "unstage"}

\* One grant less in an epoch.
Spends(e) ==
  /\ epoch[e].grants > 0
  /\ epoch' = [epoch EXCEPT ![e] = [epoch[e] EXCEPT !.grants = @ - 1]]

\* A step leaves the epochs alone, works in the active one, or spends a grant.
LEMMA InsideSteps ==
  ASSUME EpochTypeOK, AppliesInside, RefreshesInside, EpochNext
  PROVE \/ epoch' = epoch
        \/ Works /\ (PlacesStay \/ Syncs)
        \/ \E e \in Epochs : Spends(e) /\ PlacesStay /\ UNCHANGED command
        \/ PowerIsLost
  <1> DEFINE old == epoch[Active]
  <1>0. /\ epoch \in [Epochs -> Insides] /\ parent \in Forms /\ version \in Versions
        /\ command \in Commands /\ live \in Epochs \cup {Original, Foreign}
        /\ MaxLiveGrants \in Nat
    BY Typed, EpochAssumption
  <1>1. ASSUME command.pc \in Applies PROVE Active \in Epochs /\ old \in Insides
    BY <1>0, <1>1 DEF AppliesInside, Opens, Forms, Active
  <1>2. ASSUME command.pc \in Refreshes PROVE Active \in Epochs /\ old \in Insides
    BY <1>0, <1>2 DEF RefreshesInside, Forms, Active
  <1>3. ASSUME NEW change, Inside(Active, change), change \in Insides, Active \in Epochs
        PROVE /\ epoch' \in [Epochs -> Insides] /\ epoch'[Active] = change
              /\ \A e \in Epochs \ {Active} : epoch'[e] = epoch[e]
    BY <1>0, <1>3 DEF Inside
  <1>4. CASE Review
    <2>1. command.pc = "review" /\ Inside(Active, [old EXCEPT !.audited = TRUE]) /\ PlacesStay
      BY <1>4 DEF Review, PlacesStay
    <2>2. [old EXCEPT !.audited = TRUE] \in Insides /\ Active \in Epochs
      BY <1>1, <2>1 DEF Insides, Applies
    <2> QED
      BY <1>1, <1>3, <2>1, <2>2 DEF Works, Applies, Refreshes, Insides
  <1>5. CASE Confirm
    <2> DEFINE new == [old EXCEPT !.confirmed = @ \cup (command.shown \cap Versions)]
    <2>1. command.pc = "confirm" /\ PlacesStay /\ (epoch' = epoch \/ Inside(Active, new))
      BY <1>5 DEF Confirm, ConfirmedAs, PlacesStay
    <2>2. new \in Insides /\ Active \in Epochs
      BY <1>1, <2>1 DEF Insides, Applies
    <2> QED
      BY <1>1, <1>3, <2>1, <2>2 DEF Works, Applies, Refreshes, Insides
  <1>6. CASE IssueGrant \/ ConsumeGrant
    <2>1. Active \in Epochs /\ old \in Insides /\ old.grants \in 0..MaxLiveGrants
      BY <1>1, <1>6 DEF IssueGrant, ConsumeGrant, Applies, Insides
    <2>2. /\ command.pc \in {"grant", "consume"} /\ PlacesStay
          /\ \/ epoch' = epoch
             \/ old.grants < MaxLiveGrants /\ Inside(Active, [old EXCEPT !.grants = @ + 1])
             \/ old.grants > 0 /\ Inside(Active, [old EXCEPT !.grants = @ - 1])
      BY <1>0, <1>6, <2>1 DEF IssueGrant, ConsumeGrant, PlacesStay
    <2>3. ASSUME NEW n \in 0..MaxLiveGrants, Inside(Active, [old EXCEPT !.grants = n]) PROVE Works
      <3> DEFINE new == [old EXCEPT !.grants = n]
      <3>1. new \in Insides
        BY <2>1 DEF Insides
      <3>2. /\ new.audited = old.audited /\ new.transactions = old.transactions /\ new.tx = old.tx
            /\ new.applied = old.applied /\ new.dirs = old.dirs /\ new.header = old.header
            /\ new.confirmed = old.confirmed
        BY <2>1 DEF Insides
      <3> QED
        BY <1>3, <2>1, <2>2, <2>3, <3>1, <3>2 DEF Works, Applies
    <2>4. old.grants < MaxLiveGrants => old.grants + 1 \in 0..MaxLiveGrants
      BY <1>0, <2>1
    <2>5. old.grants > 0 => old.grants - 1 \in 0..MaxLiveGrants
      BY <1>0, <2>1
    <2> QED
      BY <2>2, <2>3, <2>4, <2>5
  <1>7. CASE RecordIntent
    <2> DEFINE new == [old EXCEPT !.transactions = @ + 1, !.tx = "open",
                                  !.applied = command.loaded \cup command.bytes,
                                  !.base = command.source]
    <2>1. /\ command.pc = "intent" /\ PlacesStay
          /\ epoch' = epoch \/ (Inside(Active, new) /\ GoOn("effect"))
      BY <1>7 DEF RecordIntent, PlacesStay
    <2>2. ASSUME GoOn("effect") PROVE command'.pc = "effect"
      BY <1>0, <2>2 DEF GoOn, Commands
    <2>3. /\ old.transactions = 0
          /\ old \in Insides /\ Active \in Epochs
      BY <1>1, <2>1 DEF AppliesInside, Confirmed, Applies
    <2>4. new = [old EXCEPT !.transactions = 1, !.tx = "open",
                            !.applied = command.loaded \cup command.bytes,
                            !.base = command.source]
      BY <2>3
    <2>5. /\ command.loaded \cup command.bytes \in SUBSET Versions /\ "open" \in Transactions
          /\ 1 \in 0..1 /\ command.source \in Epochs \cup {Original, Foreign}
      BY <1>0 DEF Commands, Transactions
    <2>6. new \in Insides
      BY <1>0, <2>3, <2>4, <2>5 DEF Insides
    <2>7. /\ new.transactions = 1 /\ new.applied = command.loaded \cup command.bytes
          /\ new.audited = old.audited /\ new.dirs = old.dirs /\ new.header = old.header
          /\ new.confirmed = old.confirmed
      BY <2>3, <2>4 DEF Insides
    <2> HIDE DEF new
    <2> QED
      BY <1>3, <2>1, <2>2, <2>3, <2>6, <2>7 DEF Works, Applies
  <1>8. CASE ExchangeFile \/ SettleApply \/ DispatchRecovery
    <2>1. /\ command.pc \in {"effect", "settle", "dispatch"} /\ PlacesStay
          /\ \/ epoch' = epoch
             \/ \E tx \in Transactions : Inside(Active, [old EXCEPT !.tx = tx])
      BY <1>8 DEF ExchangeFile, SettleApply, Settled, DispatchRecovery, PlacesStay, Transactions
    <2>2. Active \in Epochs /\ old \in Insides
      BY <1>1, <2>1 DEF Applies
    <2>3. ASSUME NEW tx \in Transactions, Inside(Active, [old EXCEPT !.tx = tx]) PROVE Works
      <3> DEFINE new == [old EXCEPT !.tx = tx]
      <3>1. new \in Insides
        BY <2>2 DEF Insides
      <3>2. /\ new.audited = old.audited /\ new.transactions = old.transactions
            /\ new.applied = old.applied /\ new.dirs = old.dirs /\ new.header = old.header
            /\ new.confirmed = old.confirmed
        BY <2>2 DEF Insides
      <3> QED
        BY <1>3, <2>1, <2>2, <2>3, <3>1, <3>2 DEF Works, Applies
    <2> QED
      BY <2>1, <2>3
  <1>9. CASE MakeDirectories
    <2>1. /\ command.pc = "directories" /\ (PlacesStay \/ Syncs)
          /\ Inside(Active, [old EXCEPT !.dirs = TRUE])
      BY <1>9 DEF MakeDirectories, SyncParent, PlacesStay, Syncs
    <2>2. [old EXCEPT !.dirs = TRUE] \in Insides /\ Active \in Epochs
      BY <1>2, <2>1 DEF Insides, Refreshes
    <2> QED
      BY <1>2, <1>3, <2>1, <2>2 DEF Works, Applies, Refreshes, Insides
  <1>10. CASE MakeHeader
    <2>1. /\ command.pc \in {"stage", "link", "unstage"} /\ PlacesStay
          /\ \/ epoch' = epoch
             \/ \E header \in {"staged", "linked", "there"} :
                  Inside(Active, [old EXCEPT !.header = header])
      BY <1>10 DEF MakeHeader, PlacesStay
    <2>2. Active \in Epochs /\ old \in Insides
      BY <1>2, <2>1 DEF Refreshes
    <2>3. ASSUME NEW header \in {"staged", "linked", "there"},
                 Inside(Active, [old EXCEPT !.header = header])
          PROVE Works
      <3> DEFINE new == [old EXCEPT !.header = header]
      <3>1. new \in Insides
        BY <2>2 DEF Insides
      <3>2. /\ new.audited = old.audited /\ new.transactions = old.transactions
            /\ new.applied = old.applied /\ new.dirs = old.dirs /\ new.tx = old.tx
            /\ new.confirmed = old.confirmed
        BY <2>2 DEF Insides
      <3> QED
        BY <1>3, <2>1, <2>2, <2>3, <3>1, <3>2 DEF Works, Refreshes
    <2> QED
      BY <2>1, <2>3
  <1>11. ASSUME NEW e \in Epochs, GrantExpires(e)
         PROVE Spends(e) /\ PlacesStay /\ UNCHANGED command
    BY <1>11 DEF GrantExpires, Inside, Spends, PlacesStay
  <1>12. CASE \/ \E kind \in Kinds : StartCommand(kind)
              \/ Initialize \/ OpenEpoch \/ StartRotation \/ StartResume \/ Report \/ Failure
              \/ LoadProposal \/ LoadCandidate \/ CreateMarker \/ FillMarker \/ SyncMarker \/ RenameActive \/ SyncRename
              \/ MakeActive \/ SyncActive \/ UnlinkMarker \/ SyncUnlink
              \/ CallFails \/ OperatorDies \/ ProposalChanges \/ LiveFileEdited
    BY <1>12 DEF StartCommand, Initialize, OpenEpoch, StartRotation, StartResume, Report,
       Failure, LoadProposal, LoadCandidate,
       CreateMarker, FillMarker, SyncMarker, RenameActive, SyncRename, MakeActive, SyncActive,
       UnlinkMarker, SyncUnlink, CallFails, OperatorDies, ProposalChanges, LiveFileEdited
  <1> QED
    BY <1>4, <1>5, <1>6, <1>7, <1>8, <1>9, <1>10, <1>11, <1>12 DEF EpochNext

\* A spent grant changes nothing else.
LEMMA SpentFields ==
  ASSUME EpochTypeOK, NEW e \in Epochs, Spends(e)
  PROVE /\ epoch' \in [Epochs -> Insides]
        /\ \A f \in Epochs \ {e} : epoch'[f] = epoch[f]
        /\ epoch'[e].dirs = epoch[e].dirs /\ epoch'[e].header = epoch[e].header
        /\ epoch'[e].audited = epoch[e].audited /\ epoch'[e].confirmed = epoch[e].confirmed
        /\ epoch'[e].transactions = epoch[e].transactions /\ epoch'[e].tx = epoch[e].tx
        /\ epoch'[e].applied = epoch[e].applied /\ epoch[e].grants > 0
  <1>0. epoch[e] \in Insides /\ epoch \in [Epochs -> Insides] /\ MaxLiveGrants \in Nat
    BY Typed, EpochAssumption
  <1>1. epoch[e].grants - 1 \in 0..MaxLiveGrants
    BY <1>0 DEF Spends, Insides
  <1> QED
    BY <1>0, <1>1 DEF Spends, Insides

\* What a loss of power leaves of the epochs.
LEMMA LostFields ==
  ASSUME EpochTypeOK, PowerIsLost
  PROVE /\ epoch' \in [Epochs -> Insides]
        /\ \A e \in Epochs : epoch'[e] = IF e \in parent'.archives \cup {parent'.active}
                                          THEN epoch[e] ELSE NewEpoch
  <1>1. NewEpoch \in Insides
    BY EpochAssumption DEF NewEpoch, Insides, Transactions
  <1> QED
    BY <1>1, Typed DEF PowerIsLost

\* A step touches an epoch only where it is in place, or makes it so.
LEMMA OthersKept ==
  ASSUME EpochTypeOK, AppliesInside, RotatesInOrder, RefreshesInside, OthersAreNew, EpochNext
  PROVE OthersAreNew'
  <1>0. parent \in Forms
    BY Typed
  <1>1. CASE PowerIsLost
    BY <1>1, LostFields DEF OthersAreNew, Active
  <1>2. ASSUME ~PowerIsLost
        PROVE parent.archives \cup {Active} \subseteq parent'.archives \cup {Active'} \cup {NoEpoch}
    BY <1>0, <1>2, PlaceSteps DEF PlacesStay, Syncs, Finds, Appoints, Adds, Marks, Unmarks,
       Archives,
       Fills, FillMarker, Active, Forms
  <1>3. ASSUME ~PowerIsLost, NEW e \in Epochs, e \notin parent'.archives \cup {Active'}
        PROVE epoch'[e] = NewEpoch
    <2>1. e \notin parent.archives \cup {Active} /\ epoch[e] = NewEpoch
      BY <1>2, <1>3, Names DEF OthersAreNew
    <2>2. ASSUME NEW f \in Epochs, Spends(f) PROVE f # e
      BY <2>1, <2>2 DEF Spends, NewEpoch
    <2> QED
      BY <1>3, <2>1, <2>2, InsideSteps, SpentFields DEF Works
  <1> QED
    BY <1>1, <1>3 DEF OthersAreNew

\* An epoch comes to open only when the last of its making is synced: by init, or
\* when the marker is removed after it.
LEMMA OpenKept ==
  ASSUME EpochTypeOK, FormsAreOlder, OthersAreNew, OpenIsThere,
         AppliesInside, RotatesInOrder, RefreshesInside, EpochNext
  PROVE OpenIsThere'
  <1> SUFFICES ASSUME "unsynced" \notin gaps', Opens' PROVE \A p \in since' : p.active = Active'
    BY DEF OpenIsThere
  <1>0. /\ parent \in since /\ parent \in Forms /\ \A p \in since : p \in Forms
        /\ Rotating' = NoMarker /\ Active' # NoEpoch /\ Valid(Active)'
    BY Typed DEF Opens
  <1>1. CASE Syncs \/ Loses
    BY <1>1 DEF Syncs, Loses, Active
  <1>2. CASE PlacesStay
    <2>1. "unsynced" \notin gaps /\ Active \in Epochs /\ Active' = Active /\ Rotating = NoMarker
      BY <1>0, <1>2 DEF PlacesStay, Forms, Active, Rotating
    <2>2. CASE Opens
      BY <1>2, <2>1, <2>2 DEF OpenIsThere, PlacesStay
    <2>3. CASE ~Valid(Active)
      <3>1. Works
        <4>1. epoch' # epoch
          BY <1>0, <2>1, <2>3 DEF Valid
        <4>2. ASSUME NEW e \in Epochs, Spends(e) PROVE FALSE
          BY <1>0, <2>1, <2>3, <4>2, SpentFields DEF Valid
        <4>3. ASSUME PowerIsLost PROVE FALSE
          BY <1>0, <1>2, <2>1, <2>3, <4>3, LostFields DEF PlacesStay, Active, Valid
        <4> QED
          BY <4>1, <4>2, <4>3, InsideSteps
      <3>2. /\ command.pc \in {"directories", "stage", "link", "unstage"}
            /\ command.pc = "directories" => epoch'[Active].header = epoch[Active].header
        BY <1>0, <2>1, <2>3, <3>1 DEF Works, Valid, Refreshes
      <3>3. command.kind = "init"
        BY <1>0, <2>1, <3>2, Names DEF RefreshesInside, Refreshes, Forms
      <3>4. CASE command.pc = "directories"
        BY <1>0, <1>2, <2>1, <3>2, <3>3, <3>4, Names DEF RefreshesInside, Refreshes,
           PlacesStay, Valid,
           NewEpoch, Forms
      <3>5. CASE command.pc \in {"stage", "link", "unstage"}
        BY <1>0, <1>2, <2>1, <3>3, <3>5, Names DEF RefreshesInside, Refreshes, PlacesStay,
           Forms, Active
      <3> QED
        BY <3>2, <3>4, <3>5
    <2> QED
      BY <1>0, <2>1, <2>2, <2>3, Names DEF Opens
  <1>3. ASSUME NEW e \in Epochs, Appoints(e) PROVE FALSE
    <2>1. CASE command.pc = "start"
      BY <1>0, <1>3, <2>1 DEF Appoints, Adds, Active, Valid, NewEpoch
    <2>2. CASE command.pc = "fresh"
      BY <1>0, <1>3, <2>2, Names DEF Appoints, Adds, RotatesInOrder, Rotating, Forms
    <2> QED
      BY <1>3, <2>1, <2>2 DEF Appoints
  <1>4. CASE Finds
    BY <1>0, <1>4, Names DEF Finds, RotatesInOrder, Rotating, Forms
  <1>5. CASE Marks \/ Fills \/ Archives
    BY <1>0, <1>5, Names DEF Marks, Fills, FillMarker, Archives, Adds, Rotating, Active, Forms
  <1>6. CASE Unmarks
    <2>1. Rotating \in parent.archives /\ command.kind \in {"rotate", "resume"}
      BY <1>6 DEF Unmarks, RefreshesInside, RotatesInOrder, Refreshes, Rotates
    <2>2. "unsynced" \notin gaps => \A p \in since : p.active = Active
      BY <1>6, <2>1 DEF Unmarks, RefreshesInside, Refreshes
    <2> QED
      BY <1>6, <2>2 DEF Unmarks, Adds, Active
  <1> QED
    BY <1>1, <1>2, <1>3, <1>4, <1>5, <1>6, PlaceSteps

\* What a step may change inside one epoch, unless the power goes.
EpochChanges(e) ==
  LET old == epoch[e]
      new == epoch'[e]
  IN /\ old.confirmed \subseteq new.confirmed
     /\ new.audited # old.audited => e = Active /\ command.pc = "review"
     /\ new.transactions # old.transactions \/ new.applied # old.applied =>
          /\ e = Active /\ command.pc = "intent" /\ command'.pc = "effect"
          /\ new.transactions = 1 /\ new.applied = command.loaded \cup command.bytes
     /\ new.tx # old.tx => e = Active /\ command.pc \in {"intent", "effect", "settle", "dispatch"}
     /\ new.dirs # old.dirs => e = Active /\ command.pc = "directories"
     /\ new.header # old.header => e = Active /\ command.pc \in {"stage", "link", "unstage"}
     /\ old.grants = 0 =>
          \/ new.grants = 0
          \/ e = Active /\ command.pc \in Applies \cup Refreshes

LEMMA InsideKept ==
  ASSUME EpochTypeOK, AppliesInside, RefreshesInside, EpochNext, ~PowerIsLost, NEW e \in Epochs
  PROVE EpochChanges(e)
  <1>0. epoch \in [Epochs -> Insides]
    BY Typed
  <1>1. CASE epoch' = epoch
    BY <1>1 DEF EpochChanges
  <1>2. CASE Works
    <2>1. CASE e = Active
      BY <1>0, <1>2, <2>1 DEF Works, EpochChanges
    <2>2. CASE e # Active
      BY <1>0, <1>2, <2>2 DEF Works, EpochChanges
    <2> QED
      BY <2>1, <2>2
  <1>3. ASSUME NEW f \in Epochs, Spends(f) PROVE EpochChanges(e)
    <2>1. CASE e = f
      <3>1. e \in Epochs /\ epoch[e].grants # 0
        BY <1>0, <1>3, <2>1, SpentFields DEF Insides
      <3> QED
        BY <1>3, <2>1, <3>1, SpentFields DEF EpochChanges
    <2>2. CASE e # f
      BY <1>0, <1>3, <2>2, SpentFields DEF EpochChanges
    <2> QED
      BY <2>1, <2>2
  <1> QED
    BY <1>1, <1>2, <1>3, InsideSteps

-----------------------------------------------------------------------------
(* How a command goes on *)

\* What goes on and what ends, field by field.
Goes(pc) ==
  /\ command'.pc = pc /\ command'.kind = command.kind /\ command'.shown = command.shown
  /\ command'.granted = command.granted /\ command'.loaded = command.loaded
  /\ command'.bytes = command.bytes
  /\ command'.settled = command.settled /\ command'.dispatched = command.dispatched
  /\ answer' = answer
Ends(how) ==
  /\ command'.pc = "idle" /\ ~command'.settled /\ ~command'.dispatched
  /\ answer'.how = how /\ answer'.kind = command.kind
  /\ answer'.settled = command.settled /\ answer'.dispatched = command.dispatched

LEMMA GoOnFields ==
  ASSUME EpochTypeOK, NEW pc, GoOn(pc)
  PROVE Goes(pc)
BY Typed DEF GoOn, Goes, Commands

LEMMA AnswerFields ==
  ASSUME NEW how, Answer(how)
  PROVE Ends(how)
BY DEF Answer, Ends, NoCommand

LEMMA StartFields ==
  ASSUME NEW kind \in Kinds, StartCommand(kind)
  PROVE /\ command.pc = "idle" /\ command'.pc = "start" /\ command'.kind = kind
        /\ ~command'.settled /\ ~command'.dispatched /\ command'.shown = {}
  <1>1. /\ NoCommand.shown = {} /\ ~NoCommand.settled /\ ~NoCommand.dispatched
        /\ NoCommand \in [kind : {"init"}, pc : {"idle"}, shown : {{}}, granted : {{}},
                          loaded : {{}}, bytes : {{}}, source : {Original},
                          settled : BOOLEAN, dispatched : BOOLEAN]
    BY DEF NoCommand
  <1>2. command.pc = "idle" /\ command' = [NoCommand EXCEPT !.kind = kind, !.pc = "start"]
    BY DEF StartCommand
  <1> QED
    BY <1>1, <1>2

\* The steps of init, rotate and resume, by where they go on to.
Elsewhere == CommandPlaces \ (Applies \cup {"report", "failed", "idle"})
StaysElsewhere ==
  /\ command.pc \notin {"report", "failed"}
  /\ (\E pc \in Elsewhere : GoOn(pc)) \/ (\E how \in {"done", "refused"} : Answer(how))

LEMMA ElsewhereSteps ==
  ASSUME \/ Initialize \/ StartRotation \/ StartResume
         \/ CreateMarker \/ FillMarker \/ SyncMarker \/ RenameActive \/ SyncRename
         \/ MakeActive \/ SyncActive \/ MakeDirectories \/ MakeHeader \/ UnlinkMarker \/ SyncUnlink
  PROVE StaysElsewhere
BY DEF StaysElsewhere, Elsewhere, CommandPlaces, Applies, Initialize, StartRotation,
   StartResume,
   CreateMarker, FillMarker, SyncMarker, RenameActive, SyncRename, MakeActive, SyncActive,
   MakeDirectories, MakeHeader, UnlinkMarker, SyncUnlink

\* apply and recover stay in the epoch they opened; what was granted was confirmed,
\* what is loaded is compared with it, and only the first record makes the epoch used.
LEMMA AppliesKept ==
  ASSUME EpochTypeOK, AppliesInside, RefreshesInside, EpochNext
  PROVE AppliesInside'
  <1>0. /\ command \in Commands /\ epoch \in [Epochs -> Insides]
        /\ parent \in Forms /\ version \in Versions
    BY Typed
  <1>1. ASSUME command'.pc \notin Applies \cup {"report", "failed"},
               ~command'.settled, ~command'.dispatched
        PROVE AppliesInside'
    BY <1>1 DEF AppliesInside, Applies, Confirmed
  <1>2. CASE StaysElsewhere
    <2>1. ~command.settled /\ ~command.dispatched
      BY <1>2 DEF StaysElsewhere, AppliesInside
    <2>2. ASSUME NEW pc \in Elsewhere, GoOn(pc) PROVE AppliesInside'
      BY <1>1, <2>1, <2>2, GoOnFields DEF Goes, Elsewhere
    <2>3. ASSUME NEW how, Answer(how) PROVE AppliesInside'
      BY <1>1, <2>3, AnswerFields DEF Ends, Applies
    <2> QED
      BY <1>2, <2>2, <2>3 DEF StaysElsewhere
  <1>3. CASE PowerIsLost \/ OperatorDies \/ \E kind \in Kinds : StartCommand(kind)
    <2>1. command'.pc \in {"idle", "start"} /\ ~command'.settled /\ ~command'.dispatched
      BY <1>3, StartFields DEF PowerIsLost, OperatorDies, NoCommand
    <2> QED
      BY <1>1, <2>1 DEF Applies
  <1>4. CASE OpenEpoch
    <2>1. ASSUME NEW how, Answer(how) PROVE AppliesInside'
      BY <1>1, <2>1, AnswerFields DEF Ends, Applies
    <2>2. CASE GoOn("review")
      <3>1. Goes("review") /\ ~command.settled /\ ~command.dispatched
        BY <1>4, <2>2, GoOnFields DEF OpenEpoch, AppliesInside
      <3>2. /\ Opens' /\ command.kind \in {"apply", "recover"}
            /\ command.kind = "apply" => epoch'[Active'].transactions = 0
        BY <1>4, <2>2, <3>1 DEF OpenEpoch, Answer, NoCommand, Goes, Opens, Valid, Active,
           Rotating
      <3> QED
        BY <3>1, <3>2 DEF AppliesInside, Goes, Applies, Confirmed
    <2> QED
      BY <1>4, <2>1, <2>2 DEF OpenEpoch
  \* What a step of apply or recover leaves of what the command has found.
  <1>5. ASSUME command.pc \in Applies, PlacesStay, ~PowerIsLost
        PROVE /\ Opens' /\ Active' = Active /\ Active \in Epochs
              /\ command.kind \in {"apply", "recover"}
              /\ epoch[Active].confirmed \subseteq epoch'[Active].confirmed
              /\ command'.pc # "effect" => epoch'[Active].transactions = epoch[Active].transactions
    <2>1. Opens /\ Active \in Epochs /\ command.kind \in {"apply", "recover"}
      BY <1>0, <1>5 DEF AppliesInside, Opens, Forms, Active
    <2>2. command.pc \notin {"directories", "stage", "link", "unstage"}
      BY <1>5 DEF Applies
    <2>3. Active' = Active /\ Rotating' = Rotating
      BY <1>5 DEF PlacesStay, Active, Rotating
    <2> QED
      BY <1>5, <2>1, <2>2, <2>3, InsideKept DEF EpochChanges, Opens, Valid
  <1>6. CASE Review
    <2>1. /\ command.pc = "review" /\ PlacesStay /\ ~PowerIsLost
          /\ command' = [command EXCEPT !.pc = "confirm", !.shown = Snapshot]
      BY <1>0, <1>6 DEF Review, PlacesStay, PowerIsLost, NoCommand, Commands
    <2>2. /\ command'.pc = "confirm" /\ command'.kind = command.kind /\ command'.shown = Snapshot
          /\ command'.settled = command.settled /\ command'.dispatched = command.dispatched
      BY <1>0, <2>1 DEF Commands
    <2>3. command.kind = "apply" => Snapshot \subseteq Versions
      BY <1>0 DEF Snapshot
    <2> QED
      BY <1>5, <2>1, <2>2, <2>3 DEF AppliesInside, Applies, Confirmed
  \* A step that gives up leaves it to the catch block.
  <1>7. ASSUME command.pc \in Applies, PlacesStay, GoOn("failed") PROVE AppliesInside'
    <2>1. Goes("failed")
      BY <1>7, GoOnFields
    <2> QED
      BY <1>7, <2>1 DEF AppliesInside, Goes, Applies, Confirmed
  <1>8. CASE Confirm
    <2>1. command.pc = "confirm" /\ PlacesStay
      BY <1>8 DEF Confirm, PlacesStay
    <2>2. CASE GoOn("failed")
      BY <1>7, <2>1, <2>2 DEF Applies
    <2>3. CASE Snapshot = command.shown /\ ConfirmedAs(Snapshot)
      <3>1. /\ command'.pc = (IF command.kind = "apply" THEN "grant" ELSE "dispatch")
            /\ command'.kind = command.kind /\ command'.granted = Snapshot \cap Versions
            /\ command'.settled = command.settled /\ command'.dispatched = command.dispatched
        BY <1>0, <2>3 DEF ConfirmedAs, Commands
      <3>2. ~PowerIsLost
        BY <3>1 DEF PowerIsLost, NoCommand
      <3>3. command.kind = "apply" => Snapshot = {version}
        BY DEF Snapshot
      <3>4. Active \in Epochs /\ Active' = Active
        BY <1>5, <2>1, <3>2 DEF Applies
      <3>5. epoch'[Active].confirmed = epoch[Active].confirmed \cup (command.shown \cap Versions)
        BY <1>0, <2>3, <3>4 DEF ConfirmedAs, Inside, Insides
      <3>6. command.kind = "apply" =>
              command'.granted # {} /\ command'.granted \subseteq epoch'[Active'].confirmed
        BY <1>0, <2>3, <3>1, <3>3, <3>4, <3>5
      <3> QED
        BY <1>5, <2>1, <3>1, <3>2, <3>6 DEF AppliesInside, Applies, Confirmed
    <2> QED
      BY <1>8, <2>2, <2>3 DEF Confirm
  <1>9. CASE IssueGrant \/ ConsumeGrant \/ RecordIntent
    <2>1. /\ command.pc \in {"grant", "consume", "intent"} /\ PlacesStay
          /\ \/ GoOn("failed")
             \/ command.pc = "grant" /\ GoOn("load")
             \/ command.pc = "consume" /\ GoOn("intent") /\ command.granted = command.loaded
             \/ command.pc = "intent" /\ GoOn("effect")
      BY <1>9 DEF IssueGrant, ConsumeGrant, RecordIntent, PlacesStay
    <2>2. CASE GoOn("failed")
      BY <1>7, <2>1, <2>2 DEF Applies, Confirmed
    <2>3. PICK pc \in {"load", "intent", "effect"} :
            /\ GoOn(pc)
            /\ pc # "effect" => command.pc \in {"grant", "consume"}
            /\ pc = "intent" => command.pc = "consume" /\ command.granted = command.loaded
            \/ GoOn("failed")
      BY <2>1
    <2>4. CASE GoOn(pc) /\ ~GoOn("failed")
      <3>1. Goes(pc)
        BY <2>4, GoOnFields
      <3>2. ~PowerIsLost
        BY <2>3, <3>1 DEF Goes, PowerIsLost, NoCommand
      <3> QED
        BY <1>5, <2>1, <2>3, <2>4, <3>1, <3>2 DEF AppliesInside, Goes, Applies, Confirmed
    <2> QED
      BY <2>2, <2>3, <2>4
  <1>10. CASE LoadProposal \/ LoadCandidate
    <2>1. command.pc \in {"load", "lock", "candidate"} /\ PlacesStay
      BY <1>10 DEF LoadProposal, LoadCandidate, PlacesStay
    <2>2. CASE GoOn("failed")
      BY <1>7, <2>1, <2>2 DEF Applies, Confirmed
    <2>3. CASE ~GoOn("failed")
      <3>1. /\ command'.pc \in {"lock", "candidate", "consume"} /\ command'.kind = command.kind
            /\ command'.granted = command.granted
            /\ command'.settled = command.settled /\ command'.dispatched = command.dispatched
            /\ command'.pc = "consume" => command'.bytes = command'.loaded
        BY <1>0, <1>10, <2>1, <2>3 DEF LoadProposal, LoadCandidate, Commands
      <3>2. ~PowerIsLost
        BY <3>1 DEF PowerIsLost, NoCommand
      <3> QED
        BY <1>5, <2>1, <3>1, <3>2 DEF AppliesInside, Applies, Confirmed
    <2> QED
      BY <2>2, <2>3
  <1>11. CASE ExchangeFile
    <2>1. /\ command.pc = "effect" /\ PlacesStay /\ command'.kind = command.kind
          /\ command'.pc \in {"settle", "report", "failed"}
          /\ command'.pc = "settle" =>
               command'.settled = command.settled /\ command'.dispatched = command.dispatched
      BY <1>0, <1>11 DEF ExchangeFile, Settled, GoOn, Commands, PlacesStay
    <2>2. ~PowerIsLost
      BY <2>1 DEF PowerIsLost, NoCommand
    <2> QED
      BY <1>5, <2>1, <2>2 DEF AppliesInside, Applies, Confirmed
  <1>12. CASE SettleApply \/ DispatchRecovery
    <2>1. /\ command'.pc \in {"report", "failed"} /\ command'.kind = command.kind
          /\ command.pc \in {"settle", "dispatch"}
      BY <1>0, <1>12 DEF SettleApply, Settled, GoOn, DispatchRecovery, Commands
    <2> QED
      BY <2>1 DEF AppliesInside, Applies, Confirmed
  <1>13. CASE Report \/ Failure
    <2>1. ASSUME NEW how, Answer(how) PROVE AppliesInside'
      BY <1>1, <2>1, AnswerFields DEF Ends, Applies
    <2>2. ASSUME GoOn("failed") PROVE AppliesInside'
      BY <1>13, <2>2, GoOnFields DEF Report, Failure, AppliesInside, Goes, Applies, Confirmed
    <2> QED
      BY <1>13, <2>1, <2>2 DEF Report, Failure
  <1>14. CASE CallFails
    <2>1. ASSUME NEW how, Answer(how) PROVE AppliesInside'
      BY <1>1, <2>1, AnswerFields DEF Ends, Applies
    <2>2. ASSUME command' = [command EXCEPT !.pc = "failed",
                                            !.dispatched = @ \/ command.pc = "dispatch"],
                 command.kind \in {"apply", "recover"}
          PROVE AppliesInside'
      <3>1. command'.pc = "failed" /\ command'.kind = command.kind
        BY <1>0, <2>2 DEF Commands
      <3> QED
        BY <2>2, <3>1 DEF AppliesInside, Applies, Confirmed
    <2> QED
      BY <1>14, <2>1, <2>2 DEF CallFails
  <1>15. CASE (\E e \in Epochs : GrantExpires(e)) \/ ProposalChanges \/ LiveFileEdited
    <2>1. UNCHANGED command /\ PlacesStay
      BY <1>15 DEF GrantExpires, ProposalChanges, LiveFileEdited, PlacesStay
    <2>2. CASE command.pc \in Applies /\ ~PowerIsLost
      <3>1. command'.pc # "effect" => epoch'[Active'].transactions = epoch[Active].transactions
        BY <1>5, <2>1, <2>2
      <3> QED
        BY <1>5, <2>1, <2>2, <3>1 DEF AppliesInside, Applies, Confirmed
    <2>3. CASE command.pc \notin Applies
      BY <2>1, <2>3 DEF AppliesInside, Applies, Confirmed
    <2> QED
      BY <1>3, <2>2, <2>3
  <1> QED
    BY <1>2, <1>3, <1>4, <1>6, <1>8, <1>9, <1>10, <1>11, <1>12, <1>13, <1>14, <1>15, ElsewhereSteps
       DEF EpochNext

\* The steps of apply and recover, and the begin and the ends of any command.
AppliesOrEnds ==
  \/ OpenEpoch \/ Review \/ Confirm \/ IssueGrant
  \/ LoadProposal \/ LoadCandidate \/ ConsumeGrant \/ RecordIntent
  \/ ExchangeFile \/ SettleApply \/ DispatchRecovery \/ Report \/ Failure
  \/ CallFails \/ OperatorDies \/ PowerIsLost \/ \E kind \in Kinds : StartCommand(kind)

LEMMA AppliedSteps ==
  ASSUME EpochTypeOK, AppliesOrEnds
  PROVE command'.pc \in Applies \cup {"report", "failed", "idle", "start"}
  <1>0. command \in Commands
    BY Typed
  <1>1. CASE OpenEpoch \/ IssueGrant \/ ConsumeGrant \/ RecordIntent \/ Report \/ Failure
    <2>1. (\E pc \in Applies \cup {"failed"} : GoOn(pc)) \/ (\E how : Answer(how))
      BY <1>1 DEF OpenEpoch, IssueGrant, ConsumeGrant, RecordIntent, Report,
         Failure, Applies, Confirmed
    <2> QED
      BY <2>1, GoOnFields, AnswerFields DEF Goes, Ends
  <1>2. CASE Review \/ Confirm \/ LoadProposal \/ LoadCandidate
    BY <1>0, <1>2 DEF Review, Confirm, ConfirmedAs, LoadProposal, LoadCandidate, GoOn, Commands,
       Applies, Confirmed
  <1>3. CASE ExchangeFile \/ SettleApply \/ DispatchRecovery
    BY <1>0, <1>3 DEF ExchangeFile, SettleApply, Settled, GoOn, DispatchRecovery, Commands, Applies
  <1>4. CASE CallFails
    <2>1. ASSUME NEW how, Answer(how) PROVE command'.pc = "idle"
      BY <2>1, AnswerFields DEF Ends
    <2> QED
      BY <1>0, <1>4, <2>1 DEF CallFails, Commands
  <1>5. CASE OperatorDies \/ PowerIsLost
    BY <1>5 DEF OperatorDies, PowerIsLost, NoCommand
  <1>6. CASE \E kind \in Kinds : StartCommand(kind)
    BY <1>6, StartFields
  <1> QED
    BY <1>1, <1>2, <1>3, <1>4, <1>5, <1>6 DEF AppliesOrEnds

\* A rotation goes from one place to the next with what it needs there.
LEMMA RotatesKept ==
  ASSUME EpochTypeOK, AppliesInside, RotatesInOrder, RefreshesInside, EpochNext
  PROVE RotatesInOrder'
  <1>0. /\ command \in Commands /\ epoch \in [Epochs -> Insides] /\ parent \in Forms
        /\ Active \in Epochs \cup {NoEpoch}
        /\ parent = [active |-> Active, archives |-> parent.archives, marker |-> Rotating]
    BY Typed DEF Forms, Active, Rotating
  <1>1. ASSUME command'.pc \notin Rotates PROVE RotatesInOrder'
    BY <1>1 DEF RotatesInOrder, Rotates, Begins, Moving
  <1>2. ASSUME NEW how, Answer(how) PROVE RotatesInOrder'
    BY <1>1, <1>2, AnswerFields DEF Ends, Rotates, Begins, Moving
  <1>3. CASE AppliesOrEnds
    BY <1>1, <1>3, AppliedSteps DEF Applies, Rotates, Begins, Moving
  <1>4. ASSUME GoOn("directories") \/ GoOn("stage") \/ GoOn("link") \/ GoOn("unstage")
        PROVE RotatesInOrder'
    BY <1>1, <1>4, GoOnFields DEF Goes, Rotates, Begins, Moving
  <1>5. CASE Initialize \/ SyncActive
    BY <1>2, <1>4, <1>5 DEF Initialize, SyncActive
  <1>6. CASE StartRotation
    <2>1. CASE Opens /\ Eligible(Active) /\ WithinBudget /\ GoOn("marker")
      <3>1. Goes("marker") /\ UNCHANGED <<parent, epoch>> /\ command.kind = "rotate"
        BY <1>6, <2>1, GoOnFields DEF StartRotation
      <3> QED
        BY <2>1, <3>1 DEF Goes, RotatesInOrder, Rotates, Begins, Moving, Opens, Eligible, Valid,
           WithinBudget,
           Active, Rotating
    <2> QED
      BY <1>2, <1>6, <2>1 DEF StartRotation
  <1>7. CASE StartResume
    <2>1. CASE Rotating \in parent.archives /\ GoOn("fresh")
      <3>1. Goes("fresh") /\ parent' = parent /\ command.kind = "resume"
        BY <1>7, <2>1, GoOnFields DEF StartResume
      <3> QED
        BY <2>1, <3>1 DEF Goes, RotatesInOrder, Rotates, Begins, Moving, Rotating
    <2>2. CASE Rotating \in Epochs /\ Active = Rotating /\ WithinBudget /\ GoOn("rename")
      <3>1. Goes("rename") /\ parent' = parent /\ command.kind = "resume"
        BY <1>7, <2>2, GoOnFields DEF StartResume
      <3> QED
        BY <2>2, <3>1, Names DEF Goes, RotatesInOrder, Rotates, Begins, Moving, Rotating, Active,
           WithinBudget
    <2> QED
      BY <1>2, <1>7, <2>1, <2>2 DEF StartResume
  <1>8. CASE CreateMarker
    <2>1. Goes("fill") /\ command.pc = "marker" /\ epoch' = epoch
      BY <1>8, GoOnFields DEF CreateMarker
    <2>2. parent' = [active |-> Active, archives |-> parent.archives, marker |-> EmptyMarker]
      BY <1>0, <1>8 DEF CreateMarker, Relink
    <2>3. Active' = Active /\ Rotating' = EmptyMarker /\ parent'.archives = parent.archives
      BY <2>2 DEF Active, Rotating
    <2> QED
      BY <2>1, <2>3 DEF Goes, RotatesInOrder, Rotates, Begins, Moving, Valid, WithinBudget
  <1>9. CASE FillMarker
    <2>1. Goes("sync_marker") /\ command.pc = "fill"
      BY <1>9, GoOnFields DEF FillMarker
    <2>2. parent' = [active |-> Active, archives |-> parent.archives, marker |-> Active]
      BY <1>0, <1>9 DEF FillMarker
    <2>3. Active' = Active /\ Rotating' = Active /\ parent'.archives = parent.archives
      BY <2>2 DEF Active, Rotating
    <2> QED
      BY <2>1, <2>3 DEF Goes, RotatesInOrder, Rotates, Begins, Moving, WithinBudget
  <1>10. CASE SyncMarker \/ SyncRename
    <2>1. /\ parent' = parent
          /\ \/ Goes("rename") /\ command.pc = "sync_marker"
             \/ Goes("fresh") /\ command.pc = "sync_rename"
      BY <1>10, GoOnFields DEF SyncMarker, SyncRename, SyncParent
    <2> QED
      BY <2>1 DEF Goes, RotatesInOrder, Rotates, Begins, Moving, Active, Rotating, WithinBudget
  <1>11. CASE RenameActive
    <2>1. CASE GoOn("sync_rename") /\ Eligible(Active)
      <3>1. Goes("sync_rename") /\ command.pc = "rename"
        BY <1>11, <2>1, GoOnFields DEF RenameActive
      <3>2. parent' = [active |-> NoEpoch, archives |-> parent.archives \cup {Active},
                       marker |-> Rotating]
        BY <1>0, <1>11, <2>1 DEF RenameActive, Relink, Forms, Active, Rotating
      <3> QED
        BY <3>1, <3>2 DEF Goes, RotatesInOrder, Rotates, Begins, Moving, Rotating
    <2> QED
      BY <1>2, <1>11, <2>1 DEF RenameActive
  <1>12. CASE MakeActive
    <2>1. ASSUME NEW e \in Epochs, Relink([parent EXCEPT !.active = e]), GoOn("sync_active")
          PROVE RotatesInOrder'
      <3>1. Goes("sync_active") /\ command.pc = "fresh"
        BY <1>12, <2>1, GoOnFields DEF MakeActive
      <3>2. parent' = [active |-> e, archives |-> parent.archives, marker |-> Rotating]
        BY <1>0, <2>1 DEF Relink
      <3> QED
        BY <3>1, <3>2 DEF Goes, RotatesInOrder, Rotates, Begins, Moving, Rotating
    <2> QED
      BY <1>2, <1>4, <1>12, <2>1 DEF MakeActive
  <1>13. CASE MakeDirectories \/ MakeHeader
    <2>1. CASE GoOn("unlink")
      <3>1. /\ Goes("unlink") /\ command.pc \in Refreshes
            /\ command.kind = "init" => command.pc = "directories" /\ epoch[Active].header # "none"
        BY <1>13, <2>1, GoOnFields, AnswerFields DEF MakeDirectories, MakeHeader, Refreshes,
           Goes, Ends, GoOn
      <3>2. command.kind \in {"rotate", "resume"}
        BY <3>1 DEF RefreshesInside, NewEpoch
      <3> QED
        BY <3>1, <3>2 DEF Goes, RotatesInOrder, Begins, Moving
    <2> QED
      BY <1>2, <1>4, <1>13, <2>1 DEF MakeDirectories, MakeHeader
  <1>14. CASE UnlinkMarker
    <2>1. Goes("sync_unlink") /\ command.pc = "unlink"
      BY <1>14, GoOnFields DEF UnlinkMarker
    <2>2. Rotating' = NoMarker
      BY <1>0, <1>14 DEF UnlinkMarker, Relink, Rotating, Forms
    <2> QED
      BY <2>1, <2>2 DEF Goes, RotatesInOrder, Rotates, Begins, Moving
  <1>15. CASE SyncUnlink
    BY <1>2, <1>15 DEF SyncUnlink
  <1>16. CASE (\E e \in Epochs : GrantExpires(e)) \/ ProposalChanges \/ LiveFileEdited
    <2>1. UNCHANGED <<command, parent>> /\ Active' = Active /\ Rotating' = Rotating
      BY <1>16 DEF GrantExpires, ProposalChanges, LiveFileEdited, Active, Rotating
    <2>2. ASSUME command.pc \in Begins
          PROVE Valid(Active)' /\ epoch'[Active].tx \in ArchivableTransactions
      <3>1. ~PowerIsLost
        BY <2>1, <2>2 DEF PowerIsLost, NoCommand, Begins
      <3>2. Active \in Epochs /\ Valid(Active) /\ epoch[Active].tx \in ArchivableTransactions
        BY <1>0, <2>2 DEF RotatesInOrder
      <3> QED
        BY <2>1, <2>2, <3>1, <3>2, InsideKept DEF EpochChanges, Valid, Begins
    <2> QED
      BY <2>1, <2>2 DEF RotatesInOrder, Rotates, WithinBudget
  <1> QED
    BY <1>3, <1>5, <1>6, <1>7, <1>8, <1>9, <1>10, <1>11, <1>12, <1>13, <1>14, <1>15, <1>16
       DEF EpochNext, AppliesOrEnds

\* The fresh epoch is made inside an active directory that the marker protects, or
\* for init in one that nothing was in.
LEMMA RefreshesKept ==
  ASSUME EpochTypeOK, OthersAreNew, AppliesInside, RotatesInOrder, RefreshesInside, EpochNext
  PROVE RefreshesInside'
  <1>0. /\ command \in Commands /\ epoch \in [Epochs -> Insides] /\ parent \in Forms
        /\ parent = [active |-> Active, archives |-> parent.archives, marker |-> Rotating]
    BY Typed DEF Forms, Active, Rotating
  <1>1. ASSUME command'.pc \notin Refreshes \cup {"sync_active"} PROVE RefreshesInside'
    BY <1>1 DEF RefreshesInside
  <1>2. ASSUME NEW how, Answer(how) PROVE RefreshesInside'
    BY <1>1, <1>2, AnswerFields DEF Ends, Refreshes
  <1>3. CASE AppliesOrEnds
    BY <1>1, <1>3, AppliedSteps DEF Applies, Refreshes
  <1>4. CASE \/ StartRotation \/ StartResume \/ CreateMarker \/ FillMarker \/ SyncMarker
             \/ RenameActive \/ SyncRename \/ UnlinkMarker \/ SyncUnlink
    <2>1. \/ \E pc \in Rotates \ {"sync_active", "unlink"} : GoOn(pc)
          \/ \E how : Answer(how)
      BY <1>4 DEF StartRotation, StartResume, CreateMarker, FillMarker, SyncMarker,
         RenameActive,
         SyncRename, UnlinkMarker, SyncUnlink, Rotates, Begins, Moving
    <2> QED
      BY <1>1, <1>2, <2>1, GoOnFields DEF Goes, Refreshes, Rotates, Begins, Moving
  <1>5. CASE Initialize
    <2>1. CASE parent = FreshParent /\ GoOn("directories") /\ Relink([parent EXCEPT !.active = 1])
      <3>1. Goes("directories") /\ command.kind = "init" /\ epoch' = epoch
        BY <1>5, <2>1, GoOnFields DEF Initialize
      <3>2. Active = NoEpoch /\ parent.archives = {} /\ Rotating = NoMarker
        BY <2>1 DEF FreshParent, Active, Rotating
      <3>3. Active' = 1 /\ Rotating' = NoMarker
        BY <1>0, <2>1, <3>2 DEF Relink, Active, Rotating
      <3>4. epoch[1] = NewEpoch
        BY <3>2, Names DEF OthersAreNew
      <3> QED
        BY <3>1, <3>3, <3>4, Names DEF Goes, RefreshesInside, Refreshes
    <2> QED
      BY <1>2, <1>5, <2>1 DEF Initialize
  <1>6. CASE MakeActive
    <2>1. ASSUME NEW e \in Epochs, Relink([parent EXCEPT !.active = e]), GoOn("sync_active")
          PROVE RefreshesInside'
      <3>1. Goes("sync_active") /\ Active' = e
        BY <1>0, <2>1, GoOnFields DEF Relink, Active
      <3> QED
        BY <3>1, Names DEF Goes, RefreshesInside, Refreshes
    <2>2. CASE Active # NoEpoch /\ GoOn("directories")
      <3>1. Goes("directories") /\ command.pc = "fresh" /\ UNCHANGED <<parent, since>>
        BY <1>6, <2>2, GoOnFields DEF MakeActive
      <3>2. "unsynced" \notin gaps' => \A p \in since : p.active = Active
        BY <1>6, <2>2 DEF MakeActive
      <3>3. Active' = Active /\ Rotating' = Rotating
        BY <3>1 DEF Active, Rotating
      <3> QED
        BY <2>2, <3>1, <3>2, <3>3 DEF Goes, RefreshesInside, Refreshes, RotatesInOrder, Rotates
    <2> QED
      BY <1>2, <1>6, <2>1, <2>2 DEF MakeActive
  <1>7. CASE SyncActive
    <2>1. Goes("directories") /\ command.pc = "sync_active" /\ since' = {parent} /\ parent' = parent
      BY <1>7, GoOnFields DEF SyncActive, SyncParent
    <2>2. Active' = Active /\ Rotating' = Rotating /\ \A p \in since' : p.active = Active
      BY <2>1 DEF Active, Rotating
    <2> QED
      BY <2>1, <2>2 DEF Goes, RefreshesInside, Refreshes, RotatesInOrder, Rotates
  <1>8. CASE MakeDirectories \/ MakeHeader
    <2>1. /\ command.pc \in Refreshes \ {"unlink"} /\ gaps' = gaps /\ parent' = parent
          /\ IF command.pc = "directories" /\ command.kind = "init"
             THEN since' = {parent} ELSE since' = since
          /\ (\E pc \in {"stage", "link", "unstage", "unlink"} : GoOn(pc)) \/ (\E how : Answer(how))
      BY <1>8 DEF MakeDirectories, MakeHeader, SyncParent, Refreshes
    <2>2. ASSUME NEW pc \in {"stage", "link", "unstage", "unlink"}, GoOn(pc) PROVE RefreshesInside'
      <3>1. Goes(pc)
        BY <2>2, GoOnFields
      <3>2. Active' = Active /\ Rotating' = Rotating
        BY <2>1 DEF Active, Rotating
      <3>3. CASE command.kind = "init"
        BY <2>1, <2>2, <3>1, <3>2, <3>3 DEF Goes, RefreshesInside, Refreshes
      <3>4. CASE command.kind # "init"
        BY <2>1, <2>2, <3>1, <3>2, <3>4 DEF Goes, RefreshesInside, Refreshes
      <3> QED
        BY <3>3, <3>4
    <2> QED
      BY <1>2, <2>1, <2>2
  <1>9. CASE ProposalChanges \/ LiveFileEdited \/ \E e \in Epochs : GrantExpires(e)
    <2>1. UNCHANGED <<command, parent, since, gaps>> /\ Active' = Active /\ Rotating' = Rotating
      BY <1>9 DEF GrantExpires, ProposalChanges, LiveFileEdited, Active, Rotating
    <2>2. ASSUME epoch[Active] = NewEpoch PROVE epoch'[Active] = NewEpoch
      <3>1. ASSUME NEW e \in Epochs, GrantExpires(e) PROVE epoch'[Active] = epoch[Active]
        <4>1. e # Active
          BY <2>2, <3>1 DEF GrantExpires, NewEpoch
        <4> QED
          BY <1>0, <3>1, <4>1 DEF GrantExpires, Inside
      <3> QED
        BY <1>9, <2>2, <3>1 DEF ProposalChanges, LiveFileEdited
    <2> QED
      BY <2>1, <2>2 DEF RefreshesInside
  <1> QED
    BY <1>3, <1>4, <1>5, <1>6, <1>7, <1>8, <1>9 DEF EpochNext, AppliesOrEnds

-----------------------------------------------------------------------------
(* What the operator relies on *)

\* Only the epoch that opens gets a transaction, and it is in every form of the
\* directory; only an eligible one is archived, and nobody works in an archive.
LEMMA EpochsStay ==
  ASSUME EpochTypeOK, FormsAreOlder, OthersAreNew, OpenIsThere, AppliesInside, RotatesInOrder,
         RefreshesInside, EpochsAreKept, EpochNext
  PROVE EpochsAreKept'
  <1>0. /\ parent \in since /\ \A p \in since : p \in Forms
        /\ \A p \in since : p.archives \subseteq parent.archives /\ p.archives \subseteq Epochs
        /\ Active \notin parent.archives /\ Active \in Epochs \cup {NoEpoch}
    BY Typed DEF FormsAreOlder, Forms, Active
  <1>1. gaps \subseteq gaps'
    BY PlaceSteps DEF PlacesStay, Syncs, Finds, Appoints, Adds, Marks, Fills, FillMarker,
       Archives,
       Unmarks, Loses
  <1>2. CASE PowerIsLost
    <2>1. parent' \in since /\ since' = {parent'} /\ parent'.archives \subseteq Epochs
      BY <1>0, <1>2 DEF PowerIsLost
    <2>2. \A e \in Epochs : epoch'[e] = IF e \in parent'.archives \cup {parent'.active}
                                        THEN epoch[e] ELSE NewEpoch
      BY <1>2, LostFields
    <2> QED
      BY <1>1, <2>1, <2>2 DEF EpochsAreKept, NewEpoch
  <1>3. ASSUME ~PowerIsLost PROVE EpochsAreKept'
    \* The forms of the directory that were there before keep what they held.
    <2>1. ASSUME "unsynced" \notin gaps', NEW e \in Epochs, epoch'[e].transactions > 0,
                 NEW p \in since
          PROVE e \in p.archives \cup {p.active}
      <3>1. CASE epoch[e].transactions > 0
        BY <1>1, <2>1, <3>1 DEF EpochsAreKept
      <3>2. CASE epoch'[e].transactions # epoch[e].transactions
        <4>1. e = Active /\ command.pc = "intent"
          BY <1>3, <3>2, InsideKept DEF EpochChanges
        <4>2. Opens
          BY <4>1 DEF AppliesInside, Applies
        <4> QED
          BY <1>1, <2>1, <4>1, <4>2 DEF OpenIsThere
      <3> QED
        BY <2>1, <3>1, <3>2
    <2>2. ASSUME NEW e \in parent.archives
          PROVE epoch'[e].tx \in ArchivableTransactions /\ epoch'[e].grants = 0
      <3>1. e \in Epochs /\ e # Active
        BY <1>0
      <3>2. epoch[e].tx \in ArchivableTransactions /\ epoch[e].grants = 0
        BY <1>0 DEF EpochsAreKept
      <3> QED
        BY <1>3, <3>1, <3>2, InsideKept DEF EpochChanges
    <2>3. CASE PlacesStay \/ Syncs \/ Finds
      BY <1>0, <2>1, <2>2, <2>3 DEF PlacesStay, Syncs, Finds, EpochsAreKept
    <2>4. CASE Fills
      <3>1. \A p \in since' : \E q \in since : p.archives = q.archives /\ p.active = q.active
        BY <1>0, <2>4 DEF Fills, FillMarker, Forms
      <3> QED
        BY <1>0, <2>1, <2>2, <3>1 DEF EpochsAreKept
    <2>5. ASSUME NEW active, NEW archives, NEW marker, Adds(active, archives, marker),
                 parent.archives \cup ({Active} \ {NoEpoch}) \subseteq archives \cup {active},
                 \A e \in archives \ parent.archives :
                   epoch'[e].tx \in ArchivableTransactions /\ epoch'[e].grants = 0
          PROVE EpochsAreKept'
      <3>1. since' = since \cup {parent'} /\ parent'.active = active /\ parent'.archives = archives
        BY <2>5 DEF Adds
      <3>2. ASSUME "unsynced" \notin gaps', NEW e \in Epochs, epoch'[e].transactions > 0
            PROVE e \in archives \cup {active}
        BY <1>0, <2>1, <2>5, <3>2, Names DEF Active
      <3> QED
        BY <1>0, <2>1, <2>2, <2>5, <3>1, <3>2 DEF EpochsAreKept
    <2>6. CASE \/ Marks \/ Unmarks \/ \E e \in Epochs : Appoints(e)
      BY <2>5, <2>6 DEF Marks, Unmarks, Appoints
    <2>7. CASE Archives
      <3>1. /\ epoch' = epoch /\ epoch[Active].grants = 0
            /\ epoch[Active].tx \in ArchivableTransactions
        BY <2>7 DEF Archives, Eligible
      <3> QED
        BY <2>5, <2>7, <3>1 DEF Archives
    <2> QED
      BY <1>3, <2>3, <2>4, <2>6, <2>7, PlaceSteps
  <1> QED
    BY <1>2, <1>3

\* The marker goes with its epoch from the active place to the archive, and the
\* power leaves it at one of the two.
LEMMA RotationStays ==
  ASSUME EpochTypeOK, FormsAreOlder, MarkersAreOlder, OthersAreNew, RotationHolds, AppliesInside,
         RotatesInOrder, RefreshesInside, EpochNext
  PROVE RotationHolds'
  <1>0. /\ parent \in since /\ \A p \in since : p \in Forms
        /\ \A p \in since : p.active \in Epochs \cup {NoEpoch}
        /\ Active \notin parent.archives /\ Active \in Epochs \cup {NoEpoch}
        /\ NoMarker \notin Epochs /\ EmptyMarker \notin Epochs
    BY Typed, Names DEF FormsAreOlder, Forms, Active
  <1>1. gaps \subseteq gaps'
    BY PlaceSteps DEF PlacesStay, Syncs, Finds, Appoints, Adds, Marks, Fills, FillMarker,
       Archives,
       Unmarks, Loses
  <1> SUFFICES ASSUME "undone" \notin gaps', NEW p \in since',
                      p.marker \in Epochs, p.marker = Rotating'
               PROVE (StillActive(p) \/ MovedAway(p))'
    BY DEF RotationHolds
  <1>2. CASE PowerIsLost
    <2>1. p = parent' /\ p \in since /\ p.marker = Rotating /\ "undone" \notin gaps
      BY <1>0, <1>1, <1>2 DEF PowerIsLost
    <2>2. StillActive(p) \/ MovedAway(p)
      BY <2>1 DEF RotationHolds
    <2>3. p.active \in Epochs => epoch'[p.active] = epoch[p.active]
      BY <1>2, <2>1, LostFields
    <2> QED
      BY <1>0, <2>1, <2>2, <2>3 DEF StillActive, MovedAway, Valid, Unused
  \* A form that was there before, with the marker that there was before.
  <1>3. ASSUME ~PowerIsLost, p \in since, Rotating' = Rotating
        PROVE (StillActive(p) \/ MovedAway(p))'
    <2>1. StillActive(p) \/ MovedAway(p)
      BY <1>1, <1>3 DEF RotationHolds
    <2>2. Rotating \in parent.archives \/ command.pc \notin Applies \cup Refreshes
      BY <1>0, <1>3 DEF AppliesInside, RefreshesInside, Opens
    <2>3. CASE StillActive(p)
      <3>1. p.active \in Epochs /\ p.active = Rotating
        BY <1>3, <2>3 DEF StillActive
      <3>2. p.active # Active \/ command.pc \notin Applies \cup Refreshes
        BY <1>0, <2>2, <3>1
      <3> QED
        BY <1>3, <2>3, <3>1, <3>2, InsideKept DEF EpochChanges, StillActive, Valid, Applies,
           Refreshes
    <2>4. CASE MovedAway(p)
      <3>1. command.pc \notin {"review", "intent"}
        BY <1>0, <1>3 DEF AppliesInside, Opens, Applies
      <3> QED
        BY <1>0, <1>3, <2>4, <3>1, InsideKept DEF EpochChanges, MovedAway, Unused
    <2> QED
      BY <2>1, <2>3, <2>4
  <1>4. CASE PlacesStay \/ Syncs \/ Finds
    <2>1. p \in since /\ Rotating' = Rotating
      BY <1>0, <1>4 DEF PlacesStay, Syncs, Finds, Rotating
    <2> QED
      BY <1>2, <1>3, <2>1
  <1>5. ASSUME NEW e \in Epochs, Appoints(e) PROVE (StillActive(p) \/ MovedAway(p))'
    <2>1. Rotating' = Rotating /\ since' = since \cup {parent'} /\ epoch'[e] = NewEpoch
      BY <1>5 DEF Appoints, Adds, Rotating
    <2>2. CASE p = parent'
      <3>1. Rotating \in parent.archives
        BY <1>0, <1>5, <2>1, <2>2 DEF Appoints, FreshParent, RotatesInOrder, Rotating
      <3>2. p.active = e /\ p.archives = parent.archives /\ p.marker = Rotating
        BY <1>5, <2>2 DEF Appoints, Adds, Rotating
      <3> QED
        BY <2>1, <3>1, <3>2 DEF MovedAway, Unused, NewEpoch
    <2> QED
      BY <1>2, <1>3, <2>1, <2>2
  <1>6. CASE Marks \/ Unmarks
    BY <1>0, <1>6 DEF Marks, Unmarks, Adds, Rotating
  <1>7. CASE Archives
    <2>1. Rotating' = Rotating /\ since' = since \cup {parent'} /\ Rotating = Active
      BY <1>7 DEF Archives, Adds, RotatesInOrder, Moving, Rotating
    <2>2. CASE p = parent'
      BY <1>7, <2>1, <2>2 DEF Archives, Adds, MovedAway
    <2> QED
      BY <1>2, <1>3, <2>1, <2>2
  <1>8. CASE Fills
    <2>1. /\ Rotating = EmptyMarker /\ command.pc = "fill" /\ Rotating' = Active
          /\ epoch' = epoch /\ Active \in Epochs
      BY <1>0, <1>8 DEF Fills, FillMarker, RotatesInOrder, Begins, Rotating, Forms
    <2>2. PICK q \in since : p = IF q.marker = EmptyMarker THEN [q EXCEPT !.marker = Active] ELSE q
      BY <1>8 DEF Fills, FillMarker
    <2>3. q = parent
      BY <1>0, <2>1, <2>2 DEF MarkersAreOlder
    <2>4. p.active = Active /\ p.archives = parent.archives /\ p.marker = Active
      BY <1>0, <2>1, <2>2, <2>3 DEF Forms, Active, Rotating
    <2>5. Valid(Active) /\ epoch[Active].tx \in ArchivableTransactions /\ WithinBudget
      BY <2>1 DEF RotatesInOrder, Begins
    <2> QED
      BY <2>1, <2>4, <2>5 DEF StillActive, Valid, WithinBudget
  <1> QED
    BY <1>2, <1>4, <1>5, <1>6, <1>7, <1>8, PlaceSteps

\* The first record applies what was confirmed, and confirmations only grow.
LEMMA OnlyShownStays ==
  ASSUME EpochTypeOK, AppliesInside, RefreshesInside, OnlyShownIsApplied, EpochNext
  PROVE OnlyShownIsApplied'
  <1> SUFFICES ASSUME NEW e \in Epochs, epoch'[e].transactions > 0
               PROVE epoch'[e].applied # {} /\ epoch'[e].applied \subseteq epoch'[e].confirmed
    BY DEF OnlyShownIsApplied
  <1>1. CASE PowerIsLost
    BY <1>1, LostFields DEF OnlyShownIsApplied, NewEpoch
  <1>2. CASE ~PowerIsLost
    <2>1. EpochChanges(e)
      BY <1>2, InsideKept
    <2>2. CASE /\ epoch'[e].transactions = epoch[e].transactions
               /\ epoch'[e].applied = epoch[e].applied
      BY <2>1, <2>2 DEF EpochChanges, OnlyShownIsApplied
    <2>3. CASE \/ epoch'[e].transactions # epoch[e].transactions
               \/ epoch'[e].applied # epoch[e].applied
      BY <2>1, <2>3 DEF EpochChanges, AppliesInside, Confirmed
    <2> QED
      BY <2>2, <2>3
  <1> QED
    BY <1>1, <1>2

\* Only the ends of apply and recover carry a settlement; only the last sync ends
\* a rotation as done.
LEMMA AnswersStay ==
  ASSUME EpochTypeOK, AppliesInside, RotatesInOrder, RefreshesInside, AnswersAreHonest, EpochNext
  PROVE AnswersAreHonest'
  <1>0. command \in Commands
    BY Typed
  <1>1. ASSUME NEW how, Answer(how),
               how = "refused" => ~command.settled /\ ~command.dispatched,
               how = "done" /\ command.kind \in {"rotate", "resume"} =>
                 since' = {parent'} /\ parent'.marker = NoMarker
        PROVE AnswersAreHonest'
    BY <1>1, AnswerFields DEF Ends, AnswersAreHonest
  <1>2. ASSUME command.pc \notin {"report", "failed"}, Answer("refused") PROVE AnswersAreHonest'
    BY <1>1, <1>2 DEF AppliesInside
  <1>3. ASSUME command'.pc # "idle", answer' = answer PROVE AnswersAreHonest'
    BY <1>3 DEF AnswersAreHonest
  <1>4. ASSUME NEW pc \in CommandPlaces \ {"idle"}, GoOn(pc) PROVE AnswersAreHonest'
    BY <1>3, <1>4, GoOnFields DEF Goes
  <1>5. CASE \/ Initialize \/ OpenEpoch \/ StartRotation \/ StartResume \/ IssueGrant
             \/ ConsumeGrant \/ RecordIntent \/ CreateMarker \/ FillMarker
             \/ SyncMarker \/ RenameActive \/ SyncRename \/ MakeActive \/ SyncActive
             \/ MakeDirectories \/ UnlinkMarker
    <2>1. \/ \E pc \in CommandPlaces \ {"idle"} : GoOn(pc)
          \/ command.pc \notin {"report", "failed"} /\ Answer("refused")
      BY <1>5 DEF CommandPlaces, Initialize, OpenEpoch, StartRotation, StartResume,
         IssueGrant, ConsumeGrant, RecordIntent, CreateMarker, FillMarker, SyncMarker,
         RenameActive, SyncRename, MakeActive, SyncActive, MakeDirectories, UnlinkMarker
    <2> QED
      BY <1>2, <1>4, <2>1
  <1>6. CASE \/ Review \/ Confirm \/ LoadProposal \/ LoadCandidate
             \/ ExchangeFile \/ SettleApply \/ DispatchRecovery
    <2>1. command'.pc # "idle" /\ answer' = answer
      BY <1>0, <1>6 DEF Review, Confirm, ConfirmedAs, LoadProposal, LoadCandidate,
         ExchangeFile, SettleApply, Settled, GoOn, DispatchRecovery, Commands
    <2> QED
      BY <1>3, <2>1
  <1>7. CASE Report \/ Failure
    <2>1. command.kind \in {"apply", "recover"}
      BY <1>7 DEF Report, Failure, AppliesInside
    <2>2. \/ \E how : Answer(how) /\ (how = "refused" => ~command.settled /\ ~command.dispatched)
          \/ GoOn("failed")
      BY <1>7 DEF Report, Failure
    <2> QED
      BY <1>1, <1>4, <2>1, <2>2 DEF CommandPlaces
  <1>8. CASE MakeHeader
    <2>1. \/ \E pc \in CommandPlaces \ {"idle"} : GoOn(pc)
          \/ command.kind = "init" /\ Answer("done")
      BY <1>8 DEF MakeHeader, CommandPlaces
    <2> QED
      BY <1>1, <1>4, <2>1
  <1>9. CASE SyncUnlink
    BY <1>1, <1>9 DEF SyncUnlink, SyncParent, RotatesInOrder, Rotating
  <1>10. CASE CallFails
    <2>1. ASSUME command' = [command EXCEPT !.pc = "failed",
                                            !.dispatched = @ \/ command.pc = "dispatch"],
                 answer' = answer
          PROVE AnswersAreHonest'
      BY <1>0, <1>3, <2>1 DEF Commands
    <2> QED
      BY <1>2, <1>10, <2>1 DEF CallFails
  <1>11. CASE OperatorDies \/ PowerIsLost
    BY <1>11 DEF OperatorDies, PowerIsLost, NoAnswer, AnswersAreHonest
  <1>12. CASE \E kind \in Kinds : StartCommand(kind)
    BY <1>3, <1>12, StartFields DEF StartCommand
  <1>13. CASE ProposalChanges \/ LiveFileEdited \/ \E e \in Epochs : GrantExpires(e)
    BY <1>13 DEF ProposalChanges, LiveFileEdited, GrantExpires, AnswersAreHonest
  <1> QED
    BY <1>5, <1>6, <1>7, <1>8, <1>9, <1>10, <1>11, <1>12, <1>13 DEF EpochNext

-----------------------------------------------------------------------------
(* The types *)

\* The rename has room in the budget.
LEMMA PlacesTyped ==
  ASSUME EpochTypeOK, FormsAreOlder, RotatesInOrder, OthersAreNew, EpochNext
  PROVE /\ parent' \in since' /\ since' \subseteq Forms
        /\ \A p \in since' : Cardinality(p.archives) <= MaxArchives
        /\ gaps' \subseteq Gaps
  <1>0. /\ parent \in since /\ since \subseteq Forms /\ gaps \subseteq Gaps
        /\ \A p \in since : Cardinality(p.archives) <= MaxArchives
        /\ {"undone", "unsynced"} \subseteq Gaps
    BY Typed DEF EpochTypeOK, Gaps
  <1>1. CASE PlacesStay \/ Syncs \/ Finds \/ Loses
    BY <1>0, <1>1 DEF PlacesStay, Syncs, Finds, Loses
  <1>2. CASE Marks \/ Unmarks \/ \E e \in Epochs : Appoints(e)
    BY <1>0, <1>2 DEF Marks, Unmarks, Appoints, Adds
  <1>3. CASE Archives
    <2>1. /\ Active \notin parent.archives /\ parent.archives \in SUBSET Epochs
          /\ Cardinality(parent.archives) < MaxArchives
      BY <1>0, <1>3 DEF Archives, FormsAreOlder, Forms, Active, RotatesInOrder, Moving,
         WithinBudget
    <2>2. IsFiniteSet(Epochs)
      BY FS_Interval, EpochAssumption DEF Epochs
    <2>3. IsFiniteSet(parent.archives)
      BY <2>1, <2>2, FS_Subset
    <2>4. Cardinality(parent.archives \cup {Active}) = Cardinality(parent.archives) + 1
      BY <2>1, <2>3, FS_AddElement
    <2>5. Cardinality(parent.archives) \in Nat
      BY <2>3, FS_CardinalityType
    <2>6. Cardinality(parent.archives \cup {Active}) <= MaxArchives
      BY <2>1, <2>4, <2>5, EpochAssumption
    <2>7. /\ parent'.archives = parent.archives \cup {Active} /\ parent' \in Forms
          /\ since' = since \cup {parent'} /\ gaps' = gaps
      BY <1>3 DEF Archives, Adds
    <2> QED
      BY <1>0, <2>6, <2>7
  <1>4. CASE Fills
    <2>1. \A p \in since : [p EXCEPT !.marker = Active] \in Forms
      BY <1>0, <1>4 DEF Fills, Forms
    <2>2. \A p \in since' : \E q \in since : p.archives = q.archives
      BY <1>0, <1>4 DEF Fills, FillMarker, Forms
    <2>3. since' \subseteq Forms
      BY <1>0, <1>4, <2>1 DEF Fills, FillMarker
    <2>4. parent' \in since' /\ gaps' = gaps
      BY <1>0, <1>4 DEF Fills, FillMarker, RotatesInOrder, Begins, Rotating
    <2> QED
      BY <1>0, <2>2, <2>3, <2>4
  <1> QED
    BY <1>1, <1>2, <1>3, <1>4, PlaceSteps

\* The other variables have their types.
LEMMA EpochTyped ==
  ASSUME EpochTypeOK, AppliesInside, RefreshesInside, EpochNext
  PROVE epoch' \in [Epochs -> Insides]
BY InsideSteps, SpentFields, LostFields, Typed DEF Works

LEMMA WorldTyped ==
  ASSUME EpochTypeOK, AppliesInside, EpochNext
  PROVE /\ live' \in Epochs \cup {Original, Foreign} /\ version' \in Versions
        /\ edits' \in 0..MaxEdits /\ epochFaults' \in 0..MaxEpochFaults
  <1>0. /\ live \in Epochs \cup {Original, Foreign} /\ version \in Versions
        /\ epoch \in [Epochs -> Insides] /\ parent \in Forms
        /\ edits \in 0..MaxEdits /\ epochFaults \in 0..MaxEpochFaults
        /\ MaxEdits \in Nat /\ MaxEpochFaults \in Nat
    BY Typed, EpochAssumption DEF EpochTypeOK
  <1>1. ASSUME command.pc \in Applies
        PROVE Active \in Epochs /\ epoch[Active].base \in Epochs \cup {Original, Foreign}
    BY <1>0, <1>1 DEF AppliesInside, Opens, Forms, Active, Insides
  <1>2. ASSUME epochFaults' = epochFaults \/ EpochFault PROVE epochFaults' \in 0..MaxEpochFaults
    BY <1>0, <1>2 DEF EpochFault
  <1>3. CASE ExchangeFile \/ SettleApply \/ DispatchRecovery
    <2>1. /\ command.pc \in Applies /\ UNCHANGED <<version, edits, epochFaults>>
          /\ live' \in {live, Active, epoch[Active].base}
      BY <1>3 DEF ExchangeFile, SettleApply, DispatchRecovery, Applies
    <2> QED
      BY <1>0, <1>1, <2>1
  <1>4. CASE ProposalChanges \/ LiveFileEdited
    BY <1>0, <1>4 DEF ProposalChanges, LiveFileEdited
  <1>5. CASE Report \/ IssueGrant \/ MakeHeader \/ CallFails \/ OperatorDies \/ PowerIsLost
    BY <1>0, <1>2, <1>5 DEF Report, IssueGrant, MakeHeader, CallFails, OperatorDies,
       PowerIsLost,
       NoEpochFault
  <1>6. CASE \/ \E kind \in Kinds : StartCommand(kind)
             \/ Initialize \/ OpenEpoch \/ StartRotation \/ StartResume
             \/ Review \/ Confirm \/ LoadProposal \/ LoadCandidate
             \/ ConsumeGrant \/ RecordIntent \/ Failure
             \/ CreateMarker \/ FillMarker \/ SyncMarker \/ RenameActive \/ SyncRename
             \/ MakeActive \/ SyncActive \/ MakeDirectories \/ UnlinkMarker \/ SyncUnlink
             \/ \E e \in Epochs : GrantExpires(e)
    <2>1. UNCHANGED <<live, version, edits, epochFaults>>
      BY <1>6 DEF StartCommand, Initialize, OpenEpoch, StartRotation, StartResume, Review,
         Confirm, LoadProposal, LoadCandidate,
         ConsumeGrant, RecordIntent, Failure, CreateMarker, FillMarker, SyncMarker, RenameActive,
         SyncRename, MakeActive, SyncActive, MakeDirectories, UnlinkMarker, SyncUnlink, GrantExpires
    <2> QED
      BY <1>0, <2>1
  <1> QED
    BY <1>3, <1>4, <1>5, <1>6 DEF EpochNext

LEMMA CommandTyped ==
  ASSUME EpochTypeOK, AppliesInside, EpochNext
  PROVE command' \in Commands /\ answer' \in Answers
  <1>0. /\ command \in Commands /\ answer \in Answers /\ version \in Versions
        /\ epoch \in [Epochs -> Insides] /\ parent \in Forms
    BY Typed
  <1>1. NoCommand \in Commands /\ NoAnswer \in Answers
    BY DEF NoCommand, NoAnswer, Commands, Answers, Kinds, CommandPlaces
  <1>2. ASSUME NEW pc \in CommandPlaces, GoOn(pc)
        PROVE command' \in Commands /\ answer' \in Answers
    BY <1>0, <1>2 DEF GoOn, Commands
  <1>3. ASSUME NEW how \in {"done", "refused", "uncertain"}, Answer(how)
        PROVE command' \in Commands /\ answer' \in Answers
    BY <1>0, <1>1, <1>3 DEF Answer, Commands, Answers
  <1>4. CASE \/ Initialize \/ OpenEpoch \/ StartRotation \/ StartResume \/ IssueGrant
             \/ ConsumeGrant \/ RecordIntent \/ Report \/ Failure
             \/ CreateMarker \/ FillMarker \/ SyncMarker \/ RenameActive \/ SyncRename
             \/ MakeActive \/ SyncActive \/ MakeDirectories \/ MakeHeader
             \/ UnlinkMarker \/ SyncUnlink
    <2>1. \/ \E pc \in CommandPlaces : GoOn(pc)
          \/ \E how \in {"done", "refused", "uncertain"} : Answer(how)
      BY <1>4 DEF CommandPlaces, Initialize, OpenEpoch, StartRotation, StartResume,
         IssueGrant, ConsumeGrant, RecordIntent, Report, Failure, CreateMarker,
         FillMarker, SyncMarker, RenameActive, SyncRename, MakeActive, SyncActive, MakeDirectories,
         MakeHeader, UnlinkMarker, SyncUnlink
    <2> QED
      BY <1>2, <1>3, <2>1
  <1>5. CASE \E kind \in Kinds : StartCommand(kind)
    BY <1>0, <1>1, <1>5 DEF StartCommand, Commands, CommandPlaces
  <1>6. CASE Review
    <2>1. Active \in Epochs /\ epoch[Active].tx \in Transactions
      BY <1>0, <1>6 DEF Review, AppliesInside, Applies, Opens, Forms, Active, Insides
    <2>2. Snapshot \in SUBSET (Versions \cup Transactions) /\ "confirm" \in CommandPlaces
      BY <1>0, <2>1 DEF Snapshot, CommandPlaces
    <2> QED
      BY <1>0, <1>6, <2>2 DEF Review, Commands
  <1>7. CASE ExchangeFile \/ SettleApply \/ DispatchRecovery
    <2>1. "settle" \in CommandPlaces /\ "report" \in CommandPlaces /\ "failed" \in CommandPlaces
      BY DEF CommandPlaces
    <2>2. \/ GoOn("failed") \/ GoOn("settle")
          \/ command' = [command EXCEPT !.pc = "report", !.settled = TRUE] /\ answer' = answer
          \/ /\ command' = [command EXCEPT !.pc = "report", !.settled = TRUE, !.dispatched = TRUE]
             /\ answer' = answer
          \/ /\ command' = [command EXCEPT !.pc = "failed", !.settled = FALSE, !.dispatched = TRUE]
             /\ answer' = answer
      BY <1>7 DEF ExchangeFile, SettleApply, Settled, DispatchRecovery
    <2> QED
      BY <1>0, <1>2, <2>1, <2>2 DEF Commands
  <1>8. CASE CallFails
    <2>1. ASSUME command' = [command EXCEPT !.pc = "failed",
                                            !.dispatched = @ \/ command.pc = "dispatch"],
                 answer' = answer
          PROVE command' \in Commands /\ answer' \in Answers
      BY <1>0, <2>1 DEF Commands, CommandPlaces
    <2> QED
      BY <1>3, <1>8, <2>1 DEF CallFails
  <1>9. CASE OperatorDies \/ PowerIsLost
    BY <1>1, <1>9 DEF OperatorDies, PowerIsLost
  <1>10. CASE ProposalChanges \/ LiveFileEdited \/ \E e \in Epochs : GrantExpires(e)
    BY <1>0, <1>10 DEF ProposalChanges, LiveFileEdited, GrantExpires
  <1>11. CASE LoadProposal \/ LoadCandidate
    <2>1. \/ GoOn("failed")
          \/ /\ \E pc \in {"lock", "candidate"} :
                  command' = [command EXCEPT !.pc = pc, !.loaded = {version}]
             /\ answer' = answer
          \/ /\ command' = [command EXCEPT !.pc = "consume", !.bytes = {version}, !.source = live]
             /\ answer' = answer
      BY <1>0, <1>11 DEF LoadProposal, LoadCandidate, Commands
    <2>2. {"lock", "candidate", "consume", "failed"} \subseteq CommandPlaces
      BY DEF CommandPlaces
    <2>3. live \in Epochs \cup {Original, Foreign}
      BY Typed
    <2>4. ASSUME NEW pc \in {"lock", "candidate"},
                 command' = [command EXCEPT !.pc = pc, !.loaded = {version}]
          PROVE command' \in Commands
      BY <1>0, <2>2, <2>4 DEF Commands
    <2>5. ASSUME command' = [command EXCEPT !.pc = "consume", !.bytes = {version}, !.source = live]
          PROVE command' \in Commands
      BY <1>0, <2>2, <2>3, <2>5 DEF Commands
    <2> QED
      BY <1>0, <1>2, <2>1, <2>2, <2>4, <2>5
  <1>12. CASE Confirm
    <2>1. \/ GoOn("failed")
          \/ /\ \E pc \in {"grant", "dispatch"} :
                  command' = [command EXCEPT !.pc = pc, !.granted = Snapshot \cap Versions]
             /\ answer' = answer
      BY <1>12 DEF Confirm, ConfirmedAs
    <2>2. {"grant", "dispatch", "failed"} \subseteq CommandPlaces
      BY DEF CommandPlaces
    <2> QED
      BY <1>0, <1>2, <2>1, <2>2 DEF Commands
  <1> QED
    BY <1>4, <1>5, <1>6, <1>7, <1>8, <1>9, <1>10, <1>11, <1>12 DEF EpochNext

LEMMA TypesKept ==
  ASSUME EpochTypeOK, FormsAreOlder, OthersAreNew, AppliesInside, RotatesInOrder, RefreshesInside,
         EpochNext
  PROVE EpochTypeOK'
BY PlacesTyped, EpochTyped, WorldTyped, CommandTyped DEF EpochTypeOK, Forms, Insides, Commands,
   Answers

-----------------------------------------------------------------------------
(* The theorems *)

LEMMA EpochInvInit == EpochInit => EpochInv
  <1> SUFFICES ASSUME EpochInit PROVE EpochInv
    OBVIOUS
  <1>1. /\ parent = FreshParent /\ since = {FreshParent} /\ Active = NoEpoch /\ Rotating = NoMarker
        /\ parent.archives = {} /\ gaps = {} /\ epoch = [e \in Epochs |-> NewEpoch]
        /\ command.pc = "idle" /\ ~command.settled /\ ~command.dispatched /\ answer.how = "none"
    BY DEF EpochInit, FreshParent, Active, Rotating, NoCommand, NoAnswer
  <1>2. EpochTypeOK
    <2>1. NewEpoch \in Insides
      BY EpochAssumption DEF NewEpoch, Insides, Transactions
    <2>2. NoCommand \in Commands /\ NoAnswer \in Answers
      BY DEF NoCommand, NoAnswer, Commands, Answers, Kinds, CommandPlaces
    <2>3. FreshParent \in Forms /\ Cardinality(FreshParent.archives) <= MaxArchives
      BY FS_EmptySet, EpochAssumption DEF FreshParent, Forms
    <2>4. 0 \in 0..MaxEdits /\ 0 \in 0..MaxEpochFaults
      BY EpochAssumption
    <2> QED
      BY <2>1, <2>2, <2>3, <2>4 DEF EpochInit, EpochTypeOK, Forms, Insides, Commands, Answers
  <1>3. FormsAreOlder /\ MarkersAreOlder /\ OthersAreNew /\ OpenIsThere /\ RotationHolds
    BY <1>1, Names DEF FormsAreOlder, MarkersAreOlder, OthersAreNew, OpenIsThere,
       RotationHolds, Opens, FreshParent
  <1>4. AppliesInside /\ RotatesInOrder /\ RefreshesInside
    BY <1>1 DEF AppliesInside, RotatesInOrder, RefreshesInside, Applies, Confirmed, Rotates, Begins,
       Moving,
       Refreshes
  <1>5. EpochsAreKept /\ OnlyShownIsApplied /\ AnswersAreHonest
    BY <1>1 DEF EpochsAreKept, OnlyShownIsApplied, AnswersAreHonest, FreshParent, NewEpoch
  <1> QED
    BY <1>2, <1>3, <1>4, <1>5 DEF EpochInv

LEMMA EpochInvStep == EpochInv /\ [EpochNext]_epochVars => EpochInv'
  <1> SUFFICES ASSUME EpochInv, [EpochNext]_epochVars PROVE EpochInv'
    OBVIOUS
  <1>1. CASE EpochNext
    BY <1>1, TypesKept, FormsKept, MarkersKept, OthersKept, OpenKept, RotationStays,
       AppliesKept,
       RotatesKept, RefreshesKept, EpochsStay, OnlyShownStays, AnswersStay DEF EpochInv
  <1>2. CASE UNCHANGED epochVars
    <2>1. UNCHANGED <<parent, since, epoch, live, version, command, answer, gaps, edits,
                      epochFaults>>
      BY <1>2 DEF epochVars
    <2>2. EpochTypeOK' /\ FormsAreOlder' /\ MarkersAreOlder' /\ OthersAreNew'
      BY <2>1 DEF EpochInv, EpochTypeOK, FormsAreOlder, MarkersAreOlder, OthersAreNew, Active,
         Rotating
    <2>3. OpenIsThere' /\ RotationHolds'
      BY <2>1 DEF EpochInv, OpenIsThere, RotationHolds, Opens, Valid, Active, Rotating,
         StillActive,
         MovedAway, Unused
    <2>4. AppliesInside' /\ RotatesInOrder' /\ RefreshesInside'
      BY <2>1 DEF EpochInv, AppliesInside, RotatesInOrder, RefreshesInside, Opens, Valid,
         Active,
         Rotating, WithinBudget
    <2>5. EpochsAreKept' /\ OnlyShownIsApplied' /\ AnswersAreHonest'
      BY <2>1 DEF EpochInv, EpochsAreKept, OnlyShownIsApplied, AnswersAreHonest
    <2> QED
      BY <2>2, <2>3, <2>4, <2>5 DEF EpochInv
  <1> QED
    BY <1>1, <1>2

LEMMA EpochInvAlways == EpochSpec => []EpochInv
BY EpochInvInit, EpochInvStep, PTL DEF EpochSpec

\* Types: the directory, what it may fall back to, and the epochs, whose archives
\* never exceed the budget.
THEOREM EpochTypes == EpochSpec => []EpochTypeOK
  <1>1. EpochInv => EpochTypeOK
    BY DEF EpochInv
  <1> QED
    BY <1>1, EpochInvAlways, PTL

\* No crash, loss of power or operator command loses an epoch with a transaction
\* or archives an unsettled one (retention.ts).
THEOREM EpochsKept == EpochSpec => []EpochsAreKept
  <1>1. EpochInv => EpochsAreKept
    BY DEF EpochInv
  <1> QED
    BY <1>1, EpochInvAlways, PTL

\* What is applied was shown and confirmed in the log of its epoch
\* (operatorApproval.ts).
THEOREM OnlyShownApplied == EpochSpec => []OnlyShownIsApplied
  <1>1. EpochInv => OnlyShownIsApplied
    BY DEF EpochInv
  <1> QED
    BY <1>1, EpochInvAlways, PTL

\* A command that settled or dispatched is not answered as a plain failure, and a
\* finished rotation cannot be undone (operatorApproval.ts, operatorRecovery.ts).
THEOREM HonestAnswers == EpochSpec => []AnswersAreHonest
  <1>1. EpochInv => AnswersAreHonest
    BY DEF EpochInv
  <1> QED
    BY <1>1, EpochInvAlways, PTL

\* Wherever a rotation was interrupted, its marker leads on to its end
\* (retention.ts, resume).
THEOREM RotationResumable == EpochSpec => []RotationIsResumable
  <1>1. EpochInv => RotationIsResumable
    <2> SUFFICES ASSUME EpochInv, command.pc = "idle", Rotating \in Epochs, "undone" \notin gaps
                 PROVE RotationIsResumable
      BY DEF RotationIsResumable
    <2>1. StillActive(parent) \/ MovedAway(parent)
      BY Typed DEF EpochInv, RotationHolds, Rotating
    <2>2. Active \in Epochs \cup {NoEpoch}
      BY Typed DEF EpochInv, Forms, Active
    <2>3. ASSUME Active \in Epochs
          PROVE epoch[Active].header \in {"none", "staged", "linked", "there"}
      BY <2>3, Typed DEF EpochInv, Insides
    <2> QED
      BY <2>1, <2>2, <2>3 DEF RotationIsResumable, StillActive, MovedAway, Unused, Fresh,
         WithinBudget,
         Active, Rotating
  <1> QED
    BY <1>1, EpochInvAlways, PTL
===============================================================================
