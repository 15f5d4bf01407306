--------------------------- MODULE SystemSync_proofs ---------------------------
(***************************************************************************)
(* Proofs about SystemSync.  The properties that relate model, settings,   *)
(* cache and hardware hold between synchronizations; the inductive         *)
(* invariant says what each stage of one in progress preserves of them.    *)
(***************************************************************************)
EXTENDS SystemSync, SequenceTheorems, TLAPS

Overridden == \E i \in DOMAIN overrides : overrides[i].kind = "settings"

\* The outermost override of backend settings.
IsOutermost(i) ==
    /\ i \in DOMAIN overrides
    /\ overrides[i].kind = "settings"
    /\ \A j \in DOMAIN overrides : overrides[j].kind = "settings" => i <= j

\* What each stage of a synchronization has done.
StageInv ==
    /\ sync.stage = "none" => sync = NoSync
    /\ sync.stage = "written" => sync.kind = "push" /\ sync.dump = Nothing
    /\ sync.stage \in {"fetched", "stored", "mirrored"} =>
         /\ sync.kind # "none"
         /\ \A p \in Ports : p \in PortsOf(sync.read) <=> sync.dump[p] # NoVal
    /\ sync.stage = "fetched" => sync.before = [settings |-> settings, cache |-> cache]
    /\ sync.stage \in {"stored", "mirrored"}
         => settings = Overlay(sync.before.settings, sync.dump)
    /\ sync.stage = "stored" => cache = sync.before.cache
    /\ sync.stage = "mirrored" => cache = Overlay(sync.before.cache, settings)

\* The cache as it was before the synchronization in progress.
SeenCache == IF sync.stage = "mirrored" THEN sync.before.cache ELSE cache

CacheInv ==
    /\ conn /\ ~stale /\ ~Overridden
         => \A p \in Ports : SeenCache[p] \in {NoVal, Seen[p]}
    /\ ~stale /\ ~learned
         => \A i \in DOMAIN overrides : IsOutermost(i)
              => \A p \in Ports : overrides[i].snapshot[p] \in {NoVal, Seen[p]}

AgreementInv ==
    /\ clean => cached.settings = Seen /\ cached.es = Seen
    /\ sync.kind = "push" /\ clean => es = cached.es
    /\ sync.stage = "written" /\ unhurt
         => \A p \in PortsOf(sync.boxes) : hw[p] = es[p]
    /\ sync.kind = "push" /\ sync.stage \in {"fetched", "stored", "mirrored"} /\ unhurt
         => \A p \in Ports : sync.dump[p] \in {NoVal, es[p]}

IInv == TypeOK /\ StageInv /\ CacheInv /\ AgreementInv

-----------------------------------------------------------------------------
(* The stack of overrides.                                                  *)

LEMMA Entered ==
  ASSUME TypeOK, CanOverride, NEW o \in Overrides, NEW agrees, Enter(o, agrees)
  PROVE  /\ overrides' \in Seq(Overrides)
         /\ Len(overrides') = Len(overrides) + 1
         /\ Len(overrides') <= MaxOverrides
         /\ \A i \in DOMAIN overrides : i \in DOMAIN overrides' /\ overrides'[i] = overrides[i]
         /\ overrides'[Len(overrides')] = o
         /\ DOMAIN overrides' = 1..Len(overrides')
<1>1. overrides \in Seq(Overrides) /\ Len(overrides) <= MaxOverrides
  BY DEF TypeOK
<1>2. Len(overrides) \in Nat /\ MaxOverrides \in Nat
  BY <1>1, BoundsAssumption
<1> QED
  BY <1>1, <1>2, AppendProperties DEF Enter, CanOverride

LEMMA Left ==
  ASSUME TypeOK, Active, NEW kept, Leave(kept)
  PROVE  /\ overrides' \in Seq(Overrides)
         /\ Len(overrides') = Len(overrides) - 1
         /\ \A i \in DOMAIN overrides' :
               i \in DOMAIN overrides /\ i # Len(overrides) /\ overrides'[i] = overrides[i]
         /\ \A i \in DOMAIN overrides : i # Len(overrides) => i \in DOMAIN overrides'
         /\ Innermost \in Overrides
         /\ Len(overrides) \in DOMAIN overrides
<1>1. overrides \in Seq(Overrides) /\ Len(overrides) \in Nat /\ Len(overrides) > 0
  BY DEF TypeOK, Active
<1>2. \A i \in 1..(Len(overrides) - 1) : overrides[i] \in Overrides
  BY <1>1
<1>3. /\ overrides' \in Seq(Overrides)
      /\ Len(overrides') = Len(overrides) - 1
      /\ \A i \in 1..(Len(overrides) - 1) : overrides'[i] = overrides[i]
  <2>1. 1 \in Int /\ Len(overrides) - 1 \in Int
    BY <1>1
  <2>2. /\ SubSeq(overrides, 1, Len(overrides) - 1) \in Seq(Overrides)
        /\ Len(SubSeq(overrides, 1, Len(overrides) - 1))
             = IF 1 <= Len(overrides) - 1 THEN Len(overrides) - 1 - 1 + 1 ELSE 0
        /\ \A i \in 1..(Len(overrides) - 1 - 1 + 1) :
              SubSeq(overrides, 1, Len(overrides) - 1)[i] = overrides[1 + i - 1]
    BY <2>1, <1>2, SubSeqProperties
  <2>3. overrides' = SubSeq(overrides, 1, Len(overrides) - 1)
    BY DEF Leave
  <2>4. Len(overrides') = Len(overrides) - 1
    <3>1. ASSUME NEW n \in Nat, n > 0
          PROVE  (IF 1 <= n - 1 THEN n - 1 - 1 + 1 ELSE 0) = n - 1
      BY <3>1
    <3>2. (IF 1 <= Len(overrides) - 1 THEN Len(overrides) - 1 - 1 + 1 ELSE 0)
            = Len(overrides) - 1
      BY <1>1, <3>1
    <3> QED
      BY <2>2, <2>3, <3>2
  <2>5. ASSUME NEW i \in 1..(Len(overrides) - 1) PROVE overrides'[i] = overrides[i]
    <3>1. i \in 1..(Len(overrides) - 1 - 1 + 1) /\ 1 + i - 1 = i
      BY <1>1
    <3> QED
      BY <2>2, <2>3, <3>1
  <2> QED
    BY <2>2, <2>3, <2>4, <2>5
<1> QED
  BY <1>1, <1>3 DEF Innermost

-----------------------------------------------------------------------------
(* Types.                                                                   *)

Flags ==
    /\ conn \in BOOLEAN /\ unhurt \in BOOLEAN /\ clean \in BOOLEAN
    /\ stale \in BOOLEAN /\ learned \in BOOLEAN /\ torn \in SUBSET Targets

Counts == last \in Outcomes /\ calls \in 0..MaxCalls /\ foreign \in 0..MaxForeign

Data ==
    /\ es \in [Ports -> Vals] /\ hw \in [Ports -> Vals]
    /\ freq \in Tunings /\ db \in Tunings
    /\ settings \in Known /\ cache \in Known
    /\ cached \in States
    /\ overrides \in Seq(Overrides) /\ Len(overrides) <= MaxOverrides
    /\ sync \in Syncs

Typed == Data /\ Flags /\ Counts

LEMMA TypeParts == TypeOK <=> Typed /\ before \in Seq(Moments)
  BY DEF TypeOK, Typed, Data, Flags, Counts

LEMMA OverlayTypes ==
  ASSUME NEW known, NEW dump \in Known
  PROVE  /\ known \in Known => Overlay(known, dump) \in Known
         /\ known \in [Ports -> Vals] => Overlay(known, dump) \in [Ports -> Vals]
  BY DEF Known, Overlay

LEMMA NothingTypes == Nothing \in Known /\ NoSync \in Syncs
  BY DEF Nothing, Known, NoSync, Syncs

LEMMA StateTypes ==
  ASSUME NEW e \in [Ports -> Vals], NEW d \in Tunings, NEW known \in Known
  PROVE  State(e, d, known) \in States
  BY DEF State, States

LEMMA TunedTypes ==
  ASSUME NEW f \in Tunings, NEW g, NEW labels, g \in Tunings \/ g \in [Targets -> Freqs]
  PROVE  Tuned(f, labels, g) \in Tunings
  BY DEF Tuned, Tunings

LEMMA NoTargetTypes == NoTarget \in Tunings
  BY DEF NoTarget, Tunings

LEMMA PathTypes == \A t \in Targets : PathOf[t][1] \in Ports /\ PathOf[t][2] \in Ports
  BY PathOfAssumption

\* What is loaded and registered is in the bounds of the model.
LEMMA Loaded ==
  ASSUME Lifecycle
  PROVE  \/ Connect \/ Disconnect
         \/ \E model \in [Ports -> Vals], freqs \in Tunings :
               \/ Load(model, freqs) \/ LoadWithoutController(model, freqs)
               \/ LoadController(model, freqs) \/ LoadControllerOnly(model, freqs)
<1>1. \A config \in Configs : config.es \in [Ports -> Vals] /\ config.freq \in Tunings
  BY ConfigsAssumption DEF Tunings
<1> QED
  BY <1>1 DEF Lifecycle

LEMMA Registered ==
  ASSUME Registering
  PROVE  \E t \in Targets, f \in Freqs, v \in Vals :
            \/ RegisterOnly(t, f) \/ RegisterDeclined(t, f, v)
            \/ \E w \in Failures(PortsOf({BoxOf[PathOf[t][1]]})) :
                  RegisterWrites(t, f, v, w[1], w[2])
<1>1. \A custom \in Custom : custom[1] \in Targets /\ custom[2] \in Freqs /\ custom[3] \in Vals
  BY CustomAssumption
<1> QED
  BY <1>1 DEF Registering

\* A synchronization that writes has its types, and what it writes too.
LEMMA WritesTypes ==
  ASSUME NEW model \in [Ports -> Vals], NEW boxes \in SUBSET Boxes, NEW on,
         hw \in [Ports -> Vals]
  PROVE  /\ [NoSync EXCEPT !.kind = "push", !.stage = "written", !.boxes = boxes] \in Syncs
         /\ Merged(hw, on, model) \in [Ports -> Vals]
  BY NothingTypes DEF Syncs, NoSync, Merged

LEMMA FetchedTypes ==
  ASSUME TypeOK, NEW kind \in {"pull", "push"}, NEW read \in SUBSET Boxes
  PROVE  Fetched(kind, read) \in Syncs
  BY DEF TypeOK, Fetched, Syncs, NoSync, Known, Nothing

LEMMA TypedStep ==
  ASSUME TypeOK, [Next]_vars
  PROVE  Typed'

<1> USE BoundsAssumption
<1>1. ASSUME Connect PROVE Typed'
  BY <1>1, NothingTypes DEF TypeOK, Typed, Data, Flags, Counts, Connect, Outcomes, Free, bounds
<1>2. ASSUME Disconnect PROVE Typed'
 <2>7. Data'
   BY <1>2, NothingTypes DEF TypeOK, Data, Disconnect
 <2>8. Flags'
   BY <1>2, NothingTypes DEF TypeOK, Flags, Disconnect
 <2>9. Counts'
   BY <1>2, BoundsAssumption DEF TypeOK, Counts, Outcomes, Calls, Disconnect
 <2> QED
   BY <2>7, <2>8, <2>9 DEF Typed
<1>3. ASSUME NEW model \in [Ports -> Vals], NEW freqs \in Tunings, Load(model, freqs)
      PROVE  Typed'
 <2>1. db' \in Tunings /\ cached' \in States
   <3>1. db' = Tuned(db, Labels(freqs), freqs) /\ cached' = State(model, db', settings)
     BY <1>3 DEF Load
   <3>2. db' \in Tunings
     BY <3>1, TunedTypes DEF TypeOK
   <3> QED
     BY <3>1, <3>2, StateTypes DEF TypeOK
 <2>7. Data'
   BY <1>3, <2>1, NothingTypes DEF TypeOK, Data, Load
 <2>8. Flags'
   BY <1>3, <2>1, NothingTypes DEF TypeOK, Flags, Load
 <2>9. Counts'
   BY <1>3, BoundsAssumption DEF TypeOK, Counts, Outcomes, Calls, Load
 <2> QED
   BY <2>7, <2>8, <2>9 DEF Typed
<1>4. ASSUME NEW model \in [Ports -> Vals], NEW freqs \in Tunings,
             LoadWithoutController(model, freqs)
      PROVE  Typed'
  BY <1>4 DEF TypeOK, Typed, Data, Flags, Counts, LoadWithoutController, Outcomes, Calls
<1>L. ASSUME NEW model \in [Ports -> Vals], NEW freqs \in Tunings, NewController(model, freqs),
             db' \in Tunings, cached' \in States, torn' \in SUBSET Targets, Calls("other")
      PROVE  Typed'
 <2>2. overrides' \in Seq(Overrides) /\ Len(overrides') = Len(overrides)
   <3>1. overrides \in Seq(Overrides)
     BY DEF TypeOK
   <3>. DEFINE Frequencies == [kind : {"frequencies"}, labels : SUBSET Targets,
                               freqs : Tunings, bound : BOOLEAN]
               Undone(o) == IF o.kind = "frequencies" THEN [o EXCEPT !.bound = FALSE] ELSE o
   <3>2. ASSUME NEW o \in Overrides PROVE Undone(o) \in Overrides
     <4>1. CASE o.kind = "frequencies"
       <5>1. o \in Frequencies
         BY <4>1 DEF Overrides
       <5>2. [o EXCEPT !.bound = FALSE] \in Frequencies
         BY <5>1
       <5> QED
         BY <4>1, <5>2 DEF Overrides
     <4> QED
       BY <4>1
   <3>3. overrides' = [i \in DOMAIN overrides |-> Undone(overrides[i])]
     BY <1>L DEF NewController
   <3>4. \A i \in DOMAIN overrides : overrides[i] \in Overrides
     BY <3>1
   <3>5. DOMAIN overrides = 1..Len(overrides) /\ Len(overrides) \in Nat
     BY <3>1
   <3>. HIDE DEF Undone
   <3>6. \A i \in 1..Len(overrides) : Undone(overrides[i]) \in Overrides
     BY <3>2, <3>4, <3>5
   <3> QED
     BY <3>3, <3>5, <3>6
 <2>7. Data'
   BY <1>L, <2>2, NothingTypes DEF TypeOK, Data, NewController
 <2>8. Flags'
   BY <1>L DEF TypeOK, Flags, NewController, Active
 <2>9. Counts'
   BY <1>L, BoundsAssumption DEF TypeOK, Counts, Outcomes, Calls
 <2> QED
   BY <2>7, <2>8, <2>9 DEF Typed
<1>5. ASSUME NEW model \in [Ports -> Vals], NEW freqs \in Tunings, LoadController(model, freqs)
      PROVE  Typed'
 <2>1. db' = freqs /\ cached' = State(model, freqs, Nothing) /\ torn' = {}
   BY <1>5 DEF LoadController
 <2>2. cached' \in States
   BY <2>1, StateTypes, NothingTypes
 <2> QED
   BY <1>5, <1>L, <2>1, <2>2 DEF LoadController
<1>27. ASSUME NEW model \in [Ports -> Vals], NEW freqs \in Tunings,
              LoadControllerOnly(model, freqs)
       PROVE  Typed'
 <2>1. db' = NoTarget /\ cached' = cached /\ torn' = Targets
   BY <1>27 DEF LoadControllerOnly
 <2> QED
   BY <1>27, <1>L, <2>1, NoTargetTypes DEF LoadControllerOnly, TypeOK
<1>6. ASSUME NEW read \in SUBSET Boxes, Pull(read) PROVE Typed'
  BY <1>6, FetchedTypes DEF TypeOK, Typed, Data, Flags, Counts, Pull, Outcomes, Calls
<1>7. ASSUME NEW read \in SUBSET Boxes, PushReads(read) PROVE Typed'
  BY <1>7, FetchedTypes DEF TypeOK, Typed, Data, Flags, Counts, PushReads, Outcomes, SyncStep, bounds
<1>8. ASSUME StoreSettings PROVE Typed'
  BY <1>8, OverlayTypes DEF TypeOK, Typed, Data, Flags, Counts, StoreSettings, Outcomes, SyncStep, bounds, Syncs
<1>9. ASSUME UpdateCache PROVE Typed'
  BY <1>9, OverlayTypes DEF TypeOK, Typed, Data, Flags, Counts, UpdateCache, Outcomes, SyncStep, bounds, Syncs
<1>10. ASSUME PushFinished PROVE Typed'
  BY <1>10 DEF TypeOK, Typed, Data, Flags, Counts, PushFinished, Outcomes, SyncStep, bounds, Synchronized, State, States, NoSync, Syncs, Known, Nothing
<1>11. ASSUME SyncRaises PROVE Typed'
  BY <1>11 DEF TypeOK, Typed, Data, Flags, Counts, SyncRaises, Outcomes, SyncStep, bounds, Synchronized, State, States, NoSync, Syncs, Known, Nothing
<1>12. ASSUME NEW skipped \in SUBSET Ports, PullApplied(skipped) PROVE Typed'
  BY <1>12 DEF TypeOK, Typed, Data, Flags, Counts, PullApplied, Outcomes, SyncStep, bounds, Synchronized, State, States, NoSync, Syncs, Known, Nothing, Overlay
<1>28. ASSUME DeclineRaises, es' \in [Ports -> Vals], freq' \in Tunings, db' \in Tunings,
              torn' \in SUBSET Targets
       PROVE  Typed'
 <2>7. Data'
   BY <1>28 DEF TypeOK, Data, DeclineRaises, Calls
 <2>8. Flags'
   BY <1>28 DEF TypeOK, Flags, DeclineRaises
 <2>9. Counts'
   BY <1>28, BoundsAssumption DEF TypeOK, Counts, Outcomes, Calls, DeclineRaises
 <2> QED
   BY <2>7, <2>8, <2>9 DEF Typed
<1>29. ASSUME NEW model \in [Ports -> Vals], Declined(model), es' = model, freq' \in Tunings,
              db' \in Tunings, torn' \in SUBSET Targets
       PROVE  Typed'
 <2>1. cached' \in States
   BY <1>29, StateTypes DEF TypeOK, Declined
 <2>2. cache' \in Known
   BY <1>29, OverlayTypes DEF TypeOK, Declined
 <2>3. clean' \in BOOLEAN
   BY <1>29 DEF TypeOK, Declined, Unchanged
 <2>7. Data'
   BY <1>29, <2>1, <2>2 DEF TypeOK, Data, Declined, Calls
 <2>8. Flags'
   BY <1>29, <2>3 DEF TypeOK, Flags, Declined
 <2>9. Counts'
   BY <1>29, BoundsAssumption DEF TypeOK, Counts, Outcomes, Calls, Declined
 <2> QED
   BY <2>7, <2>8, <2>9 DEF Typed
<1>30. ASSUME NEW model \in [Ports -> Vals], NEW boxes \in SUBSET Boxes, NEW failed, NEW kept,
              Writes(model, boxes, failed, kept), es' = model, freq' \in Tunings,
              db' \in Tunings, torn' \in SUBSET Targets
       PROVE  Typed'
 <2>1. sync' \in Syncs /\ hw' \in [Ports -> Vals]
   <3>1. /\ sync' = [NoSync EXCEPT !.kind = "push", !.stage = "written", !.boxes = boxes]
         /\ hw' = Merged(hw, PortsOf(boxes) \ kept, model)
     BY <1>30 DEF Writes
   <3> QED
     BY <3>1, WritesTypes DEF TypeOK
 <2>2. unhurt' \in BOOLEAN /\ clean' \in BOOLEAN
   BY <1>30 DEF TypeOK, Writes, Unchanged
 <2>7. Data'
   BY <1>30, <2>1 DEF TypeOK, Data, Writes
 <2>8. Flags'
   BY <1>30, <2>2 DEF TypeOK, Flags, Writes
 <2>9. Counts'
   BY <1>30, BoundsAssumption DEF TypeOK, Counts, Outcomes, Calls, Writes
 <2> QED
   BY <2>7, <2>8, <2>9 DEF Typed
<1>13. ASSUME PushDeclined PROVE Typed'
  BY <1>13, <1>28, <1>29 DEF PushDeclined, TypeOK
<1>14. ASSUME NEW boxes \in Subsets, NEW failed, NEW kept, PushWrites(boxes, failed, kept)
       PROVE  Typed'
  BY <1>14, <1>30 DEF PushWrites, TypeOK, Subsets
<1>31. ASSUME NEW t \in Targets, NEW f \in Freqs, Defines(t, f)
       PROVE  freq' \in Tunings /\ db' \in Tunings /\ torn' \in SUBSET Targets
  BY <1>31 DEF Defines, TypeOK, Tunings
<1>32. ASSUME NEW t \in Targets, NEW f \in Freqs, NEW v \in Vals, Registers(t, f, v)
       PROVE  Defines(t, f) /\ es' \in [Ports -> Vals]
  BY <1>32 DEF Registers, TypeOK
<1>15. ASSUME NEW t \in Targets, NEW f \in Freqs, NEW v \in Vals, RegisterDeclined(t, f, v)
       PROVE  Typed'
  BY <1>15, <1>28, <1>29, <1>31, <1>32 DEF RegisterDeclined
<1>16. ASSUME NEW t \in Targets, NEW f \in Freqs, NEW v \in Vals, NEW failed, NEW kept,
              RegisterWrites(t, f, v, failed, kept)
       PROVE  Typed'
 <2>1. {BoxOf[PathOf[t][1]]} \in SUBSET Boxes
   BY BoxOfAssumption, PathTypes
 <2> QED
   BY <1>16, <1>30, <1>31, <1>32, <2>1 DEF RegisterWrites
<1>33. ASSUME NEW t \in Targets, NEW f \in Freqs, RegisterOnly(t, f) PROVE Typed'
 <2>1. freq' \in Tunings /\ db' \in Tunings /\ torn' \in SUBSET Targets
   BY <1>31, <1>33 DEF RegisterOnly
 <2>7. Data'
   BY <1>33, <2>1 DEF TypeOK, Data, RegisterOnly
 <2>8. Flags'
   BY <1>33, <2>1 DEF TypeOK, Flags, RegisterOnly
 <2>9. Counts'
   BY <1>33, BoundsAssumption DEF TypeOK, Counts, Outcomes, Calls, RegisterOnly
 <2> QED
   BY <2>7, <2>8, <2>9 DEF Typed
<1>17. ASSUME NEW t \in Targets, NEW v \in Vals, EnterSettings(t, v) PROVE Typed'
 <2> DEFINE o == [kind |-> "settings", target |-> t, original |-> es[PathOf[t][1]],
                 snapshot |-> cache]
 <2>1. o \in Overrides
   BY PathTypes DEF TypeOK, Overrides
 <2>2. CanOverride /\ Enter(o, PathAgrees(t))
   BY <1>17 DEF EnterSettings
 <2> HIDE DEF o
 <2>3. overrides' \in Seq(Overrides) /\ Len(overrides') <= MaxOverrides
   BY <2>1, <2>2, Entered
 <2>4. /\ es' \in [Ports -> Vals] /\ hw' \in [Ports -> Vals] /\ cache' \in Known
   BY <1>17 DEF EnterSettings, TypeOK, With, Known
 <2>7. Data'
   BY <1>17, <2>3, <2>4 DEF TypeOK, Data, EnterSettings
 <2>8. Flags'
   BY <1>17 DEF TypeOK, Flags, EnterSettings
 <2>9. Counts'
   BY <1>17, BoundsAssumption DEF TypeOK, Counts, Outcomes, Calls, EnterSettings
 <2> QED
   BY <2>7, <2>8, <2>9 DEF Typed
<1>18. ASSUME NEW t \in Targets, NEW v \in Vals, NEW written, NEW mirrored,
              EnterSettingsFails(t, v, written, mirrored)
       PROVE  Typed'
 <2>1. hw' \in [Ports -> Vals] /\ cache' \in Known
   BY <1>18 DEF EnterSettingsFails, TypeOK, With, Known
 <2>7. Data'
   BY <1>18, <2>1 DEF TypeOK, Data, EnterSettingsFails
 <2>8. Flags'
   BY <1>18 DEF TypeOK, Flags, EnterSettingsFails
 <2>9. Counts'
   BY <1>18, BoundsAssumption DEF TypeOK, Counts, Outcomes, Calls, EnterSettingsFails
 <2> QED
   BY <2>7, <2>8, <2>9 DEF Typed
<1>34. ASSUME Active, NEW kept, Leave(kept)
       PROVE  /\ overrides' \in Seq(Overrides) /\ Len(overrides') <= MaxOverrides
              /\ learned' \in BOOLEAN
              /\ Innermost.kind = "settings"
                   => Innermost.original \in Vals /\ Innermost.snapshot \in Known
              /\ Innermost.kind = "frequencies" => Innermost.freqs \in Tunings
                                                   /\ Innermost.labels \in SUBSET Targets
 <2>1. /\ overrides' \in Seq(Overrides) /\ Len(overrides') = Len(overrides) - 1
       /\ Innermost \in Overrides
   BY <1>34, Left
 <2>2. Len(overrides') <= MaxOverrides
   BY <2>1, BoundsAssumption DEF TypeOK
 <2>3. learned' \in BOOLEAN
   BY <1>34 DEF Leave, TypeOK
 <2> QED
   BY <2>1, <2>2, <2>3 DEF Overrides
<1>19. ASSUME LeaveSettings PROVE Typed'
 <2>1. Active /\ Leave(Len(before) - 1) /\ Innermost.kind = "settings"
   BY <1>19 DEF LeaveSettings, LeavesSettings
 <2>2. /\ overrides' \in Seq(Overrides) /\ Len(overrides') <= MaxOverrides
       /\ learned' \in BOOLEAN /\ Innermost.original \in Vals /\ Innermost.snapshot \in Known
   BY <1>34, <2>1
 <2>3. es' \in [Ports -> Vals] /\ hw' \in [Ports -> Vals] /\ cache' \in Known
   BY <1>19, <2>2 DEF LeaveSettings, TypeOK, With
 <2>7. Data'
   BY <1>19, <2>2, <2>3 DEF TypeOK, Data, LeaveSettings, Free
 <2>8. Flags'
   BY <1>19, <2>2 DEF TypeOK, Flags, LeaveSettings
 <2>9. Counts'
   BY <1>19 DEF TypeOK, Counts, Outcomes, Free, bounds, LeaveSettings
 <2> QED
   BY <2>7, <2>8, <2>9 DEF Typed
<1>20. ASSUME NEW written, LeaveSettingsFails(written) PROVE Typed'
 <2>1. Active /\ Leave(0) /\ Innermost.kind = "settings"
   BY <1>20 DEF LeaveSettingsFails, LeavesSettings
 <2>2. /\ overrides' \in Seq(Overrides) /\ Len(overrides') <= MaxOverrides
       /\ learned' \in BOOLEAN /\ Innermost.original \in Vals
   BY <1>34, <2>1
 <2>3. es' \in [Ports -> Vals] /\ hw' \in [Ports -> Vals]
   BY <1>20, <2>2 DEF LeaveSettingsFails, TypeOK, With
 <2>7. Data'
   BY <1>20, <2>2, <2>3 DEF TypeOK, Data, LeaveSettingsFails, Free
 <2>8. Flags'
   BY <1>20, <2>2 DEF TypeOK, Flags, LeaveSettingsFails
 <2>9. Counts'
   BY <1>20 DEF TypeOK, Counts, Outcomes, Free, bounds, LeaveSettingsFails
 <2> QED
   BY <2>7, <2>8, <2>9 DEF Typed
<1>21. ASSUME NEW labels \in SUBSET Targets, NEW f \in [Targets -> Freqs],
              EnterFrequencies(labels, f)
       PROVE  Typed'
 <2> DEFINE o == [kind |-> "frequencies", labels |-> labels, freqs |-> freq, bound |-> TRUE]
            agrees == \A t \in labels : db[t] = freq[t]
 <2>1. o \in Overrides
   BY DEF TypeOK, Overrides
 <2>2. CanOverride /\ Enter(o, agrees)
   BY <1>21 DEF EnterFrequencies
 <2> HIDE DEF o, agrees
 <2>3. overrides' \in Seq(Overrides) /\ Len(overrides') <= MaxOverrides
   BY <2>1, <2>2, Entered
 <2>4. freq' \in Tunings /\ db' \in Tunings
   BY <1>21, TunedTypes DEF TypeOK, EnterFrequencies
 <2>7. Data'
   BY <1>21, <2>3, <2>4 DEF TypeOK, Data, EnterFrequencies
 <2>8. Flags'
   BY <1>21 DEF TypeOK, Flags, EnterFrequencies
 <2>9. Counts'
   BY <1>21, BoundsAssumption DEF TypeOK, Counts, Outcomes, Calls, EnterFrequencies
 <2> QED
   BY <2>7, <2>8, <2>9 DEF Typed
<1>22. ASSUME NEW labels \in SUBSET Targets, NEW f \in [Targets -> Freqs], NEW known,
              NEW accepted, EnterFrequenciesFails(labels, f, known, accepted)
       PROVE  Typed'
 <2>1. freq' \in Tunings /\ db' \in Tunings
   BY <1>22, TunedTypes DEF TypeOK, EnterFrequenciesFails
 <2>2. torn' \in SUBSET Targets
   BY <1>22 DEF TypeOK, EnterFrequenciesFails, Refused
 <2>7. Data'
   BY <1>22, <2>1 DEF TypeOK, Data, EnterFrequenciesFails
 <2>8. Flags'
   BY <1>22, <2>2 DEF TypeOK, Flags, EnterFrequenciesFails
 <2>9. Counts'
   BY <1>22, BoundsAssumption DEF TypeOK, Counts, Outcomes, Calls, EnterFrequenciesFails
 <2> QED
   BY <2>7, <2>8, <2>9 DEF Typed
<1>35. ASSUME LeavesFrequencies, NEW outcome \in Outcomes, Free(outcome), NEW kept, Leave(kept),
              freq' \in Tunings, db' \in Tunings, torn' \in SUBSET Targets
       PROVE  Typed'
 <2>1. /\ overrides' \in Seq(Overrides) /\ Len(overrides') <= MaxOverrides
       /\ learned' \in BOOLEAN
   BY <1>34, <1>35 DEF LeavesFrequencies
 <2>7. Data'
   BY <1>35, <2>1 DEF TypeOK, Data, LeavesFrequencies
 <2>8. Flags'
   BY <1>35, <2>1 DEF TypeOK, Flags, LeavesFrequencies
 <2>9. Counts'
   BY <1>35 DEF TypeOK, Counts, Free, bounds
 <2> QED
   BY <2>7, <2>8, <2>9 DEF Typed
<1>23. ASSUME LeaveFrequencies PROVE Typed'
 <2>1. /\ LeavesFrequencies /\ Free("left") /\ "left" \in Outcomes /\ Leave(Len(before) - 1)
       /\ Active /\ Innermost.kind = "frequencies"
   BY <1>23 DEF LeaveFrequencies, LeavesFrequencies, Outcomes
 <2>2. Innermost.freqs \in Tunings /\ Innermost.labels \in SUBSET Targets
   BY <1>34, <2>1
 <2>3. freq' \in Tunings /\ db' \in Tunings /\ torn' \in SUBSET Targets
   BY <1>23, <2>2, TunedTypes DEF LeaveFrequencies, TypeOK
 <2> QED
   BY <1>35, <2>1, <2>3
<1>36. ASSUME NEW known, NEW accepted, LeaveFrequenciesFails(known, accepted) PROVE Typed'
 <2>1. /\ LeavesFrequencies /\ Free("other") /\ "other" \in Outcomes /\ Leave(0)
       /\ Active /\ Innermost.kind = "frequencies"
   BY <1>36 DEF LeaveFrequenciesFails, LeavesFrequencies, Outcomes
 <2>2. Innermost.freqs \in Tunings /\ Innermost.labels \in SUBSET Targets
   BY <1>34, <2>1
 <2>3. freq' \in Tunings /\ db' \in Tunings /\ torn' \in SUBSET Targets
   BY <1>36, <2>2, TunedTypes DEF LeaveFrequenciesFails, Refused, TypeOK
 <2> QED
   BY <1>35, <2>1, <2>3
<1>24. ASSUME NEW p \in Ports, NEW v \in Vals, Foreign(p, v) PROVE Typed'
  BY <1>24 DEF TypeOK, Typed, Data, Flags, Counts, Foreign, Outcomes
<1>25. CASE UNCHANGED vars
  BY <1>25 DEF TypeOK, Typed, Data, Flags, Counts, vars, ghosts, bounds
<1>37. CASE Lifecycle
  BY <1>1, <1>2, <1>3, <1>4, <1>5, <1>27, <1>37, Loaded
<1>38. CASE Registering
  BY <1>15, <1>16, <1>33, <1>38, Registered
<1>39. CASE Overriding
  BY <1>17, <1>19, <1>20, <1>21, <1>23, <1>36, <1>39 DEF Overriding, LabelSets
<1>40. CASE Refusing
  BY <1>18, <1>22, <1>40 DEF Refusing, LabelSets
<1>41. CASE Synchronizing
  BY <1>6, <1>7, <1>8, <1>9, <1>10, <1>11, <1>12, <1>13, <1>14, <1>41 DEF Synchronizing
<1> QED
  BY <1>24, <1>25, <1>37, <1>38, <1>39, <1>40, <1>41 DEF Next

\* What overrides have found is kept, thrown away, or what is there now.
LEMMA FoundStep ==
  ASSUME TypeOK, [Next]_vars
  PROVE  before' \in Seq(Moments)
<1>1. before \in Seq(Moments) /\ Now \in Moments /\ Len(before) \in Nat /\ <<>> \in Seq(Moments)
  BY DEF TypeOK, Now, Moments
<1>2. ASSUME NEW o, NEW agrees, Enter(o, agrees) PROVE before' \in Seq(Moments)
  BY <1>1, <1>2 DEF Enter
<1>3. ASSUME NEW kept \in {0, Len(before) - 1}, Leave(kept) PROVE before' \in Seq(Moments)
  <2>1. before' = SubSeq(before, 1, kept) /\ kept \in Int /\ kept <= Len(before)
    BY <1>1, <1>3 DEF Leave
  <2> QED
    BY <1>1, <2>1, SubSeqProperties
<1>4. CASE Undisturbed
  BY <1>1, <1>4 DEF Undisturbed
<1>5. CASE Overriding
  BY <1>2, <1>3, <1>5 DEF Overriding, EnterSettings, EnterFrequencies, LeaveSettings,
     LeaveFrequencies, LeaveSettingsFails, LeaveFrequenciesFails
<1>6. CASE UNCHANGED vars
  BY <1>1, <1>6 DEF vars, ghosts
<1> QED
  BY <1>4, <1>5, <1>6 DEF Next

LEMMA TypeStep ==
  ASSUME TypeOK, [Next]_vars
  PROVE  TypeOK'
  BY TypedStep, FoundStep, TypeParts DEF TypeOK, Typed, Data, Flags, Counts

\* The variables keep their types (TypeOK).
THEOREM TypeCorrect == Spec => []TypeOK
<1>1. ASSUME Init PROVE TypeOK
  <2>1. es \in [Ports -> Vals] /\ freq \in Tunings /\ db \in Tunings
    BY <1>1, ConfigsAssumption DEF Init, Tunings
  <2>2. cached \in States
    BY <1>1, <2>1, StateTypes, NothingTypes DEF Init
  <2>3. Data
    <3>1. overrides \in Seq(Overrides) /\ Len(overrides) <= MaxOverrides
      BY <1>1, BoundsAssumption DEF Init
    <3> QED
      BY <1>1, <2>1, <2>2, <3>1, NothingTypes DEF Init, Data
  <2>4. Flags
    BY <1>1 DEF Init, Flags
  <2>5. Counts
    BY <1>1, BoundsAssumption DEF Init, Counts, Outcomes
  <2>6. before \in Seq(Moments)
    BY <1>1 DEF Init
  <2> QED
    BY <2>3, <2>4, <2>5, <2>6, TypeParts DEF Typed
<1> QED
  BY <1>1, TypeStep, PTL DEF Spec

-----------------------------------------------------------------------------
(* The stages of a synchronization.                                         *)

LEMMA NoSyncFields ==
    /\ NoSync.kind = "none" /\ NoSync.stage = "none" /\ NoSync.dump = Nothing
    /\ NoSync.boxes = {} /\ NoSync.read = {}
  BY DEF NoSync

\* Loading, connecting, registering without a push and overriding happen between
\* synchronizations, and change no settings except by forgetting them.
LEMMA Between ==
  ASSUME Lifecycle \/ Overriding \/ Refusing \/ DeclineRaises
           \/ \E t \in Targets, f \in Freqs : RegisterOnly(t, f)
  PROVE  /\ sync = NoSync /\ sync' = NoSync
         /\ ~Lifecycle => settings' = settings /\ clean' = clean /\ cached' = cached
         /\ settings' # settings => settings' = Nothing /\ hw' = hw
<1>1. CASE Lifecycle
  BY <1>1 DEF Lifecycle, Connect, Disconnect, Load, LoadWithoutController, LoadController,
     LoadControllerOnly, NewController, Calls, Free
<1>2. CASE Overriding
  BY <1>2 DEF Overriding, EnterSettings, LeaveSettings, LeaveSettingsFails, EnterFrequencies,
     LeaveFrequencies, LeaveFrequenciesFails, LeavesFrequencies, Calls, Free
<1>3. CASE Refusing \/ DeclineRaises \/ \E t \in Targets, f \in Freqs : RegisterOnly(t, f)
  BY <1>3 DEF Refusing, EnterSettingsFails, EnterFrequenciesFails, DeclineRaises, RegisterOnly,
     Calls
<1> QED
  BY <1>1, <1>2, <1>3

LEMMA FetchedFields ==
  ASSUME TypeOK, NEW kind, NEW read \in SUBSET Boxes, sync' = Fetched(kind, read)
  PROVE  /\ sync'.kind = kind /\ sync'.stage = "fetched" /\ sync'.read = read
         /\ sync'.before = [settings |-> settings, cache |-> cache]
         /\ \A p \in Ports :
              sync'.dump[p] = IF p \in PortsOf(read) THEN hw[p] ELSE NoVal
         /\ \A p \in Ports : p \in PortsOf(read) <=> sync'.dump[p] # NoVal
<1>1. /\ sync'.kind = kind /\ sync'.stage = "fetched" /\ sync'.read = read
      /\ sync'.before = [settings |-> settings, cache |-> cache]
      /\ sync'.dump = [p \in Ports |-> IF p \in PortsOf(read) THEN hw[p] ELSE NoVal]
  BY DEF Fetched, NoSync
<1> QED
  BY <1>1, NoValAssumption DEF TypeOK

LEMMA StageFields ==
  ASSUME TypeOK, NEW stage, sync' = [sync EXCEPT !.stage = stage]
  PROVE  /\ sync'.stage = stage /\ sync'.kind = sync.kind /\ sync'.boxes = sync.boxes
         /\ sync'.read = sync.read /\ sync'.dump = sync.dump /\ sync'.before = sync.before
  BY DEF TypeOK, Syncs

LEMMA WritesFields ==
  ASSUME NEW boxes,
         sync' = [NoSync EXCEPT !.kind = "push", !.stage = "written", !.boxes = boxes]
  PROVE  /\ sync'.stage = "written" /\ sync'.kind = "push" /\ sync'.boxes = boxes
         /\ sync'.dump = Nothing
  BY DEF NoSync

LEMMA StageStep ==
  ASSUME TypeOK, StageInv, [Next]_vars
  PROVE  StageInv'
<1>0. ASSUME sync' = NoSync PROVE StageInv'
  BY <1>0, NoSyncFields DEF StageInv
<1>1. CASE \/ Lifecycle \/ Overriding \/ Refusing \/ DeclineRaises
          \/ \E t \in Targets, f \in Freqs : RegisterOnly(t, f)
  BY <1>0, <1>1, Between
<1>2. CASE (\E model : Declined(model)) \/ PushFinished \/ SyncRaises
  BY <1>0, <1>2 DEF Declined, Calls, PushFinished, Synchronized, SyncRaises
<1>3. ASSUME NEW skipped \in SUBSET Ports, PullApplied(skipped) PROVE StageInv'
  BY <1>0, <1>3 DEF PullApplied, Synchronized
<1>5. ASSUME NEW read \in SUBSET Boxes, Pull(read) \/ PushReads(read) PROVE StageInv'
  <2>1. PICK kind \in {"pull", "push"} : sync' = Fetched(kind, read)
    BY <1>5 DEF Pull, PushReads
  <2>2. settings' = settings /\ cache' = cache
    BY <1>5 DEF Pull, PushReads
  <2> QED
    BY <2>1, <2>2, FetchedFields DEF StageInv
<1>6. CASE StoreSettings
  <2>1. /\ sync.stage = "fetched" /\ sync' = [sync EXCEPT !.stage = "stored"]
        /\ settings' = Overlay(settings, sync.dump) /\ cache' = cache
    BY <1>6 DEF StoreSettings, SyncStep
  <2>2. sync.before.settings = settings /\ sync.before.cache = cache
    BY <2>1 DEF StageInv
  <2> QED
    BY <2>1, <2>2, StageFields DEF StageInv
<1>7. CASE UpdateCache
  <2>1. /\ sync.stage = "stored" /\ sync' = [sync EXCEPT !.stage = "mirrored"]
        /\ settings' = settings /\ cache' = Overlay(cache, settings)
    BY <1>7 DEF UpdateCache, SyncStep
  <2> QED
    BY <2>1, StageFields DEF StageInv
<1>8. ASSUME NEW boxes, NEW model, NEW failed, NEW kept, Writes(model, boxes, failed, kept)
      PROVE  StageInv'
  BY <1>8, WritesFields DEF Writes, StageInv
<1>9. ASSUME NEW p \in Ports, NEW v \in Vals, Foreign(p, v) PROVE StageInv'
  BY <1>9 DEF Foreign, StageInv
<1>10. CASE UNCHANGED vars
  BY <1>10 DEF StageInv, vars
<1> QED
  BY <1>1, <1>2, <1>3, <1>5, <1>6, <1>7, <1>8, <1>9, <1>10, Registered
     DEF Next, Synchronizing, PushDeclined, PushWrites, RegisterDeclined, RegisterWrites

\* What each stage of a synchronization has read and written so far.
THEOREM StagesHold == Spec => []StageInv
<1>1. Init => StageInv
  BY NoSyncFields DEF Init, StageInv
<1> QED
  BY <1>1, StageStep, TypeCorrect, PTL DEF Spec

-----------------------------------------------------------------------------
(* The settings mirror the hardware.                                        *)

LEMMA SeenBetween ==
    /\ sync = NoSync => Seen = settings
    /\ (sync = NoSync => Seen = settings)'
  BY NoSyncFields DEF Seen

LEMMA MirrorStep ==
  ASSUME TypeOK, TypeOK', StageInv, [Next]_vars
  PROVE  [Mirror!Next]_(Mirror!vars)
<1> USE DEF Mirror!Next, Mirror!vars, Mirror!Nothing, Nothing
<1>0. ASSUME sync.dump = sync'.dump, Seen' = Seen PROVE [Mirror!Next]_(Mirror!vars)
  BY <1>0 DEF TypeOK, Mirror!Changes
<1>1. CASE \/ Lifecycle \/ Overriding \/ Refusing \/ DeclineRaises
          \/ \E t \in Targets, f \in Freqs : RegisterOnly(t, f)
  <2>1. CASE settings' = settings
    BY <1>0, <1>1, <2>1, Between, SeenBetween
  <2>2. CASE settings' # settings
    <3>1. settings' = Nothing /\ hw' = hw /\ sync = NoSync /\ sync' = NoSync
      BY <1>1, <2>2, Between
    <3> QED
      BY <3>1, SeenBetween, NoSyncFields DEF Mirror!Forgets
  <2> QED
    BY <2>1, <2>2
<1>3. ASSUME NEW read \in SUBSET Boxes, Pull(read) \/ PushReads(read)
      PROVE  [Mirror!Next]_(Mirror!vars)
  <2>1. PICK kind \in {"pull", "push"} : sync' = Fetched(kind, read)
    BY <1>3 DEF Pull, PushReads
  <2>2. /\ settings' = settings /\ hw' = hw
        /\ sync.dump = Nothing /\ sync.stage \in {"none", "written"}
    BY <1>3, NoSyncFields DEF Pull, PushReads, Calls, SyncStep, StageInv
  <2>3. Seen' = Seen
    BY <2>1, <2>2, FetchedFields DEF Seen
  <2>4. sync'.dump = [p \in Ports |-> IF p \in PortsOf(read) THEN hw[p] ELSE NoVal]
    BY <2>1 DEF Fetched, NoSync
  <2>5. PortsOf(read) \in SUBSET Ports
    BY DEF PortsOf
  <2> QED
    BY <2>2, <2>3, <2>4, <2>5 DEF Mirror!Reads
<1>4. CASE StoreSettings
  <2>1. /\ sync.stage = "fetched" /\ sync' = [sync EXCEPT !.stage = "stored"]
        /\ sync.before.settings = settings
    BY <1>4 DEF StoreSettings, SyncStep, StageInv
  <2> QED
    BY <1>0, <2>1, StageFields DEF Seen
<1>5. CASE UpdateCache
  <2>1. sync.stage = "stored" /\ sync' = [sync EXCEPT !.stage = "mirrored"]
    BY <1>5 DEF UpdateCache, SyncStep
  <2> QED
    BY <1>0, <2>1, StageFields DEF Seen
<1>6. ASSUME NEW outcome, SyncStep("mirrored"), Synchronized(outcome)
      PROVE  [Mirror!Next]_(Mirror!vars)
  <2>1. /\ sync' = NoSync /\ settings' = settings /\ hw' = hw
        /\ Seen = sync.before.settings /\ settings = Overlay(Seen, sync.dump)
    BY <1>6 DEF SyncStep, Synchronized, Seen, StageInv
  <2> QED
    BY <2>1, SeenBetween, NoSyncFields DEF Mirror!Publishes, Overlay
<1>7. CASE SyncRaises
  <2>1. /\ sync' = NoSync /\ settings' = Seen /\ hw' = hw
    BY <1>7 DEF SyncRaises, SyncStep, Seen
  <2> QED
    BY <2>1, SeenBetween, NoSyncFields DEF Mirror!Drops
<1>8. CASE \E model : Declined(model)
  <2>1. sync = NoSync /\ sync' = NoSync /\ settings' = settings
    BY <1>8 DEF Declined, Calls
  <2> QED
    BY <1>0, <2>1, SeenBetween
<1>9. ASSUME NEW boxes, NEW model, NEW failed, NEW kept, Writes(model, boxes, failed, kept)
      PROVE  [Mirror!Next]_(Mirror!vars)
  <2>1. /\ sync = NoSync /\ settings' = settings
        /\ sync'.stage = "written" /\ sync'.dump = Nothing
    BY <1>9, WritesFields DEF Writes, Calls
  <2> QED
    BY <1>0, <2>1, NoSyncFields DEF Seen
<1>10. ASSUME NEW p \in Ports, NEW v \in Vals, Foreign(p, v)
       PROVE  [Mirror!Next]_(Mirror!vars)
  BY <1>0, <1>10 DEF Foreign, Seen
<1>11. CASE UNCHANGED vars
  BY <1>11 DEF vars, Seen
<1> QED
  BY <1>1, <1>3, <1>4, <1>5, <1>6, <1>7, <1>8, <1>9, <1>10, <1>11, Registered
     DEF Next, Synchronizing, PullApplied, PushFinished, PushDeclined, PushWrites,
         RegisterDeclined, RegisterWrites

\* What the manager knows of the hardware is read from it, and is published or
\* dropped as a whole (ImplementsMirror).
THEOREM MirrorImplemented == Spec => ImplementsMirror
<1>1. Init => Mirror!Init
  BY NoSyncFields DEF Init, Mirror!Init, Mirror!Nothing, Nothing, Seen
<1> QED
  BY <1>1, MirrorStep, TypeCorrect, StagesHold, PTL DEF Spec, ImplementsMirror, Mirror!Spec

-----------------------------------------------------------------------------
(* "Synchronized" means that model and hardware agree.                      *)

\* What a whole dump says of every port.
LEMMA WholeDump ==
  ASSUME TypeOK, StageInv, sync.stage \in {"fetched", "stored", "mirrored"},
         sync.read = Boxes
  PROVE  \A p \in Ports : sync.dump[p] # NoVal
  BY BoxOfAssumption DEF StageInv, PortsOf

LEMMA OverlayOf ==
  ASSUME NEW known \in Known, NEW dump \in Known
  PROVE  \A p \in Ports : Overlay(known, dump)[p] = IF dump[p] = NoVal THEN known[p] ELSE dump[p]
  BY DEF Overlay

LEMMA StateFields ==
  ASSUME NEW e, NEW d, NEW known
  PROVE  State(e, d, known).es = e /\ State(e, d, known).settings = known
  BY DEF State

LEMMA AgreementStep ==
  ASSUME TypeOK, TypeOK', StageInv, AgreementInv, [Next]_vars
  PROVE  AgreementInv'
<1>0. ASSUME sync = NoSync, sync' = NoSync, settings' = settings,
             clean' => clean /\ cached' = cached
      PROVE  AgreementInv'
  BY <1>0, NoSyncFields, SeenBetween DEF AgreementInv
<1>1. CASE Lifecycle
  <2>1. CASE ~clean'
    BY <1>1, <2>1, Between, NoSyncFields DEF AgreementInv
  <2>2. CASE clean'
    BY <1>0, <1>1, <2>2, Between DEF Lifecycle, Connect, Disconnect, Load,
       LoadWithoutController, LoadController, LoadControllerOnly, NewController
  <2> QED
    BY <2>1, <2>2
<1>2. CASE \/ Overriding \/ Refusing \/ DeclineRaises
          \/ \E t \in Targets, f \in Freqs : RegisterOnly(t, f)
  <2>1. CASE settings' = settings
    <3>1. CASE Lifecycle
      BY <1>1, <3>1
    <3>2. CASE ~Lifecycle
      BY <1>0, <1>2, <2>1, <3>2, Between
    <3> QED
      BY <3>1, <3>2
  <2>2. CASE settings' # settings
    <3>1. Lifecycle
      BY <1>2, <2>2, Between
    <3> QED
      BY <1>1, <3>1
  <2> QED
    BY <2>1, <2>2
<1>3. ASSUME NEW read \in SUBSET Boxes, Pull(read) PROVE AgreementInv'
  <2>1. /\ sync = NoSync /\ sync' = Fetched("pull", read) /\ settings' = settings
        /\ clean' = clean /\ cached' = cached
    BY <1>3 DEF Pull, Calls
  <2>2. sync'.kind = "pull" /\ sync'.stage = "fetched"
    BY <2>1, FetchedFields
  <2> QED
    BY <2>1, <2>2, SeenBetween DEF AgreementInv, Seen
<1>4. ASSUME NEW read \in SUBSET Boxes, PushReads(read) PROVE AgreementInv'
  <2>1. /\ sync.stage = "written" /\ read \subseteq sync.boxes
        /\ sync' = Fetched("push", read) /\ settings' = settings /\ es' = es
        /\ clean' = clean /\ cached' = cached /\ unhurt' = unhurt
    BY <1>4 DEF PushReads, SyncStep
  <2>2. sync'.kind = "push" /\ sync'.stage = "fetched"
    BY <2>1, FetchedFields
  <2>3. Seen' = settings /\ Seen = settings /\ sync.kind = "push"
    BY <2>1, <2>2 DEF Seen, StageInv
  <2>4. ASSUME unhurt PROVE \A p \in Ports : sync'.dump[p] \in {NoVal, es[p]}
    BY <2>1, <2>4, FetchedFields DEF AgreementInv, PortsOf
  <2> QED
    BY <2>1, <2>2, <2>3, <2>4 DEF AgreementInv
<1>5. CASE StoreSettings \/ UpdateCache
  <2>1. /\ es' = es /\ clean' = clean /\ cached' = cached /\ unhurt' = unhurt
        /\ sync.stage \in {"fetched", "stored"}
        /\ \E stage \in {"stored", "mirrored"} : sync' = [sync EXCEPT !.stage = stage]
    BY <1>5 DEF StoreSettings, UpdateCache, SyncStep
  <2>2. /\ sync'.stage \in {"stored", "mirrored"} /\ sync'.kind = sync.kind
        /\ sync'.dump = sync.dump /\ sync'.before = sync.before
    BY <2>1, StageFields
  <2>3. sync.stage = "stored" \/ (sync.stage = "fetched" /\ settings = sync.before.settings)
    BY <2>1 DEF StageInv
  <2>4. Seen' = Seen
    BY <2>2, <2>3 DEF Seen
  <2> QED
    BY <2>1, <2>2, <2>4 DEF AgreementInv
<1>6. ASSUME sync.stage = "mirrored", NEW outcome, Synchronized(outcome),
             clean' => es' = settings
      PROVE  AgreementInv'
  <2>1. sync' = NoSync /\ settings' = settings /\ cached' = State(es', db, settings)
    BY <1>6 DEF Synchronized
  <2> QED
    BY <1>6, <2>1, NoSyncFields, SeenBetween, StateFields DEF AgreementInv
<1>7. ASSUME NEW skipped \in SUBSET Ports, PullApplied(skipped) PROVE AgreementInv'
  <2>1. /\ sync.stage = "mirrored" /\ Synchronized("pulled")
        /\ settings = Overlay(Seen, sync.dump)
        /\ es' = Overlay(es, [p \in Ports |-> IF p \in skipped THEN NoVal ELSE sync.dump[p]])
        /\ clean' = (skipped = {} /\ (sync.read = Boxes \/ Unchanged(es)))
    BY <1>7 DEF PullApplied, SyncStep, StageInv, Seen
  <2>2. sync.dump \in Known /\ Seen \in Known /\ es \in Known
    BY DEF TypeOK, Syncs, Seen, Known
  <2>3. ASSUME clean' PROVE es' = settings
    <3>1. es' = Overlay(es, sync.dump)
      BY <2>1, <2>2, <2>3 DEF Known, Overlay
    <3>2. CASE sync.read = Boxes
      BY <2>1, <3>1, <3>2, WholeDump DEF Overlay
    <3>3. CASE Unchanged(es)
      BY <2>1, <3>1, <3>3 DEF AgreementInv, Unchanged
    <3> QED
      BY <2>1, <2>3, <3>2, <3>3
  <2> QED
    BY <1>6, <2>1, <2>3
<1>8. CASE PushFinished
  <2>1. /\ sync.stage = "mirrored" /\ sync.kind = "push" /\ Synchronized("pushed")
        /\ settings = Overlay(Seen, sync.dump) /\ es' = es
        /\ clean' = (unhurt /\ (sync.read = Boxes \/ clean))
    BY <1>8 DEF PushFinished, SyncStep, StageInv, Seen
  <2>2. sync.dump \in Known /\ Seen \in Known /\ es \in Known
    BY DEF TypeOK, Syncs, Seen, Known
  <2>3. ASSUME clean' PROVE es' = settings
    <3>1. \A p \in Ports : sync.dump[p] \in {NoVal, es[p]}
      BY <2>1, <2>3 DEF AgreementInv
    <3>2. ASSUME NEW p \in Ports PROVE es[p] = settings[p]
      <4>1. settings[p] = IF sync.dump[p] = NoVal THEN Seen[p] ELSE sync.dump[p]
        BY <2>1, <2>2, OverlayOf
      <4>2. CASE sync.read = Boxes
        BY <2>1, <3>1, <4>1, <4>2, WholeDump
      <4>3. CASE clean
        BY <2>1, <3>1, <4>1, <4>3 DEF AgreementInv
      <4> QED
        BY <2>1, <2>3, <4>2, <4>3
    <3> QED
      BY <2>1, <2>2, <3>2 DEF TypeOK, Known
  <2> QED
    BY <1>6, <2>1, <2>3
<1>9. CASE SyncRaises
  <2>1. /\ sync' = NoSync /\ settings' = Seen /\ clean' = clean /\ cached' = cached
    BY <1>9 DEF SyncRaises, SyncStep, Seen
  <2> QED
    BY <2>1, NoSyncFields, SeenBetween DEF AgreementInv
<1>10. ASSUME NEW model, Declined(model), es' = model PROVE AgreementInv'
  <2>1. /\ sync = NoSync /\ sync' = NoSync /\ settings' = settings
        /\ cached' = State(model, db', settings) /\ clean' = Unchanged(model)
    BY <1>10 DEF Declined, Calls
  <2>2. ASSUME clean' PROVE cached'.settings = settings /\ cached'.es = settings
    <3>1. clean /\ model = cached.es
      BY <2>1, <2>2 DEF Unchanged
    <3>2. cached.es = settings
      BY <2>1, <3>1, SeenBetween DEF AgreementInv
    <3>3. cached'.settings = settings /\ cached'.es = model
      BY <2>1, StateFields
    <3> QED
      BY <3>1, <3>2, <3>3
  <2> QED
    BY <2>1, <2>2, NoSyncFields, SeenBetween DEF AgreementInv
<1>11. ASSUME NEW model, NEW boxes, NEW f \in Failures(PortsOf(boxes)),
              Writes(model, boxes, f[1], f[2]), es' = model
       PROVE  AgreementInv'
  <2>1. /\ sync = NoSync /\ settings' = settings /\ cached' = cached
        /\ clean' = Unchanged(model) /\ unhurt' = (f[1] = {})
        /\ hw' = Merged(hw, PortsOf(boxes) \ f[2], model)
        /\ sync' = [NoSync EXCEPT !.kind = "push", !.stage = "written", !.boxes = boxes]
    BY <1>11 DEF Writes, Calls
  <2>2. sync'.stage = "written" /\ sync'.kind = "push" /\ sync'.boxes = boxes
    BY <2>1, WritesFields
  <2>3. f[2] \subseteq f[1] /\ PortsOf(boxes) \subseteq Ports
    BY DEF Failures, PortsOf
  <2>4. ASSUME unhurt' PROVE \A p \in PortsOf(boxes) : hw'[p] = model[p]
    BY <2>1, <2>3, <2>4 DEF Merged
  <2>5. Seen' = settings /\ Seen = settings
    BY <2>1, <2>2, SeenBetween DEF Seen
  <2>6. ASSUME clean' PROVE cached.settings = Seen /\ cached.es = Seen /\ model = cached.es
    BY <2>1, <2>6 DEF Unchanged, AgreementInv
  <2> QED
    BY <1>11, <2>1, <2>2, <2>4, <2>5, <2>6 DEF AgreementInv, PortsOf
<1>12. ASSUME NEW p \in Ports, NEW v \in Vals, Foreign(p, v) PROVE AgreementInv'
  BY <1>12 DEF Foreign, AgreementInv, Seen
<1>13. CASE UNCHANGED vars
  BY <1>13 DEF vars, ghosts, AgreementInv, Seen, PortsOf
<1>14. CASE PushDeclined
  BY <1>2, <1>10, <1>14 DEF PushDeclined
<1>15. ASSUME NEW boxes \in Subsets, NEW f \in Failures(PortsOf(boxes)),
              PushWrites(boxes, f[1], f[2])
       PROVE  AgreementInv'
  BY <1>11, <1>15 DEF PushWrites
<1>16. CASE Registering
  <2>1. PICK t \in Targets, f \in Freqs, v \in Vals :
           \/ RegisterOnly(t, f) \/ RegisterDeclined(t, f, v)
           \/ \E w \in Failures(PortsOf({BoxOf[PathOf[t][1]]})) :
                 RegisterWrites(t, f, v, w[1], w[2])
    BY <1>16, Registered
  <2>2. CASE RegisterOnly(t, f)
    BY <1>2, <2>2
  <2>3. CASE RegisterDeclined(t, f, v)
    BY <1>2, <1>10, <2>3 DEF RegisterDeclined
  <2>4. CASE \E w \in Failures(PortsOf({BoxOf[PathOf[t][1]]})) :
               RegisterWrites(t, f, v, w[1], w[2])
    BY <1>11, <2>4 DEF RegisterWrites
  <2> QED
    BY <2>1, <2>2, <2>3, <2>4
<1> QED
  BY <1>1, <1>2, <1>3, <1>4, <1>5, <1>7, <1>8, <1>9, <1>12, <1>13, <1>14, <1>15, <1>16
     DEF Next, Synchronizing

\* What is_synced answers with hashes and dumps is true of model and hardware
\* (SyncedMeansAgreement).
THEOREM SyncedIsAgreement == Spec => []SyncedMeansAgreement
<1>1. Init => AgreementInv
  BY NoSyncFields DEF Init, AgreementInv
<1>2. ASSUME TypeOK, AgreementInv PROVE SyncedMeansAgreement
  <2>1. ASSUME clean, sync = NoSync, IsSynced(Boxes) PROVE es = hw
    <3>1. cached.es = es /\ cached.settings = settings
      BY <2>1, StateFields DEF IsSynced
    <3>2. es = settings
      BY <1>2, <2>1, <3>1, SeenBetween DEF AgreementInv
    <3>3. \A p \in Ports : settings[p] = hw[p]
      BY <2>1, BoxOfAssumption DEF IsSynced, PortsOf
    <3> QED
      BY <1>2, <3>2, <3>3 DEF TypeOK
  <2> QED
    BY <2>1 DEF SyncedMeansAgreement
<1> QED
  BY <1>1, <1>2, AgreementStep, TypeCorrect, StagesHold, PTL DEF Spec

-----------------------------------------------------------------------------
(* The controller's cache follows the settings.                             *)

CacheNow ==
    conn /\ ~stale /\ ~Overridden => \A p \in Ports : SeenCache[p] \in {NoVal, Seen[p]}

SnapshotsNow ==
    ~stale /\ ~learned
      => \A i \in DOMAIN overrides : IsOutermost(i)
           => \A p \in Ports : overrides[i].snapshot[p] \in {NoVal, Seen[p]}

LEMMA CacheParts == CacheInv <=> CacheNow /\ SnapshotsNow
  BY DEF CacheInv, CacheNow, SnapshotsNow

LEMMA SeenCacheBetween ==
    /\ sync = NoSync => SeenCache = cache
    /\ (sync = NoSync => SeenCache = cache)'
  BY NoSyncFields DEF SeenCache

LEMMA EmptyCache == \A p \in Ports : Nothing[p] = NoVal
  BY DEF Nothing

\* Snapshots stay true while overrides and settings are what they are.
LEMMA SnapshotsKept ==
  ASSUME SnapshotsNow, overrides' = overrides, Seen' = Seen,
         stale => stale', learned => learned'
  PROVE  SnapshotsNow'
  BY DEF SnapshotsNow, IsOutermost

LEMMA NoSnapshots ==
  ASSUME overrides' = <<>>
  PROVE  SnapshotsNow'
  BY DEF SnapshotsNow

LEMMA CacheKept ==
  ASSUME CacheNow, overrides' = overrides, Seen' = Seen, SeenCache' = SeenCache,
         conn' => conn, stale => stale'
  PROVE  CacheNow'
  BY DEF CacheNow, Overridden

\* A cleared cache is true, and what is stale then is only a snapshot.
LEMMA CacheCleared ==
  ASSUME TypeOK, CacheInv, sync = NoSync, sync' = NoSync, cache' = Nothing,
         overrides' = overrides, settings' = settings, learned' = learned,
         stale' = (stale /\ Active)
  PROVE  CacheInv'
<1>1. CacheNow'
  BY SeenCacheBetween, EmptyCache DEF CacheNow
<1>2. SnapshotsNow'
  <2>1. CASE Active
    BY <2>1, SnapshotsKept, SeenBetween, CacheParts
  <2>2. CASE ~Active
    BY <2>2, NoSnapshots DEF Active
  <2> QED
    BY <2>1, <2>2
<1> QED
  BY <1>1, <1>2 DEF CacheInv, CacheNow, SnapshotsNow

LEMMA CacheUntouched ==
  ASSUME CacheInv, sync = NoSync, sync' = NoSync, cache' = cache, settings' = settings,
         overrides' = overrides, conn' = conn, stale => stale', learned => learned'
  PROVE  CacheInv'
<1>1. Seen' = Seen /\ SeenCache' = SeenCache
  BY SeenBetween, SeenCacheBetween
<1> QED
  BY <1>1, CacheKept, SnapshotsKept, CacheParts DEF CacheInv, CacheNow, SnapshotsNow

\* Entering: what was outermost stays so, and a first override of settings has
\* a true snapshot.
LEMMA CacheEntered ==
  ASSUME TypeOK, CacheInv, CanOverride, NEW o \in Overrides, NEW agrees, Enter(o, agrees),
         sync = NoSync, sync' = NoSync, settings' = settings, conn' = conn,
         stale' = stale, learned' = learned,
         \/ o.kind = "settings" /\ o.snapshot = cache /\ conn
         \/ o.kind = "frequencies" /\ cache' = cache
  PROVE  CacheInv'
<1>1. /\ Len(overrides') = Len(overrides) + 1 /\ Len(overrides) \in Nat
      /\ DOMAIN overrides = 1..Len(overrides) /\ DOMAIN overrides' = 1..Len(overrides')
      /\ \A i \in DOMAIN overrides : overrides'[i] = overrides[i]
      /\ overrides'[Len(overrides')] = o
  BY Entered DEF TypeOK
<1>2. Seen' = Seen /\ Seen = settings /\ SeenCache = cache /\ SeenCache' = cache'
  BY SeenBetween, SeenCacheBetween
<1>3. CacheNow'
  <2>1. CASE o.kind = "settings"
    BY <1>1, <2>1 DEF CacheNow, Overridden
  <2>2. CASE o.kind = "frequencies"
    <3>1. Overridden => Overridden'
      BY <1>1 DEF Overridden
    <3> QED
      BY <1>2, <2>2, <3>1 DEF CacheInv, CacheNow
  <2> QED
    BY <2>1, <2>2
<1>4. SnapshotsNow'
  <2>1. SUFFICES ASSUME ~stale, ~learned, NEW i \in DOMAIN overrides', IsOutermost(i)',
                        NEW p \in Ports
                 PROVE  overrides'[i].snapshot[p] \in {NoVal, settings[p]}
    BY <1>2 DEF SnapshotsNow
  <2>2. CASE i \in DOMAIN overrides
    <3>1. IsOutermost(i)
      BY <1>1, <2>1, <2>2 DEF IsOutermost
    <3> QED
      BY <1>1, <1>2, <2>1, <2>2, <3>1 DEF CacheInv
  <2>3. CASE i \notin DOMAIN overrides
    <3>1. i = Len(overrides') /\ overrides'[i] = o
      BY <1>1, <2>3
    <3>2. o.kind = "settings"
      BY <2>1, <3>1 DEF IsOutermost
    <3>3. ~Overridden
      BY <1>1, <2>1, <3>1 DEF IsOutermost, Overridden
    <3> QED
      BY <1>2, <2>1, <3>1, <3>2, <3>3 DEF CacheInv
  <2> QED
    BY <2>2, <2>3
<1> QED
  BY <1>3, <1>4 DEF CacheInv, CacheNow, SnapshotsNow

\* Leaving: the outermost override of settings puts a true snapshot back.
LEMMA CacheLeft ==
  ASSUME TypeOK, CacheInv, Active, NEW kept, Leave(kept), sync = NoSync, sync' = NoSync,
         settings' = settings, conn' = conn, stale => stale',
         \/ Innermost.kind = "frequencies" /\ cache' = cache
         \/ Innermost.kind = "settings" /\ cache' = Innermost.snapshot /\ (learned => stale')
         \/ stale' \/ ~conn
  PROVE  CacheInv'
<1>1. /\ Len(overrides) \in DOMAIN overrides /\ Innermost = overrides[Len(overrides)]
      /\ \A i \in DOMAIN overrides' :
            i \in DOMAIN overrides /\ i # Len(overrides) /\ overrides'[i] = overrides[i]
      /\ \A i \in DOMAIN overrides : i # Len(overrides) => i \in DOMAIN overrides'
      /\ DOMAIN overrides = 1..Len(overrides) /\ Len(overrides) \in Nat
      /\ learned' = (learned /\ Len(overrides) > 1)
      /\ Len(overrides') = Len(overrides) - 1
      /\ DOMAIN overrides' = 1..Len(overrides')
  <2>1. /\ overrides \in Seq(Overrides) /\ overrides' \in Seq(Overrides)
        /\ Len(overrides') = Len(overrides) - 1
        /\ Len(overrides) \in DOMAIN overrides
        /\ \A i \in DOMAIN overrides' :
              i \in DOMAIN overrides /\ i # Len(overrides) /\ overrides'[i] = overrides[i]
        /\ \A i \in DOMAIN overrides : i # Len(overrides) => i \in DOMAIN overrides'
    BY Left DEF TypeOK
  <2>2. learned' = (learned /\ Len(overrides) > 1)
    BY DEF Leave
  <2> QED
    BY <2>1, <2>2 DEF Innermost
<1>2. Seen' = settings /\ Seen = settings /\ SeenCache = cache /\ SeenCache' = cache'
  BY SeenBetween, SeenCacheBetween
<1>3. ASSUME NEW i \in DOMAIN overrides', IsOutermost(i)' PROVE IsOutermost(i)
  <2>1. i <= Len(overrides)
    BY <1>1, <1>3
  <2> QED
    BY <1>1, <1>3, <2>1 DEF IsOutermost
<1>4. CacheNow'
  <2>1. SUFFICES ASSUME conn, ~stale', ~Overridden', NEW p \in Ports
                 PROVE  cache'[p] \in {NoVal, settings[p]}
    BY <1>2 DEF CacheNow
  <2>2. CASE Innermost.kind = "frequencies" /\ cache' = cache
    <3>1. ~Overridden
      BY <1>1, <2>1, <2>2 DEF Overridden
    <3> QED
      BY <1>2, <2>1, <2>2, <3>1 DEF CacheInv
  <2>3. CASE Innermost.kind = "settings" /\ cache' = Innermost.snapshot /\ (learned => stale')
    <3>1. IsOutermost(Len(overrides))
      BY <1>1, <2>1, <2>3 DEF Overridden, IsOutermost
    <3> QED
      BY <1>1, <1>2, <2>1, <2>3, <3>1 DEF CacheInv
  <2> QED
    BY <2>1, <2>2, <2>3
<1>5. SnapshotsNow'
  <2>1. SUFFICES ASSUME ~stale', ~learned', NEW i \in DOMAIN overrides', IsOutermost(i)',
                        NEW p \in Ports
                 PROVE  overrides'[i].snapshot[p] \in {NoVal, settings[p]}
    BY <1>2 DEF SnapshotsNow
  <2>2. ~learned
    <3>1. Len(overrides) > 1
      BY <1>1, <2>1
    <3>2. learned' = learned
      BY <1>1, <3>1 DEF TypeOK
    <3> QED
      BY <2>1, <3>2
  <2> QED
    BY <1>1, <1>2, <1>3, <2>1, <2>2 DEF CacheInv
<1> QED
  BY <1>4, <1>5 DEF CacheInv, CacheNow, SnapshotsNow

LEMMA CacheStep ==
  ASSUME TypeOK, TypeOK', StageInv, CacheInv, [Next]_vars
  PROVE  CacheInv'
<1>1. CASE Connect \/ Disconnect
  BY <1>1, CacheCleared DEF Connect, Disconnect, Calls, Free
<1>2. ASSUME NEW model, NEW freqs, Load(model, freqs) PROVE CacheInv'
  BY <1>2, CacheCleared DEF Load, Calls
<1>3. ASSUME NEW model, NEW freqs, LoadWithoutController(model, freqs) PROVE CacheInv'
  BY <1>3, CacheUntouched DEF LoadWithoutController, Calls
<1>4. ASSUME NEW model, NEW freqs,
             LoadController(model, freqs) \/ LoadControllerOnly(model, freqs)
      PROVE  CacheInv'
  <2>1. ~conn' /\ learned' = Active /\ DOMAIN overrides' = DOMAIN overrides
    BY <1>4 DEF LoadController, LoadControllerOnly, NewController
  <2>2. CacheNow'
    BY <2>1 DEF CacheNow
  <2>3. SnapshotsNow'
    <3>1. CASE Active
      BY <2>1, <3>1 DEF SnapshotsNow
    <3>2. CASE ~Active
      BY <2>1, <3>2 DEF SnapshotsNow, Active
    <3> QED
      BY <3>1, <3>2
  <2> QED
    BY <2>2, <2>3 DEF CacheInv, CacheNow, SnapshotsNow
<1>5. ASSUME NEW read \in SUBSET Boxes, Pull(read) \/ PushReads(read) PROVE CacheInv'
  <2>1. PICK kind \in {"pull", "push"} : sync' = Fetched(kind, read)
    BY <1>5 DEF Pull, PushReads
  <2>2. /\ settings' = settings /\ cache' = cache /\ conn' = conn /\ overrides' = overrides
        /\ stale' = stale /\ learned' = learned /\ sync.stage \in {"none", "written"}
    BY <1>5, NoSyncFields DEF Pull, PushReads, Calls, SyncStep
  <2>3. Seen' = Seen /\ SeenCache' = SeenCache
    BY <2>1, <2>2, FetchedFields DEF Seen, SeenCache
  <2> QED
    BY <2>2, <2>3, CacheKept, SnapshotsKept, CacheParts DEF CacheInv, CacheNow, SnapshotsNow
<1>6. CASE StoreSettings \/ UpdateCache
  <2>1. /\ conn' = conn /\ overrides' = overrides /\ stale' = stale /\ learned' = learned
        /\ \/ sync.stage = "fetched" /\ sync' = [sync EXCEPT !.stage = "stored"] /\ cache' = cache
           \/ sync.stage = "stored" /\ sync' = [sync EXCEPT !.stage = "mirrored"]
    BY <1>6 DEF StoreSettings, UpdateCache, SyncStep
  <2>2. \/ sync.stage = "fetched" /\ sync'.stage = "stored" /\ sync'.before = sync.before /\ cache' = cache
        \/ sync.stage = "stored" /\ sync'.stage = "mirrored" /\ sync'.before = sync.before
    BY <2>1, StageFields
  <2>3. sync.stage = "fetched" => sync.before.settings = settings
    BY DEF StageInv
  <2>4. sync.stage = "stored" => sync.before.cache = cache
    BY DEF StageInv
  <2>5. Seen' = Seen /\ SeenCache' = SeenCache
    BY <2>2, <2>3, <2>4 DEF Seen, SeenCache
  <2> QED
    BY <2>1, <2>5, CacheKept, SnapshotsKept, CacheParts DEF CacheInv, CacheNow, SnapshotsNow
<1>7. ASSUME NEW outcome, SyncStep("mirrored"), Synchronized(outcome) PROVE CacheInv'
  <2>1. /\ sync' = NoSync /\ settings' = settings /\ cache' = cache /\ conn' = conn
        /\ overrides' = overrides /\ stale' = (stale /\ sync.read # Boxes)
        /\ learned' = (learned \/ Active)
        /\ sync.stage = "mirrored"
        /\ settings = Overlay(Seen, sync.dump) /\ cache = Overlay(SeenCache, settings)
    BY <1>7 DEF SyncStep, Synchronized, Seen, SeenCache, StageInv
  <2>2. /\ sync.dump \in Known /\ Seen \in Known /\ SeenCache \in Known /\ settings \in Known
    BY DEF TypeOK, Syncs, Seen, SeenCache
  <2>3. Seen' = settings /\ SeenCache' = cache
    BY <2>1, SeenBetween, SeenCacheBetween
  <2>4. CacheNow'
    <3>1. SUFFICES ASSUME conn, ~stale', ~Overridden, NEW p \in Ports
                   PROVE  cache[p] \in {NoVal, settings[p]}
      BY <2>1, <2>3 DEF CacheNow, Overridden
    <3>2. /\ cache[p] = IF settings[p] = NoVal THEN SeenCache[p] ELSE settings[p]
          /\ settings[p] = IF sync.dump[p] = NoVal THEN Seen[p] ELSE sync.dump[p]
      BY <2>1, <2>2, OverlayOf
    <3>3. CASE sync.read = Boxes
      BY <2>1, <3>2, <3>3, WholeDump
    <3>4. CASE ~stale
      <4>1. SeenCache[p] \in {NoVal, Seen[p]}
        BY <3>1, <3>4 DEF CacheInv
      <4> QED
        BY <3>2, <4>1
    <3> QED
      BY <2>1, <3>1, <3>3, <3>4
  <2>5. SnapshotsNow'
    BY <2>1, NoSnapshots DEF Active, SnapshotsNow
  <2> QED
    BY <2>4, <2>5 DEF CacheInv, CacheNow, SnapshotsNow
<1>8. CASE SyncRaises
  <2>1. /\ sync' = NoSync /\ settings' = Seen /\ conn' = conn /\ overrides' = overrides
        /\ stale' = stale /\ learned' = learned
        /\ cache' = (IF conn THEN sync.before.cache ELSE cache)
        /\ sync.stage = "mirrored" \/ ~conn
    BY <1>8 DEF SyncRaises, SyncStep, Seen
  <2>2. Seen' = Seen
    BY <2>1, SeenBetween
  <2>3. CacheNow'
    <3>1. CASE conn
      <4>1. SeenCache' = SeenCache
        BY <2>1, <3>1, SeenCacheBetween DEF SeenCache
      <4> QED
        BY <2>1, <2>2, <4>1, CacheKept, CacheParts
    <3>2. CASE ~conn
      BY <2>1, <3>2 DEF CacheNow
    <3> QED
      BY <3>1, <3>2
  <2>4. SnapshotsNow'
    BY <2>1, <2>2, SnapshotsKept, CacheParts
  <2> QED
    BY <2>3, <2>4 DEF CacheInv, CacheNow, SnapshotsNow
<1>9. ASSUME NEW model, Declined(model) PROVE CacheInv'
  <2>1. /\ sync = NoSync /\ sync' = NoSync /\ settings' = settings /\ conn' = conn
        /\ overrides' = overrides /\ stale' = stale /\ learned' = learned
        /\ cache' = Overlay(cache, settings)
    BY <1>9 DEF Declined, Calls
  <2>2. Seen' = settings /\ Seen = settings /\ SeenCache = cache /\ SeenCache' = cache'
    BY <2>1, SeenBetween, SeenCacheBetween
  <2>3. CacheNow'
    <3>1. SUFFICES ASSUME conn, ~stale, ~Overridden, NEW p \in Ports
                   PROVE  cache'[p] \in {NoVal, settings[p]}
      BY <2>1, <2>2 DEF CacheNow, Overridden
    <3>2. cache'[p] = IF settings[p] = NoVal THEN cache[p] ELSE settings[p]
      BY <2>1, OverlayOf DEF TypeOK
    <3>3. cache[p] \in {NoVal, settings[p]}
      BY <2>2, <3>1 DEF CacheInv
    <3> QED
      BY <3>2, <3>3
  <2>4. SnapshotsNow'
    BY <2>1, <2>2, SnapshotsKept, CacheParts
  <2> QED
    BY <2>3, <2>4 DEF CacheInv, CacheNow, SnapshotsNow
<1>10. ASSUME NEW model, NEW boxes, NEW failed, NEW kept, Writes(model, boxes, failed, kept)
       PROVE  CacheInv'
  <2>1. /\ sync = NoSync /\ settings' = settings /\ cache' = cache /\ conn' = conn
        /\ overrides' = overrides /\ stale' = stale /\ learned' = learned
        /\ sync'.stage = "written"
    BY <1>10, WritesFields DEF Writes, Calls
  <2>2. Seen' = Seen /\ SeenCache' = SeenCache
    BY <2>1, NoSyncFields DEF Seen, SeenCache
  <2> QED
    BY <2>1, <2>2, CacheKept, SnapshotsKept, CacheParts DEF CacheInv, CacheNow, SnapshotsNow
<1>11. ASSUME NEW t \in Targets, NEW v \in Vals, EnterSettings(t, v) PROVE CacheInv'
  <2> DEFINE o == [kind |-> "settings", target |-> t, original |-> es[PathOf[t][1]],
                  snapshot |-> cache]
  <2>1. o \in Overrides /\ o.kind = "settings" /\ o.snapshot = cache
    BY PathTypes DEF TypeOK, Overrides
  <2>2. /\ CanOverride /\ Enter(o, PathAgrees(t)) /\ sync = NoSync /\ sync' = NoSync /\ conn
        /\ settings' = settings /\ conn' = conn /\ stale' = stale /\ learned' = learned
    BY <1>11 DEF EnterSettings, Calls
  <2> HIDE DEF o
  <2> QED
    BY <2>1, <2>2, CacheEntered
<1>12. ASSUME NEW labels \in SUBSET Targets, NEW f \in [Targets -> Freqs],
              EnterFrequencies(labels, f)
       PROVE  CacheInv'
  <2> DEFINE o == [kind |-> "frequencies", labels |-> labels, freqs |-> freq,
                 bound |-> TRUE]
             agrees == \A t \in labels : db[t] = freq[t]
  <2>1. o \in Overrides /\ o.kind = "frequencies"
    BY DEF TypeOK, Overrides
  <2>2. /\ CanOverride /\ Enter(o, agrees) /\ sync = NoSync /\ sync' = NoSync /\ cache' = cache
        /\ settings' = settings /\ conn' = conn /\ stale' = stale /\ learned' = learned
    BY <1>12 DEF EnterFrequencies, Calls
  <2> HIDE DEF o, agrees
  <2> QED
    BY <2>1, <2>2, CacheEntered
<1>13. ASSUME NEW t, NEW v, NEW written, NEW mirrored,
              EnterSettingsFails(t, v, written, mirrored)
       PROVE  CacheInv'
  <2>1. /\ sync = NoSync /\ sync' = NoSync /\ settings' = settings /\ conn' = conn
        /\ overrides' = overrides /\ learned' = learned
        /\ stale' = (stale \/ mirrored # {}) /\ cache' = With(cache, mirrored, v)
    BY <1>13 DEF EnterSettingsFails, Calls
  <2>2. CASE mirrored = {}
    <3>1. cache' = cache
      BY <2>1, <2>2 DEF With, TypeOK, Known
    <3> QED
      BY <2>1, <3>1, CacheUntouched
  <2>3. CASE mirrored # {}
    BY <2>1, <2>3 DEF CacheInv
  <2> QED
    BY <2>2, <2>3
<1>14. CASE LeaveSettings
  BY <1>14, CacheLeft DEF LeaveSettings, LeavesSettings, Free
<1>15. ASSUME NEW written, LeaveSettingsFails(written) PROVE CacheInv'
  BY <1>15, CacheLeft DEF LeaveSettingsFails, LeavesSettings, Free
<1>16. ASSUME LeavesFrequencies, NEW kept, Leave(kept), NEW outcome, Free(outcome)
       PROVE  CacheInv'
  BY <1>16, CacheLeft DEF LeavesFrequencies, Free
<1>17. ASSUME NEW labels, NEW f, NEW known, NEW accepted,
              EnterFrequenciesFails(labels, f, known, accepted)
       PROVE  CacheInv'
  BY <1>17, CacheUntouched DEF EnterFrequenciesFails, Calls
<1>18. ASSUME NEW p \in Ports, NEW v \in Vals, Foreign(p, v) PROVE CacheInv'
  BY <1>18 DEF Foreign, CacheInv, Seen, SeenCache, Overridden, IsOutermost
<1>19. CASE UNCHANGED vars
  BY <1>19 DEF vars, ghosts, CacheInv, Seen, SeenCache, Overridden, IsOutermost
<1>20. CASE Lifecycle
  BY <1>1, <1>2, <1>3, <1>4, <1>20 DEF Lifecycle
<1>21. CASE Overriding
  BY <1>11, <1>12, <1>14, <1>15, <1>16, <1>21
     DEF Overriding, LabelSets, LeaveFrequencies, LeaveFrequenciesFails
<1>22. CASE Refusing
  BY <1>13, <1>17, <1>22 DEF Refusing
<1>23. CASE DeclineRaises \/ \E t \in Targets, f \in Freqs : RegisterOnly(t, f)
  BY <1>23, CacheUntouched DEF DeclineRaises, RegisterOnly, Calls
<1>24. CASE Synchronizing
  BY <1>5, <1>6, <1>7, <1>8, <1>9, <1>10, <1>23, <1>24
     DEF Synchronizing, PullApplied, PushFinished, PushDeclined, PushWrites
<1>25. CASE Registering
  BY <1>9, <1>10, <1>23, <1>25, Registered DEF RegisterDeclined, RegisterWrites
<1> QED
  BY <1>18, <1>19, <1>20, <1>21, <1>22, <1>24, <1>25 DEF Next

\* The cache has what the settings say (CacheFollowsSettings).
THEOREM CacheIsTrue == Spec => []CacheFollowsSettings
<1>1. Init => CacheInv
  BY NoSyncFields, EmptyCache DEF Init, CacheInv, SeenCache
<1>2. ASSUME TypeOK, CacheInv PROVE CacheFollowsSettings
  <2>1. overrides \in Seq(Overrides)
    BY <1>2 DEF TypeOK
  <2>2. (\A i \in DOMAIN overrides : overrides[i].kind = "frequencies") => ~Overridden
    BY DEF Overridden
  <2> QED
    BY <1>2, <2>2, SeenBetween, SeenCacheBetween DEF CacheInv, CacheFollowsSettings
<1> QED
  BY <1>1, <1>2, CacheStep, TypeCorrect, StagesHold, PTL DEF Spec

-----------------------------------------------------------------------------
(* Frequencies, and what a call leaves behind.                              *)

\* Frequencies change on both sides at once, or their labels are torn.
LEMMA FrequenciesTuned ==
  ASSUME TypeOK, FrequenciesAgree, NEW g, NEW known, NEW accepted \in SUBSET known,
         known \subseteq Labels(freq),
         freq' = Tuned(freq, known, g), db' = Tuned(db, accepted, g),
         known \ accepted \subseteq torn', torn \ accepted \subseteq torn'
  PROVE  FrequenciesAgree'
<1>1. SUFFICES ASSUME NEW t \in Labels(freq') \ torn' PROVE freq'[t] = db'[t]
  BY DEF FrequenciesAgree
<1>2. t \in Targets
  BY DEF Labels
<1>3. CASE t \in accepted
  BY <1>2, <1>3 DEF Tuned
<1>4. CASE t \notin accepted
  <2>1. t \notin known /\ t \notin torn
    BY <1>1, <1>4
  <2>2. freq'[t] = freq[t] /\ db'[t] = db[t]
    BY <1>2, <1>4, <2>1 DEF Tuned
  <2> QED
    BY <1>1, <1>2, <2>1, <2>2 DEF FrequenciesAgree, Labels
<1> QED
  BY <1>3, <1>4

\* Model and database agree on the frequencies (FrequenciesAgree), which is
\* inductive: an operation changes both, or the labels that it could not change
\* on the other side are torn.
THEOREM FrequenciesStayEqual == Spec => []FrequenciesAgree
<1>1. Init => FrequenciesAgree
  BY DEF Init, FrequenciesAgree
<1>2. ASSUME TypeOK, FrequenciesAgree, [Next]_vars PROVE FrequenciesAgree'
  <2>1. ASSUME freq' = freq, db' = db, torn' = torn PROVE FrequenciesAgree'
    BY <1>2, <2>1 DEF FrequenciesAgree
  <2>2. ASSUME torn' = Targets PROVE FrequenciesAgree'
    BY <2>2 DEF FrequenciesAgree, Labels
  <2>3. CASE Lifecycle
    <3>1. CASE Connect \/ Disconnect
      BY <2>1, <3>1 DEF Connect, Disconnect
    <3>2. ASSUME NEW model, NEW freqs, Load(model, freqs) PROVE FrequenciesAgree'
      <4>1. freq' = freqs /\ db' = Tuned(db, Labels(freqs), freqs)
        BY <3>2 DEF Load
      <4> QED
        BY <4>1 DEF FrequenciesAgree, Tuned, Labels
    <3>3. ASSUME NEW model, NEW freqs,
                 LoadWithoutController(model, freqs) \/ LoadControllerOnly(model, freqs)
          PROVE  FrequenciesAgree'
      BY <2>2, <3>3 DEF LoadWithoutController, LoadControllerOnly
    <3>4. ASSUME NEW model, NEW freqs, LoadController(model, freqs) PROVE FrequenciesAgree'
      BY <3>4 DEF FrequenciesAgree, LoadController, NewController
    <3> QED
      BY <2>3, <3>1, <3>2, <3>3, <3>4 DEF Lifecycle
  <2>4. CASE Synchronizing
    <3>1. ASSUME NEW from, SyncStep(from), db' = db PROVE FrequenciesAgree'
      BY <2>1, <3>1 DEF SyncStep
    <3>2. CASE StoreSettings \/ UpdateCache \/ SyncRaises
      BY <3>1, <3>2 DEF StoreSettings, UpdateCache, SyncRaises
    <3>3. ASSUME NEW skipped, PushFinished \/ PullApplied(skipped) PROVE FrequenciesAgree'
      BY <3>1, <3>3 DEF PushFinished, PullApplied, Synchronized
    <3>4. ASSUME NEW read, Pull(read) \/ PushReads(read) PROVE FrequenciesAgree'
      BY <2>1, <3>1, <3>4 DEF Pull, PushReads
    <3>5. CASE PushDeclined
      BY <2>1, <3>5 DEF PushDeclined
    <3>6. ASSUME NEW boxes, NEW failed, NEW kept, PushWrites(boxes, failed, kept)
          PROVE  FrequenciesAgree'
      BY <2>1, <3>6 DEF PushWrites
    <3> QED
      BY <2>4, <3>2, <3>3, <3>4, <3>5, <3>6 DEF Synchronizing
  <2>5. CASE Registering
    <3>1. PICK t \in Targets, f \in Freqs : Defines(t, f)
      BY <2>5, Registered DEF RegisterOnly, RegisterDeclined, RegisterWrites, Registers
    <3>2. ASSUME NEW s \in Labels(freq') \ torn' PROVE freq'[s] = db'[s]
      <4>1. s \in Targets /\ (s # t => s \notin torn)
        BY <3>1, <3>2 DEF Defines, Labels
      <4>2. freq' = [freq EXCEPT ![t] = f] /\ db' = [db EXCEPT ![t] = f]
        BY <3>1 DEF Defines
      <4>3. CASE s = t
        BY <1>2, <4>1, <4>2, <4>3 DEF TypeOK, Tunings
      <4>4. CASE s # t
        <5>1. freq'[s] = freq[s] /\ db'[s] = db[s]
          BY <1>2, <4>1, <4>2, <4>4 DEF TypeOK, Tunings
        <5> QED
          BY <1>2, <3>2, <4>1, <4>4, <5>1 DEF FrequenciesAgree, Labels
      <4> QED
        BY <4>3, <4>4
    <3> QED
      BY <3>2 DEF FrequenciesAgree
  <2>6. ASSUME NEW labels, NEW f, EnterFrequencies(labels, f) PROVE FrequenciesAgree'
    BY <1>2, <2>6, FrequenciesTuned DEF EnterFrequencies
  <2>7. ASSUME NEW labels, NEW f, NEW known, NEW accepted,
               EnterFrequenciesFails(labels, f, known, accepted)
        PROVE  FrequenciesAgree'
    BY <1>2, <2>7, FrequenciesTuned DEF EnterFrequenciesFails, Refused
  <2>8. CASE LeaveFrequencies
    <3>1. /\ Innermost.labels \subseteq Labels(freq)
          /\ freq' = Tuned(freq, Innermost.labels, Innermost.freqs)
      BY <2>8 DEF LeaveFrequencies
    <3>2. CASE Innermost.bound
      BY <1>2, <2>8, <3>1, <3>2, FrequenciesTuned DEF LeaveFrequencies
    <3>3. CASE ~Innermost.bound
      <4>1. db' = db /\ torn' = torn \union Innermost.labels
        BY <2>8, <3>3 DEF LeaveFrequencies
      <4>2. db = Tuned(db, {}, Innermost.freqs)
        BY <1>2 DEF TypeOK, Tunings, Tuned
      <4> QED
        BY <1>2, <3>1, <4>1, <4>2, FrequenciesTuned
    <3> QED
      BY <3>2, <3>3
  <2>9. ASSUME NEW known, NEW accepted, LeaveFrequenciesFails(known, accepted)
        PROVE  FrequenciesAgree'
    BY <1>2, <2>9, FrequenciesTuned DEF LeaveFrequenciesFails, Refused
  <2>10. ASSUME NEW t, NEW v, NEW written, NEW mirrored,
                \/ EnterSettings(t, v) \/ EnterSettingsFails(t, v, written, mirrored)
                \/ LeaveSettings \/ LeaveSettingsFails(written) \/ Foreign(t, v)
         PROVE  FrequenciesAgree'
    BY <2>1, <2>10 DEF EnterSettings, EnterSettingsFails, LeaveSettings, LeaveSettingsFails,
       Foreign
  <2>11. CASE Overriding
    BY <2>6, <2>8, <2>9, <2>10, <2>11 DEF Overriding
  <2>12. CASE Refusing
    BY <2>7, <2>10, <2>12 DEF Refusing
  <2>13. CASE UNCHANGED vars
    BY <2>1, <2>13 DEF vars, ghosts
  <2> QED
    BY <1>2, <2>3, <2>4, <2>5, <2>10, <2>11, <2>12, <2>13 DEF Next
<1> QED
  BY <1>1, <1>2, TypeCorrect, PTL DEF Spec

-----------------------------------------------------------------------------
(* What a call leaves behind.                                               *)

\* A pull, a push or a declined push leaves the cache rebuilt from all that the
\* settings have (SyncRebuildsCache).
THEOREM CacheIsRebuilt == Spec => SyncRebuildsCache
<1> DEFINE Rebuilt == last' \in {"pulled", "pushed", "declined"}
              => \A p \in Ports : settings'[p] # NoVal => cache'[p] = settings'[p]
<1>1. ASSUME TypeOK, StageInv, Next PROVE Rebuilt
  <2>1. ASSUME SyncStep("mirrored"), NEW outcome, Synchronized(outcome) PROVE Rebuilt
    <3>1. /\ settings' = settings /\ cache' = cache
          /\ cache = Overlay(sync.before.cache, settings)
      BY <1>1, <2>1 DEF SyncStep, Synchronized, StageInv
    <3>2. sync.before.cache \in Known /\ settings \in Known
      BY <1>1 DEF TypeOK, Syncs
    <3> QED
      BY <3>1, <3>2, OverlayOf
  <2>2. ASSUME NEW model, Declined(model) PROVE Rebuilt
    <3>1. settings' = settings /\ cache' = Overlay(cache, settings)
      BY <2>2 DEF Declined
    <3> QED
      BY <1>1, <3>1, OverlayOf DEF TypeOK
  <2>3. CASE Lifecycle \/ Overriding \/ Refusing \/ DeclineRaises
             \/ \E t \in Targets, f \in Freqs : RegisterOnly(t, f)
    <3>1. last' \in {"other", "left"}
      <4>1. CASE Lifecycle
        BY <4>1 DEF Lifecycle, Connect, Disconnect, Load, LoadWithoutController,
           LoadController, LoadControllerOnly, Calls, Free
      <4>2. CASE Overriding
        BY <4>2 DEF Overriding, EnterSettings, EnterFrequencies, LeaveSettings,
           LeaveFrequencies, LeaveSettingsFails, LeaveFrequenciesFails, Calls, Free
      <4>3. CASE Refusing \/ DeclineRaises \/ \E t \in Targets, f \in Freqs : RegisterOnly(t, f)
        BY <4>3 DEF Refusing, EnterSettingsFails, EnterFrequenciesFails, DeclineRaises,
           RegisterOnly, Calls
      <4> QED
        BY <2>3, <4>1, <4>2, <4>3
    <3> QED
      BY <3>1
  <2>4. CASE \/ \E read \in SUBSET Boxes : Pull(read) \/ PushReads(read)
             \/ StoreSettings \/ UpdateCache \/ SyncRaises
             \/ \E model, boxes, failed, kept : Writes(model, boxes, failed, kept)
             \/ \E p \in Ports, v \in Vals : Foreign(p, v)
    <3>1. last' \notin {"pulled", "pushed", "declined"}
      BY <2>4 DEF Pull, PushReads, StoreSettings, UpdateCache, SyncRaises, Writes, Foreign, Calls
    <3> QED
      BY <3>1
  <2> QED
    BY <1>1, <2>1, <2>2, <2>3, <2>4, Registered
       DEF Next, Synchronizing, PullApplied, PushFinished, PushDeclined, RegisterDeclined,
           PushWrites, RegisterWrites
<1>2. ASSUME TypeOK, StageInv, [Next]_vars PROVE [Rebuilt]_vars
  BY <1>1, <1>2
<1> QED
  BY <1>2, TypeCorrect, StagesHold, PTL DEF Spec, SyncRebuildsCache

-----------------------------------------------------------------------------
(* What leaving an override puts back.                                      *)

\* Leaving the override o in the moment `now` puts back what was there.
Restores(o, now, was) ==
    /\ o.kind = "settings" =>
         /\ was.es = With(now.es, PathPorts(o.target), o.original)
         /\ was.hw = With(now.hw, PathPorts(o.target), o.original)
         /\ was.cache = o.snapshot
         /\ was.freq = now.freq /\ was.db = now.db
    /\ o.kind = "frequencies" =>
         /\ o.bound
         /\ was.freq = Tuned(now.freq, o.labels, o.freqs)
         /\ was.db = Tuned(now.db, o.labels, o.freqs)
         /\ was.es = now.es /\ was.hw = now.hw

\* The override that found before[k], and the moment its leaving starts from.
Finder(k) == overrides[k + (Len(overrides) - Len(before))]
Following(k) == IF k = Len(before) THEN Now ELSE before[k + 1]

\* Each of the innermost overrides restores what it found from what the next one
\* found, and the innermost one from what is there now.
FoundInv ==
    /\ Len(before) <= Len(overrides)
    /\ \A k \in DOMAIN before : Restores(Finder(k), Following(k), before[k])

LEMMA NowFields ==
    /\ Now.es = es /\ Now.hw = hw /\ Now.cache = cache /\ Now.freq = freq /\ Now.db = db
    /\ (Now.es = es /\ Now.hw = hw /\ Now.cache = cache /\ Now.freq = freq /\ Now.db = db)'
  BY DEF Now

LEMMA NothingFound ==
  ASSUME TypeOK', before' = <<>>
  PROVE  FoundInv'
  BY DEF TypeOK, FoundInv

\* The moment may differ in the cache.
LEMMA SameRestored ==
  ASSUME NEW o, NEW now, NEW then, NEW was, Restores(o, now, was),
         then.es = now.es, then.hw = now.hw, then.freq = now.freq, then.db = now.db
  PROVE  Restores(o, then, was)
  BY DEF Restores

LEMMA FoundUndisturbed ==
  ASSUME TypeOK, TypeOK', FoundInv, Undisturbed
  PROVE  FoundInv'
<1>1. CASE UNCHANGED <<es, hw, freq, db, overrides>>
  <2>1. before' = before /\ overrides' = overrides
    BY <1>1 DEF Undisturbed
  <2>2. ASSUME NEW k \in DOMAIN before PROVE Restores(Finder(k), Following(k)', before[k])
    <3>1. Restores(Finder(k), Following(k), before[k])
      BY DEF FoundInv
    <3>2. /\ Following(k)'.es = Following(k).es /\ Following(k)'.hw = Following(k).hw
          /\ Following(k)'.freq = Following(k).freq /\ Following(k)'.db = Following(k).db
      BY <1>1, <2>1, NowFields DEF Following
    <3> QED
      BY <3>1, <3>2, SameRestored
  <2> QED
    BY <2>1, <2>2 DEF FoundInv, Finder
<1>2. CASE ~UNCHANGED <<es, hw, freq, db, overrides>>
  BY <1>2, NothingFound DEF Undisturbed
<1> QED
  BY <1>1, <1>2

LEMMA FoundEntered ==
  ASSUME TypeOK, TypeOK', FoundInv, CanOverride, NEW o \in Overrides, NEW agrees,
         Enter(o, agrees), agrees => Restores(o, Now', Now)
  PROVE  FoundInv'
<1>1. CASE ~agrees
  BY <1>1, NothingFound DEF Enter
<1>2. CASE agrees
  <2>1. /\ Len(overrides') = Len(overrides) + 1 /\ Len(overrides) \in Nat
        /\ \A i \in 1..Len(overrides) : overrides'[i] = overrides[i]
        /\ overrides'[Len(overrides) + 1] = o
    BY Entered DEF TypeOK
  <2>2. before \in Seq(Moments) /\ Now \in Moments /\ before' = Append(before, Now)
    BY <1>2 DEF Enter, TypeOK, Now, Moments
  <2>3. /\ Len(before') = Len(before) + 1 /\ Len(before) \in Nat
        /\ \A i \in 1..Len(before) : before'[i] = before[i]
        /\ before'[Len(before) + 1] = Now
        /\ DOMAIN before = 1..Len(before) /\ DOMAIN before' = 1..Len(before')
    BY <2>2, AppendProperties
  <2>4. Len(before) <= Len(overrides)
    BY DEF FoundInv
  <2>5. ASSUME NEW k \in DOMAIN before' PROVE Restores(Finder(k), Following(k), before[k])'
    <3>1. k \in 1..(Len(before) + 1)
      BY <2>3
    <3>2. CASE k = Len(before) + 1
      <4>1. k + (Len(overrides') - Len(before')) = Len(overrides) + 1
        BY <2>1, <2>3, <3>2
      <4>2. Finder(k)' = o /\ Following(k)' = Now' /\ before'[k] = Now
        BY <2>1, <2>3, <3>2, <4>1 DEF Finder, Following
      <4> QED
        BY <1>2, <4>2
    <3>3. CASE k # Len(before) + 1
      <4>1. /\ k \in 1..Len(before)
            /\ k + (Len(overrides') - Len(before')) = k + (Len(overrides) - Len(before))
            /\ k + (Len(overrides) - Len(before)) \in 1..Len(overrides)
        BY <2>1, <2>3, <2>4, <3>1, <3>3
      <4>2. Finder(k)' = Finder(k) /\ before'[k] = before[k]
        BY <2>1, <2>3, <4>1 DEF Finder
      <4>3. Following(k)' = Following(k)
        <5>1. CASE k = Len(before)
          <6>1. k # Len(before') /\ k + 1 = Len(before) + 1 /\ before'[k + 1] = Now
            <7>1. Len(before') = Len(before) + 1 /\ Len(before) \in Nat
              BY <2>3
            <7>2. k # Len(before')
              BY <5>1, <7>1
            <7>3. k + 1 = Len(before) + 1
              BY <5>1
            <7> QED
              BY <2>3, <7>2, <7>3
          <6>2. Following(k)' = before'[k + 1]
            BY <6>1 DEF Following
          <6> QED
            BY <5>1, <6>1, <6>2 DEF Following
        <5>2. CASE k # Len(before)
          <6>1. k + 1 \in 1..Len(before) /\ k # Len(before')
            BY <2>3, <4>1, <5>2
          <6> QED
            BY <2>3, <5>2, <6>1 DEF Following
        <5> QED
          BY <5>1, <5>2
      <4> QED
        BY <2>3, <4>1, <4>2, <4>3 DEF FoundInv
    <3> QED
      BY <3>2, <3>3
  <2>6. Len(before') <= Len(overrides')
    BY <2>1, <2>3, <2>4
  <2> QED
    BY <2>5, <2>6 DEF FoundInv
<1> QED
  BY <1>1, <1>2

LEMMA FoundLeft ==
  ASSUME TypeOK, TypeOK', FoundInv, Active, Leave(Len(before) - 1),
         before # <<>> => LET found == before[Len(before)] IN
                            /\ es' = found.es /\ hw' = found.hw
                            /\ freq' = found.freq /\ db' = found.db
  PROVE  FoundInv'
<1>1. /\ Len(overrides') = Len(overrides) - 1 /\ Len(overrides) \in Nat
      /\ \A i \in 1..(Len(overrides) - 1) : overrides'[i] = overrides[i]
  BY Left DEF TypeOK
<1>2. before \in Seq(Moments) /\ before' = SubSeq(before, 1, Len(before) - 1)
  BY DEF TypeOK, Leave
<1>3. CASE before = <<>>
  <2>1. before' = <<>>
    BY <1>2, <1>3
  <2> QED
    BY <2>1, NothingFound
<1>4. CASE before # <<>>
  <2>1. Len(before) \in Nat /\ Len(before) > 0 /\ DOMAIN before = 1..Len(before)
    BY <1>2, <1>4
  <2>2. /\ Len(before') = Len(before) - 1 /\ DOMAIN before' = 1..(Len(before) - 1)
        /\ \A i \in 1..(Len(before) - 1) : before'[i] = before[i]
    BY <1>2, <2>1, SubSeqProperties
  <2>3. Len(before) <= Len(overrides)
    BY DEF FoundInv
  <2>4. ASSUME NEW k \in DOMAIN before' PROVE Restores(Finder(k), Following(k), before[k])'
    <3>1. /\ k \in 1..(Len(before) - 1) /\ k \in DOMAIN before /\ k # Len(before)
          /\ k + (Len(overrides') - Len(before')) = k + (Len(overrides) - Len(before))
          /\ k + (Len(overrides) - Len(before)) \in 1..(Len(overrides) - 1)
      BY <1>1, <2>1, <2>2, <2>3
    <3>2. Finder(k)' = Finder(k) /\ before'[k] = before[k]
      BY <1>1, <2>2, <3>1 DEF Finder
    <3>3. Restores(Finder(k), before[k + 1], before[k])
      BY <3>1 DEF FoundInv, Following
    <3>4. CASE k = Len(before) - 1
      <4>1. k + 1 = Len(before) /\ Following(k)' = Now'
        BY <2>1, <2>2, <3>4 DEF Following
      <4> QED
        BY <1>4, <3>2, <3>3, <4>1, NowFields, SameRestored
    <3>5. CASE k # Len(before) - 1
      <4>1. k + 1 \in 1..(Len(before) - 1) /\ k # Len(before')
        BY <2>1, <2>2, <3>1, <3>5
      <4>2. Following(k)' = before[k + 1]
        BY <2>2, <4>1 DEF Following
      <4> QED
        BY <3>2, <3>3, <4>2
    <3> QED
      BY <3>4, <3>5
  <2>5. Len(before') <= Len(overrides')
    BY <1>1, <2>1, <2>2, <2>3
  <2> QED
    BY <2>4, <2>5 DEF FoundInv
<1> QED
  BY <1>3, <1>4

LEMMA InnermostRestores ==
  ASSUME TypeOK, FoundInv, Active, before # <<>>
  PROVE  Restores(Innermost, Now, before[Len(before)])
<1>1. Len(before) \in Nat /\ Len(before) \in DOMAIN before /\ Len(overrides) \in Nat
  BY DEF TypeOK
<1>2. Len(before) + (Len(overrides) - Len(before)) = Len(overrides)
  BY <1>1
<1> QED
  BY <1>1, <1>2 DEF FoundInv, Finder, Following, Innermost

\* Leaving either kind of override puts back what it found.
LEMMA LeavingRestores ==
  ASSUME TypeOK, FoundInv, LeaveSettings \/ LeaveFrequencies, before # <<>>
  PROVE  LET found == before[Len(before)] IN
           /\ es' = found.es /\ hw' = found.hw
           /\ freq' = found.freq /\ db' = found.db
           /\ cache' = IF Innermost.kind = "settings" THEN found.cache ELSE cache
<1>1. Restores(Innermost, Now, before[Len(before)])
  BY InnermostRestores DEF LeaveSettings, LeaveFrequencies, LeavesSettings, LeavesFrequencies
<1>2. CASE LeaveSettings
  BY <1>1, <1>2, NowFields DEF LeaveSettings, LeavesSettings, Restores
<1>3. CASE LeaveFrequencies
  BY <1>1, <1>3, NowFields DEF LeaveFrequencies, LeavesFrequencies, Restores
<1> QED
  BY <1>2, <1>3

\* Entering changes only what its leaving restores.
LEMMA SettingsEntered ==
  ASSUME TypeOK, NEW t \in Targets, NEW v \in Vals, EnterSettings(t, v), PathAgrees(t)
  PROVE  Restores([kind |-> "settings", target |-> t, original |-> es[PathOf[t][1]],
                   snapshot |-> cache], Now', Now)
<1>1. \A p \in PathPorts(t) : es[p] = es[PathOf[t][1]] /\ hw[p] = es[PathOf[t][1]]
  BY DEF PathAgrees
<1>2. /\ es' = With(es, PathPorts(t), v) /\ hw' = With(hw, PathPorts(t), v)
      /\ freq' = freq /\ db' = db
  BY DEF EnterSettings
<1>3. es = With(es', PathPorts(t), es[PathOf[t][1]])
  BY <1>1, <1>2 DEF TypeOK, With
<1>4. hw = With(hw', PathPorts(t), es[PathOf[t][1]])
  BY <1>1, <1>2 DEF TypeOK, With
<1> QED
  BY <1>2, <1>3, <1>4, NowFields DEF Restores

LEMMA FrequenciesEntered ==
  ASSUME TypeOK, NEW labels, NEW f, EnterFrequencies(labels, f),
         \A t \in labels : db[t] = freq[t]
  PROVE  Restores([kind |-> "frequencies", labels |-> labels, freqs |-> freq, bound |-> TRUE],
                  Now', Now)
<1>1. /\ freq' = Tuned(freq, labels, f) /\ db' = Tuned(db, labels, f)
      /\ es' = es /\ hw' = hw
  BY DEF EnterFrequencies
<1>2. freq = Tuned(freq', labels, freq)
  BY <1>1 DEF TypeOK, Tuned, Tunings
<1>3. db = Tuned(db', labels, freq)
  BY <1>1 DEF TypeOK, Tuned, Tunings
<1> QED
  BY <1>1, <1>2, <1>3, NowFields DEF Restores

LEMMA FoundInvStep ==
  ASSUME TypeOK, TypeOK', FoundInv, [Next]_vars
  PROVE  FoundInv'
<1>1. CASE Undisturbed
  BY <1>1, FoundUndisturbed
<1>2. ASSUME NEW t \in Targets, NEW v \in Vals, EnterSettings(t, v) PROVE FoundInv'
  <2> DEFINE o == [kind |-> "settings", target |-> t, original |-> es[PathOf[t][1]],
                  snapshot |-> cache]
  <2>1. o \in Overrides
    BY PathTypes DEF TypeOK, Overrides
  <2>2. CanOverride /\ Enter(o, PathAgrees(t))
    BY <1>2 DEF EnterSettings
  <2>3. PathAgrees(t) => Restores(o, Now', Now)
    BY <1>2, SettingsEntered
  <2> HIDE DEF o
  <2> QED
    BY <2>1, <2>2, <2>3, FoundEntered
<1>3. ASSUME NEW labels \in SUBSET Targets, NEW f \in [Targets -> Freqs],
             EnterFrequencies(labels, f)
      PROVE  FoundInv'
  <2> DEFINE o == [kind |-> "frequencies", labels |-> labels, freqs |-> freq, bound |-> TRUE]
             agrees == \A t \in labels : db[t] = freq[t]
  <2>1. o \in Overrides
    BY DEF TypeOK, Overrides
  <2>2. CanOverride /\ Enter(o, agrees)
    BY <1>3 DEF EnterFrequencies
  <2>3. agrees => Restores(o, Now', Now)
    BY <1>3, FrequenciesEntered
  <2> HIDE DEF o, agrees
  <2> QED
    BY <2>1, <2>2, <2>3, FoundEntered
<1>4. CASE LeaveSettings \/ LeaveFrequencies
  <2>1. Active /\ Leave(Len(before) - 1)
    BY <1>4 DEF LeaveSettings, LeaveFrequencies, LeavesSettings, LeavesFrequencies
  <2> QED
    BY <1>4, <2>1, LeavingRestores, FoundLeft
<1>5. ASSUME Leave(0) PROVE FoundInv'
  <2>1. before' = <<>>
    BY <1>5 DEF Leave, TypeOK
  <2> QED
    BY <2>1, NothingFound
<1>6. CASE Overriding
  BY <1>2, <1>3, <1>4, <1>5, <1>6
     DEF Overriding, LabelSets, LeaveSettingsFails, LeaveFrequenciesFails
<1>7. CASE UNCHANGED vars
  BY <1>7 DEF vars, ghosts, FoundInv, Finder, Following, Now
<1> QED
  BY <1>1, <1>6, <1>7 DEF Next

\* Leaving an override puts back all that it found (OverrideUndone): through every
\* nesting, because each override restores from what the next one found.
THEOREM OverridesAreUndone == Spec => OverrideUndone
<1> DEFINE Undone == last' = "left" /\ before # <<>>
         => LET found == before[Len(before)] IN
              /\ es' = found.es /\ hw' = found.hw
              /\ freq' = found.freq /\ db' = found.db
              /\ cache' = IF Innermost.kind = "settings" THEN found.cache ELSE cache
<1>1. Init => FoundInv
  <2>1. ASSUME Init PROVE FoundInv
    BY <2>1 DEF Init, FoundInv
  <2> QED
    BY <2>1
<1>2. ASSUME TypeOK, FoundInv, Next PROVE Undone
  <2>1. CASE LeaveSettings \/ LeaveFrequencies
    BY <1>2, <2>1, LeavingRestores
  <2>2. CASE ~(LeaveSettings \/ LeaveFrequencies)
    <3>1. CASE Lifecycle
      BY <3>1 DEF Lifecycle, Connect, Disconnect, Load, LoadWithoutController,
         LoadController, LoadControllerOnly, Calls, Free
    <3>2. CASE Synchronizing
      BY <3>2 DEF Synchronizing, Pull, PushReads, StoreSettings, UpdateCache, PushFinished,
         PullApplied, Synchronized, SyncRaises, PushDeclined, Declined, DeclineRaises,
         PushWrites, Writes, Calls
    <3>3. CASE Registering
      BY <3>3, Registered DEF RegisterOnly, RegisterDeclined, Declined, DeclineRaises,
         RegisterWrites, Writes, Calls
    <3>4. CASE Refusing
      BY <3>4 DEF Refusing, EnterSettingsFails, EnterFrequenciesFails, Calls
    <3>5. CASE Overriding
      BY <2>2, <3>5 DEF Overriding, EnterSettings, EnterFrequencies, LeaveSettingsFails,
         LeaveFrequenciesFails, Calls, Free
    <3>6. ASSUME NEW p, NEW v, Foreign(p, v) PROVE Undone
      <4>1. last' # "left"
        BY <3>6 DEF Foreign
      <4> QED
        BY <4>1
    <3> QED
      BY <1>2, <3>1, <3>2, <3>3, <3>4, <3>5, <3>6 DEF Next
  <2> QED
    BY <2>1, <2>2
<1>3. ASSUME TypeOK, FoundInv, [Next]_vars PROVE [Undone]_vars
  BY <1>2, <1>3
<1> QED
  BY <1>1, <1>3, FoundInvStep, TypeCorrect, PTL DEF Spec, OverrideUndone

==============================================================================
