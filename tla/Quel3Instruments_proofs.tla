------------------------ MODULE Quel3Instruments_proofs ------------------------
(***************************************************************************)
(* Proofs about Quel3Instruments and the two callers that compose it,      *)
(* Quel3Batch and Quel3Monitor, for any units, ports, aliases and          *)
(* configurations and any number of calls and of other users.  The cache   *)
(* is never wrong about what the controller itself did and tells how each  *)
(* call went; a replay is planned on the cache and checked on what the     *)
(* refresh returned, which agree as long as no other call changes the      *)
(* cache in between; and the finally clause of a monitor run ends with the *)
(* instruments it started from.                                            *)
(***************************************************************************)
EXTENDS Quel3Batch, Quel3Monitor, SequenceTheorems, TLAPS

\* What the requests of a call destroy has left the cache before the first of
\* them: the ports or the aliases that are written, the units that are cleared.
UncachedFirst ==
    /\ (call.stage = "write" /\ call.kind = "deploy")
          => \A i \in cache : i.port \notin SpecPorts(call.specs)
    /\ (call.stage = "write" /\ call.kind = "replace")
          => /\ call.append
             /\ \A i \in cache : i.alias \notin SpecAliases(call.specs)
    /\ call.stage = "discard"
          => \A i \in cache : UnitOf[i.port] \notin call.units

\* Which calls reach the stages that destroy.
StageInv ==
    /\ call.stage = "write" => call.kind \in {"deploy", "replace"}
    /\ call.stage \in {"readback", "publish"}
          => call.kind \in {"connect", "refresh", "deploy", "replace"}
    /\ call.stage = "discard" => call.kind \in {"clear", "mode"}
    /\ call.stage = "list" => call.kind \in {"connect", "refresh", "deploy"}

\* What was read back and not published yet is on the hardware, unless another
\* user removed it in between.
ReadTruth == call.stage = "publish" => call.listed \subseteq hw \cup foreign

\* The cache, written as a set, is the dict that it is in the code.
OneInstrumentPerAlias == Indexable(cache)

CacheInv == /\ TypeOK
            /\ StageInv
            /\ UncachedFirst
            /\ ReadTruth
            /\ CacheTruth
            /\ OneInstrumentPerAlias

-----------------------------------------------------------------------------
(* The operators.                                                          *)

\* A replacement takes from the cache and from the incoming instruments, drops
\* the scope, and never publishes an alias twice.
LEMMA ReplaceScopeFacts ==
    ASSUME NEW old, NEW scope, NEW incoming,
           NEW new \in ReplaceScope(old, scope, incoming)
    PROVE  new = (old \ scope) \cup incoming /\ Indexable(new)
  BY DEF ReplaceScope

\* The same for the ports, the units or the aliases of a call.
LEMMA ReplacePortsFacts ==
    ASSUME NEW old, NEW ports, NEW incoming,
           NEW new \in ReplacePorts(old, ports, incoming)
    PROVE  /\ new = (old \ OnPorts(old, ports)) \cup incoming
           /\ Indexable(new)
  BY DEF ReplacePorts, ReplaceScope

\* See ReplacePortsFacts.
LEMMA ReplaceUnitsFacts ==
    ASSUME NEW old, NEW units, NEW incoming,
           NEW new \in ReplaceUnits(old, units, incoming)
    PROVE  /\ new = (old \ OnUnits(old, units)) \cup incoming
           /\ Indexable(new)
  BY DEF ReplaceUnits, ReplaceScope

\* See ReplacePortsFacts.
LEMMA ReplaceAliasesFacts ==
    ASSUME NEW old, NEW aliases, NEW incoming,
           NEW new \in ReplaceAliases(old, aliases, incoming)
    PROVE  /\ new = (old \ OfAliases(old, aliases)) \cup incoming
           /\ Indexable(new)
  BY DEF ReplaceAliases, ReplaceScope

\* What a call publishes comes from the cache and from what it listed.
LEMMA PublishedFacts ==
    ASSUME NEW new \in Published,
           call.kind \in {"connect", "refresh", "deploy", "replace"}
    PROVE  new \subseteq cache \cup call.listed /\ Indexable(new)
<1>1. CASE call.kind = "connect"
  BY <1>1 DEF Published, OnePerAlias
<1>2. CASE call.kind = "refresh"
  <2>1. CASE call.units = Units
    BY <1>2, <2>1, ReplaceScopeFacts DEF Published, ReplaceWhole
  <2>2. CASE call.units # Units
    BY <1>2, <2>2, ReplaceUnitsFacts DEF Published
  <2> QED
    BY <2>1, <2>2
<1>3. CASE call.kind = "deploy"
  BY <1>3, ReplacePortsFacts DEF Published
<1>4. CASE call.kind = "replace"
  BY <1>4, ReplaceAliasesFacts DEF Published
<1> QED
  BY <1>1, <1>2, <1>3, <1>4

\* Writing leaves instruments, and only removes from the ports it writes: all
\* of them, or when it appends those it deploys anew.
LEMMA WrittenFacts ==
    ASSUME TypeOK, NEW specs \in SUBSET Specs, NEW ports, NEW append \in BOOLEAN
    PROVE  /\ Written(specs, ports, append) \subseteq Instruments
           /\ \A i \in hw \ Written(specs, ports, append) :
                 /\ i.port \in ports
                 /\ append => SpecOf(i) \in specs
<1>1. \A s \in specs : [alias |-> s.alias, port |-> s.port, gen |-> gen + 1] \in Instruments
  BY DEF TypeOK, Specs, Instruments
<1> QED
  BY <1>1 DEF TypeOK, Written

\* The record of no call has its type.
LEMMA IdleType ==
    /\ Idle("ok") \in CallRecords
    /\ Idle("error") \in CallRecords
    /\ Idle("no") \in CallRecords
  BY DeployAttemptsAssumption DEF Idle, CallRecords, Kinds, Stages, Modes

\* The record of a call that begins has its type and the given stage.
LEMMA BeginFacts ==
    ASSUME TypeOK, NEW kind \in Kinds, NEW stage \in Stages
    PROVE  /\ Begin(kind, stage) \in CallRecords
           /\ Begin(kind, stage).kind = kind
           /\ Begin(kind, stage).stage = stage
  BY IdleType DEF Begin, TypeOK, CallRecords

\* A call keeps its type when its scope is set.
LEMMA ScopeType ==
    ASSUME NEW r \in CallRecords
    PROVE  /\ \A us \in SUBSET Units : [r EXCEPT !.units = us] \in CallRecords
           /\ \A us \in SUBSET Units, to \in Modes, clear \in BOOLEAN :
                 [r EXCEPT !.units = us, !.to = to, !.clear = clear] \in CallRecords
           /\ \A specs \in SUBSET Specs, append \in BOOLEAN :
                 [r EXCEPT !.specs = specs, !.append = append] \in CallRecords
  BY DEF CallRecords

\* A call keeps its type when it goes on.
LEMMA StageType ==
    ASSUME NEW r \in CallRecords, NEW stage \in Stages, NEW listed \in SUBSET Instruments
    PROVE  /\ [r EXCEPT !.stage = stage] \in CallRecords
           /\ [r EXCEPT !.stage = stage, !.listed = listed] \in CallRecords
  BY DEF CallRecords

\* An attempt is counted up to the last.
LEMMA TryType ==
    ASSUME NEW r \in CallRecords, ~(r.try >= DeployAttempts)
    PROVE  [r EXCEPT !.try = @ + 1] \in CallRecords
  BY DeployAttemptsAssumption DEF CallRecords

-----------------------------------------------------------------------------
(* The specification.                                                      *)

\* The types hold initially.
LEMMA InitTypes == Init => TypeOK
<1> SUFFICES ASSUME Init PROVE TypeOK
  OBVIOUS
<1> QED
  BY IdleType, BoundsAssumption, PlacementsAssumption DEF Init, TypeOK, Specs, Instruments, Modes

\* A deployment that begins: its call, and the cache without its ports.
LEMMA DeployBegins ==
    ASSUME TypeOK, NEW specs \in SUBSET Specs, NEW append \in BOOLEAN,
           BeginDeploy(specs, append)
    PROVE  /\ TypeOK'
           /\ call'.kind = "deploy" /\ call'.stage = "write" /\ call'.ended = "no"
           /\ call'.specs = specs /\ call'.append = append
           /\ cache' \subseteq cache
           /\ \A i \in cache' : i.port \notin SpecPorts(specs)
<1> USE DEF TypeOK, Kinds, Stages
<1>1. /\ Begin("deploy", "write") \in CallRecords
      /\ Begin("deploy", "write").kind = "deploy"
      /\ Begin("deploy", "write").stage = "write"
      /\ Begin("deploy", "write").ended = "no"
  BY BeginFacts DEF Begin, Idle
<1>2. call' \in CallRecords
  BY <1>1, ScopeType DEF BeginDeploy
<1>3. cache' \subseteq cache /\ \A i \in cache' : i.port \notin SpecPorts(specs)
  BY ReplacePortsFacts DEF BeginDeploy, OnPorts
<1>4. /\ call'.kind = "deploy" /\ call'.stage = "write" /\ call'.ended = "no"
      /\ call'.specs = specs /\ call'.append = append
  BY <1>1 DEF BeginDeploy, CallRecords
<1>5. TypeOK'
  BY <1>2, <1>3, BoundsAssumption DEF BeginDeploy, Starting
<1> QED
  BY <1>3, <1>4, <1>5

\* Every step keeps the types.
LEMMA TypeStep == TypeOK /\ StageInv /\ [Next]_vars => TypeOK'
<1> SUFFICES ASSUME TypeOK, StageInv, [Next]_vars PROVE TypeOK'
  OBVIOUS
<1> USE BoundsAssumption DEF TypeOK, Kinds, Stages
<1>1. ASSUME NEW us \in SUBSET Units, Connect(us) PROVE TypeOK'
  <2>1. call' \in CallRecords
    <3>1. Begin("connect", "probe") \in CallRecords
      BY BeginFacts
    <3> QED
      BY <1>1, <3>1, ScopeType DEF Connect
  <2> QED
    BY <1>1, <2>1 DEF Connect, Starting
<1>2. CASE Disconnect
  BY <1>2, IdleType DEF Disconnect, Starting, Ends
<1>3. ASSUME NEW specs \in SUBSET Specs, NEW append \in BOOLEAN,
             BeginDeploy(specs, append)
      PROVE  TypeOK'
  BY <1>3, DeployBegins
<1>4. ASSUME NEW spec \in Specs, Replace(spec) PROVE TypeOK'
  <2>1. call' \in CallRecords
    <3>1. Begin("replace", "write") \in CallRecords
      BY BeginFacts
    <3> QED
      BY <1>4, <3>1, ScopeType DEF Replace
  <2>2. cache' \subseteq Instruments
    BY <1>4, ReplaceAliasesFacts DEF Replace
  <2> QED
    BY <1>4, <2>1, <2>2 DEF Replace, Starting
<1>5. ASSUME NEW us \in SUBSET Units, Refresh(us) PROVE TypeOK'
  <2>1. call' \in CallRecords
    <3>1. Begin("refresh", "list") \in CallRecords
      BY BeginFacts
    <3> QED
      BY <1>5, <3>1, ScopeType DEF Refresh
  <2> QED
    BY <1>5, <2>1 DEF Refresh, Starting
<1>6. ASSUME NEW u \in Units, Clear(u) PROVE TypeOK'
  <2>1. call' \in CallRecords
    <3>1. Begin("clear", "probe") \in CallRecords
      BY BeginFacts
    <3> QED
      BY <1>6, <3>1, ScopeType DEF Clear
  <2> QED
    BY <1>6, <2>1 DEF Clear, Starting
<1>7. ASSUME NEW u \in Units, NEW to \in Modes, NEW clear \in BOOLEAN,
             ConfigureMonitorMode(u, to, clear)
      PROVE  TypeOK'
  <2>1. call' \in CallRecords
    <3>1. Begin("mode", "probe") \in CallRecords
      BY BeginFacts
    <3> QED
      BY <1>7, <3>1, ScopeType DEF ConfigureMonitorMode
  <2> QED
    BY <1>7, <2>1 DEF ConfigureMonitorMode, Starting
<1>8. CASE RequestFails
  BY <1>8, IdleType DEF RequestFails, Fails
<1>9. CASE Connected
  <2>1. call' \in CallRecords
    BY <1>9, IdleType, StageType DEF Connected, Ends
  <2> QED
    BY <1>9, <2>1 DEF Connected
<1>10. CASE Discovered
  <2>1. call' \in CallRecords
    BY <1>10, IdleType, StageType DEF Discovered, Ends
  <2>2. cache' \subseteq Instruments
    BY <1>10, ReplaceUnitsFacts DEF Discovered
  <2> QED
    BY <1>10, <2>1, <2>2 DEF Discovered
<1>11. CASE ModeSet
  <2>1. mode' \in [Units -> Modes]
    BY <1>11 DEF ModeSet, CallRecords
  <2> QED
    BY <1>11, <2>1, IdleType DEF ModeSet, Ends, Fails
<1>12. CASE List
  <2>1. InScope(hw) \subseteq Instruments
    BY DEF InScope, OnPorts, OnUnits
  <2>2. call' \in CallRecords
    BY <1>12, <2>1, StageType DEF List
  <2> QED
    BY <1>12, <2>2 DEF List
<1>13. CASE ReadBack
  <2>1. call.listed \subseteq Instruments
    BY DEF CallRecords
  <2>2. call' \in CallRecords
    BY <1>13, <2>1, StageType DEF ReadBack, OnPorts
  <2> QED
    BY <1>13, <2>2 DEF ReadBack
<1>18. CASE Publish
  <2>1. call.listed \subseteq Instruments
    BY DEF CallRecords
  <2>2. cache' \subseteq Instruments
    BY <1>18, <2>1, PublishedFacts DEF Publish, StageInv
  <2> QED
    BY <1>18, <2>2, IdleType DEF Publish, Ends, Fails
<1>14. ASSUME NEW ports \in SUBSET Ports, Discard(ports) PROVE TypeOK'
  <2>1. call' \in CallRecords
    BY <1>14, IdleType, StageType DEF Discard, Ends, Fails
  <2> QED
    BY <1>14, <2>1 DEF Discard
<1>15. ASSUME NEW ports \in SUBSET Ports, Write(ports) PROVE TypeOK'
  <2>1. call.specs \in SUBSET Specs /\ call.append \in BOOLEAN
    BY DEF CallRecords
  <2>2. hw' \subseteq Instruments
    BY <1>15, <2>1, WrittenFacts DEF Write
  <2>3. call' \in CallRecords
    <3>1. [call EXCEPT !.stage = "list"] \in CallRecords
      BY StageType
    <3>2. \A listed \in SUBSET Instruments :
             [call EXCEPT !.stage = "readback", !.listed = listed] \in CallRecords
      BY StageType
    <3> QED
      BY <1>15, <2>2, <3>1, <3>2, IdleType, TryType DEF Write, Fails
  <2> QED
    BY <1>15, <2>2, <2>3 DEF Write
<1>16. ASSUME NEW p \in Ports, NEW specs \in SUBSET {s \in Specs : s.port =
              p}, Foreign(p, specs)
       PROVE  TypeOK'
  <2>1. specs \in SUBSET Specs /\ FALSE \in BOOLEAN
    BY <1>16
  <2>2. hw' \subseteq Instruments
    BY <1>16, <2>1, WrittenFacts DEF Foreign
  <2>3. others' \in 0..MaxForeign /\ gen' \in Nat
    BY <1>16 DEF Foreign
  <2>4. foreign' \subseteq Instruments
    BY <1>16 DEF Foreign
  <2> QED
    BY <1>16, <2>2, <2>3, <2>4 DEF Foreign
<1>17. CASE Done \/ UNCHANGED vars
  BY <1>17 DEF Done, vars
<1> QED
  BY <1>1, <1>2, <1>3, <1>4, <1>5, <1>6, <1>7, <1>8, <1>9, <1>10, <1>11,
     <1>12, <1>13, <1>14, <1>15, <1>16, <1>17, <1>18, ConfigurationsAssumption, PlacementsAssumption
     DEF Next, Calls, Requests, OtherUsers, Deploy, DeployOne

\* Every step uncaches what the next one of the call will remove.
LEMMA StageStep ==
    TypeOK /\ StageInv /\ UncachedFirst /\ [Next]_vars
        => (StageInv /\ UncachedFirst)'
<1> SUFFICES ASSUME TypeOK, StageInv, UncachedFirst, [Next]_vars
             PROVE  (StageInv /\ UncachedFirst)'
  OBVIOUS
<1> USE DEF StageInv, UncachedFirst, Kinds, Stages
<1>1. ASSUME NEW us \in SUBSET Units, Connect(us)
      PROVE  (StageInv /\ UncachedFirst)'
  <2>1. Begin("connect", "probe") \in CallRecords /\ Begin("connect", "probe").stage = "probe"
    BY BeginFacts
  <2>2. call'.stage = "probe"
    BY <1>1, <2>1 DEF Connect, CallRecords
  <2>3. call'.kind = "connect"
    BY <1>1, BeginFacts, <2>1 DEF Connect, CallRecords
  <2> QED
    BY <2>2, <2>3
<1>2. CASE Disconnect
  BY <1>2 DEF Disconnect, Ends, Fails, Idle
<1>3. ASSUME NEW specs \in SUBSET Specs, NEW append \in BOOLEAN,
             BeginDeploy(specs, append)
      PROVE  (StageInv /\ UncachedFirst)'
  BY <1>3, DeployBegins
<1>4. ASSUME NEW spec \in Specs, Replace(spec)
      PROVE  (StageInv /\ UncachedFirst)'
  <2>1. /\ Begin("replace", "write") \in CallRecords
        /\ Begin("replace", "write").kind = "replace"
        /\ Begin("replace", "write").stage = "write"
    BY BeginFacts
  <2>2. /\ call'.kind = "replace" /\ call'.stage = "write"
        /\ call'.specs = {spec} /\ call'.append
    BY <1>4, <2>1 DEF Replace, CallRecords
  <2>3. \A i \in cache' : i.alias # spec.alias
    BY <1>4, ReplaceAliasesFacts DEF Replace, OfAliases
  <2> QED
    BY <2>2, <2>3 DEF SpecAliases
<1>5. ASSUME NEW us \in SUBSET Units, Refresh(us)
      PROVE  (StageInv /\ UncachedFirst)'
  <2>1. Begin("refresh", "list") \in CallRecords /\ Begin("refresh", "list").stage = "list"
    BY BeginFacts
  <2>2. call'.stage = "list"
    BY <1>5, <2>1 DEF Refresh, CallRecords
  <2>3. call'.kind = "refresh"
    BY <1>5, BeginFacts, <2>1 DEF Refresh, CallRecords
  <2> QED
    BY <2>2, <2>3
<1>6. ASSUME NEW u \in Units, Clear(u) PROVE (StageInv /\ UncachedFirst)'
  <2>1. Begin("clear", "probe") \in CallRecords /\ Begin("clear", "probe").stage = "probe"
    BY BeginFacts
  <2>2. call'.stage = "probe"
    BY <1>6, <2>1 DEF Clear, CallRecords
  <2>3. call'.kind = "clear"
    BY <1>6, BeginFacts, <2>1 DEF Clear, CallRecords
  <2> QED
    BY <2>2, <2>3
<1>7. ASSUME NEW u \in Units, NEW to \in Modes, NEW clear \in BOOLEAN,
             ConfigureMonitorMode(u, to, clear)
      PROVE  (StageInv /\ UncachedFirst)'
  <2>1. Begin("mode", "probe") \in CallRecords /\ Begin("mode", "probe").stage = "probe"
    BY BeginFacts
  <2>2. call'.stage = "probe"
    BY <1>7, <2>1 DEF ConfigureMonitorMode, CallRecords
  <2>3. call'.kind = "mode"
    BY <1>7, BeginFacts, <2>1 DEF ConfigureMonitorMode, CallRecords
  <2> QED
    BY <2>2, <2>3
<1>8. CASE RequestFails
  BY <1>8 DEF RequestFails, Ends, Fails, Idle
<1>9. CASE Connected
  BY <1>9 DEF Connected, Ends, Idle, TypeOK, CallRecords
<1>10. CASE Discovered
  <2>1. CASE call.kind = "mode" /\ ~call.clear
    BY <1>10, <2>1 DEF Discovered, Ends, Idle, TypeOK, CallRecords
  <2>2. CASE ~(call.kind = "mode" /\ ~call.clear)
    <3>1. /\ call'.stage = "discard" /\ call'.kind = call.kind
          /\ call'.units = call.units
      BY <1>10, <2>2 DEF Discovered, TypeOK, CallRecords
    <3>2. \A i \in cache' : UnitOf[i.port] \notin call.units
      BY <1>10, <2>2, ReplaceUnitsFacts DEF Discovered, OnUnits
    <3> QED
      BY <1>10, <3>1, <3>2 DEF Discovered
  <2> QED
    BY <2>1, <2>2
<1>11. CASE ModeSet
  BY <1>11 DEF ModeSet, Ends, Fails, Idle
<1>12. CASE List
  BY <1>12 DEF List, TypeOK, CallRecords
<1>13. CASE ReadBack
  BY <1>13 DEF ReadBack, TypeOK, CallRecords
<1>18. CASE Publish
  BY <1>18 DEF Publish, Ends, Fails, Idle
<1>14. ASSUME NEW ports \in SUBSET Ports, Discard(ports)
       PROVE  (StageInv /\ UncachedFirst)'
  BY <1>14 DEF Discard, Ends, Fails, Idle, TypeOK, CallRecords
<1>15. ASSUME NEW ports \in SUBSET Ports, Write(ports)
       PROVE  (StageInv /\ UncachedFirst)'
  <2>1. CASE call' = Idle("error")
    BY <2>1 DEF Idle
  <2>2. CASE call' # Idle("error")
    <3>1. /\ call'.kind = call.kind
          /\ call'.specs = call.specs /\ call'.append = call.append
          /\ \/ call'.stage = "write"
             \/ call'.stage = "readback"
             \/ call'.stage = "list" /\ call.kind # "replace"
      BY <1>15, <2>2 DEF Write, Fails, TypeOK, CallRecords
    <3>2. cache' = cache
      BY <1>15 DEF Write
    <3> QED
      BY <1>15, <3>1, <3>2 DEF Write
  <2> QED
    BY <2>1, <2>2
<1>16. ASSUME NEW p \in Ports, NEW specs \in SUBSET {s \in Specs : s.port =
              p}, Foreign(p, specs)
       PROVE  (StageInv /\ UncachedFirst)'
  BY <1>16 DEF Foreign
<1>17. CASE Done \/ UNCHANGED vars
  BY <1>17 DEF Done, vars
<1> QED
  BY <1>1, <1>2, <1>3, <1>4, <1>5, <1>6, <1>7, <1>8, <1>9, <1>10, <1>11,
     <1>12, <1>13, <1>14, <1>15, <1>16, <1>17, <1>18, ConfigurationsAssumption, PlacementsAssumption
     DEF Next, Calls, Requests, OtherUsers, Deploy, DeployOne

\* What was read back stays true until it is published.
LEMMA ReadStep ==
    TypeOK /\ ReadTruth /\ [Next]_vars => ReadTruth'
<1> SUFFICES ASSUME TypeOK, ReadTruth, [Next]_vars, call'.stage = "publish"
             PROVE  call'.listed \subseteq hw' \cup foreign'
  BY DEF ReadTruth
<1> USE DEF TypeOK
<1>1. \A kind \in Kinds, stage \in {"probe", "write", "list"} :
         Begin(kind, stage) \in CallRecords /\ Begin(kind, stage).stage # "publish"
  BY BeginFacts DEF Stages
<1>2. ~Calls
  <2>1. ASSUME NEW us \in SUBSET Units PROVE ~Connect(us) /\ ~Refresh(us)
    BY <1>1 DEF Connect, Refresh, CallRecords, Kinds
  <2>2. ASSUME NEW specs \in SUBSET Specs, NEW append \in BOOLEAN PROVE ~BeginDeploy(specs, append)
    <3>1. SUFFICES ASSUME BeginDeploy(specs, append) PROVE FALSE
      OBVIOUS
    <3> QED
      BY <3>1, DeployBegins
  <2>3. ASSUME NEW spec \in Specs PROVE ~Replace(spec)
    <3>1. SUFFICES ASSUME Replace(spec) PROVE FALSE
      OBVIOUS
    <3>2. Begin("replace", "write") \in CallRecords /\ Begin("replace", "write").stage = "write"
      BY BeginFacts DEF Kinds, Stages
    <3>3. call'.stage = "write"
      BY <3>1, <3>2 DEF Replace, CallRecords
    <3> QED
      BY <3>3
  <2>4. ASSUME NEW u \in Units PROVE ~Clear(u)
    BY <1>1 DEF Clear, CallRecords, Kinds
  <2>5. ASSUME NEW u \in Units, NEW to \in Modes, NEW clear \in BOOLEAN
        PROVE  ~ConfigureMonitorMode(u, to, clear)
    BY <1>1 DEF ConfigureMonitorMode, CallRecords, Kinds
  <2>6. ~Disconnect
    BY DEF Disconnect, Ends, Idle
  <2> QED
    BY <2>1, <2>2, <2>3, <2>4, <2>5, <2>6, ConfigurationsAssumption
       DEF Calls, Deploy, DeployOne
<1>3. CASE ReadBack
  BY <1>3 DEF ReadBack, TypeOK, CallRecords, OnPorts
<1>4. ASSUME NEW p \in Ports, NEW specs, Foreign(p, specs)
      PROVE  call'.listed \subseteq hw' \cup foreign'
  BY <1>4 DEF Foreign, ReadTruth
<1>5. ~(RequestFails \/ Publish)
  BY DEF RequestFails, Publish, Ends, Fails, Idle
<1>8. ~(Connected \/ Discovered)
  BY DEF Connected, Discovered, Ends, Idle, CallRecords
<1>9. ~(ModeSet \/ List)
  <2>1. ModeSet => call'.stage = "none"
    BY DEF ModeSet, Ends, Fails, Idle
  <2>2. List => call'.stage = "readback"
    BY DEF List, CallRecords
  <2> QED
    BY <2>1, <2>2
<1>6. ASSUME NEW ports \in SUBSET Ports PROVE ~Discard(ports) /\ ~Write(ports)
  <2>1. ~Discard(ports)
    BY DEF Discard, Ends, Fails, Idle, CallRecords
  <2>2. ~Write(ports)
    <3>1. SUFFICES ASSUME Write(ports) PROVE FALSE
      OBVIOUS
    <3>2. CASE call' = Idle("error")
      BY <3>2 DEF Idle
    <3>3. CASE call' # Idle("error")
      BY <3>1, <3>3 DEF Write, Fails, CallRecords
    <3> QED
      BY <3>2, <3>3
  <2> QED
    BY <2>1, <2>2
<1>7. CASE Done \/ UNCHANGED vars
  BY <1>7 DEF Done, vars, ReadTruth
<1> QED
  BY <1>2, <1>3, <1>4, <1>5, <1>6, <1>7, <1>8, <1>9 DEF Next, Requests, OtherUsers

\* A smaller cache is wrong about nothing more.
LEMMA FewerCached ==
    ASSUME CacheTruth, OneInstrumentPerAlias,
           cache' \subseteq cache, hw \subseteq hw', foreign' = foreign
    PROVE  (CacheTruth /\ OneInstrumentPerAlias)'
  BY DEF CacheTruth, OneInstrumentPerAlias, Indexable

\* Every step keeps the cache true: what it removes from the hardware it has
\* uncached before, or another user removes it; what it publishes is there.
LEMMA TruthStep ==
    CacheInv /\ [Next]_vars => (CacheTruth /\ OneInstrumentPerAlias)'
<1> SUFFICES ASSUME CacheInv, [Next]_vars
             PROVE  (CacheTruth /\ OneInstrumentPerAlias)'
  OBVIOUS
<1> USE DEF CacheInv
<1>1. ASSUME NEW specs \in SUBSET Specs, NEW append \in BOOLEAN, BeginDeploy(specs, append)
      PROVE  (CacheTruth /\ OneInstrumentPerAlias)'
  <2>1. cache' \subseteq cache
    BY <1>1, DeployBegins
  <2> QED
    BY <1>1, <2>1, FewerCached DEF BeginDeploy
<1>2. ASSUME NEW spec \in Specs, Replace(spec)
      PROVE  (CacheTruth /\ OneInstrumentPerAlias)'
  <2>1. cache' \subseteq cache
    BY <1>2, ReplaceAliasesFacts DEF Replace
  <2> QED
    BY <1>2, <2>1, FewerCached DEF Replace
<1>3. CASE Discovered
  <2>1. cache' \subseteq cache
    BY <1>3, ReplaceUnitsFacts DEF Discovered
  <2> QED
    BY <1>3, <2>1, FewerCached DEF Discovered
<1>4. ASSUME NEW us \in SUBSET Units, Connect(us) \/ Disconnect
      PROVE  (CacheTruth /\ OneInstrumentPerAlias)'
  BY <1>4, FewerCached DEF Connect, Disconnect
<1>5. CASE RequestFails
  BY <1>5, FewerCached DEF RequestFails
<1>6. ASSUME NEW ports \in SUBSET Ports, Discard(ports)
      PROVE  (CacheTruth /\ OneInstrumentPerAlias)'
  <2>1. \A i \in hw \ hw' : UnitOf[i.port] \in call.units
    BY <1>6 DEF Discard, OnPorts
  <2>2. \A i \in cache : UnitOf[i.port] \notin call.units
    BY <1>6 DEF Discard, UncachedFirst
  <2> QED
    BY <1>6, <2>1, <2>2 DEF Discard, CacheTruth, OneInstrumentPerAlias
<1>7. ASSUME NEW ports \in SUBSET Ports, Write(ports)
      PROVE  (CacheTruth /\ OneInstrumentPerAlias)'
  <2>1. /\ call.specs \in SUBSET Specs /\ call.append \in BOOLEAN
        /\ ports \subseteq SpecPorts(call.specs)
        /\ hw' = Written(call.specs, ports, call.append)
        /\ cache' = cache /\ foreign' = foreign
    BY <1>7 DEF Write, TypeOK, CallRecords
  <2>2. \A i \in hw \ hw' : i.port \in ports /\ (call.append => SpecOf(i) \in call.specs)
    BY <2>1, WrittenFacts
  <2>3. \A i \in hw \ hw' : i \notin cache
    <3>1. CASE call.kind = "deploy"
      BY <1>7, <2>1, <2>2, <3>1 DEF UncachedFirst, Write
    <3>2. CASE call.kind = "replace"
      <4>1. \A i \in hw \ hw' : i.alias \in SpecAliases(call.specs)
        <5>1. call.append
          BY <1>7, <3>2 DEF UncachedFirst, Write
        <5>2. \A i : SpecOf(i).alias = i.alias
          BY DEF SpecOf
        <5> QED
          BY <2>2, <5>1, <5>2 DEF SpecAliases
      <4> QED
        BY <1>7, <3>2, <4>1 DEF UncachedFirst, Write
    <3> QED
      BY <1>7, <3>1, <3>2 DEF StageInv, Write
  <2> QED
    BY <2>1, <2>3 DEF CacheTruth, OneInstrumentPerAlias
<1>8. CASE Publish
  <2>1. CASE cache' \in Published
    <3>1. cache' \subseteq cache \cup call.listed /\ Indexable(cache')
      BY <1>8, <2>1, PublishedFacts DEF Publish, StageInv
    <3> QED
      BY <1>8, <3>1 DEF Publish, ReadTruth, CacheTruth, OneInstrumentPerAlias
  <2>2. CASE cache' = cache
    BY <1>8, <2>2, FewerCached DEF Publish
  <2> QED
    BY <1>8, <2>1, <2>2 DEF Publish
<1>9. ASSUME NEW p \in Ports, NEW specs, Foreign(p, specs)
      PROVE  (CacheTruth /\ OneInstrumentPerAlias)'
  BY <1>9 DEF Foreign, CacheTruth, OneInstrumentPerAlias
<1>10. ASSUME UNCHANGED <<hw, cache, foreign>>
       PROVE  (CacheTruth /\ OneInstrumentPerAlias)'
  BY <1>10, FewerCached
<1>11. ASSUME NEW us \in SUBSET Units, Refresh(us)
       PROVE  (CacheTruth /\ OneInstrumentPerAlias)'
  BY <1>11, <1>10 DEF Refresh
<1>12. ASSUME NEW u \in Units, NEW to \in Modes, NEW clear \in BOOLEAN,
              Clear(u) \/ ConfigureMonitorMode(u, to, clear)
       PROVE  (CacheTruth /\ OneInstrumentPerAlias)'
  BY <1>12, <1>10 DEF Clear, ConfigureMonitorMode
<1>13. CASE Connected \/ ModeSet \/ List \/ ReadBack
  BY <1>13, <1>10 DEF Connected, ModeSet, List, ReadBack
<1>14. CASE Done \/ UNCHANGED vars
  BY <1>14, <1>10 DEF Done, vars
<1> QED
  BY <1>1, <1>2, <1>3, <1>4, <1>5, <1>6, <1>7, <1>8, <1>9, <1>11, <1>12, <1>13,
     <1>14, ConfigurationsAssumption, PlacementsAssumption
     DEF Next, Calls, Requests, OtherUsers, Deploy, DeployOne, Modes

\* The inductive invariant holds throughout.
THEOREM Inductive == Spec => []CacheInv
<1>1. Init => CacheInv
  <2> SUFFICES ASSUME Init PROVE CacheInv
    OBVIOUS
  <2>1. StageInv /\ UncachedFirst /\ ReadTruth
    BY DEF Init, Idle, StageInv, UncachedFirst, ReadTruth
  <2>2. CacheTruth /\ OneInstrumentPerAlias
    BY DEF Init, CacheTruth, OneInstrumentPerAlias, Indexable
  <2> QED
    BY InitTypes, <2>1, <2>2 DEF CacheInv
<1>2. CacheInv /\ [Next]_vars => CacheInv'
  BY TypeStep, StageStep, ReadStep, TruthStep DEF CacheInv
<1> QED
  BY <1>1, <1>2, PTL DEF Spec

\* The variables keep their types.
THEOREM TypeCorrect == Spec => []TypeOK
<1>1. CacheInv => TypeOK
  BY DEF CacheInv
<1> QED
  BY Inductive, <1>1, PTL

\* No call on the controller, whichever of its requests fail, leaves an
\* instrument in the cache that the call itself removed from the hardware.
THEOREM CacheTrue == Spec => []CacheTruth
<1>1. CacheInv => CacheTruth
  BY DEF CacheInv
<1> QED
  BY Inductive, <1>1, PTL

-----------------------------------------------------------------------------
(* What a call did to its scope.                                           *)

\* During a call the cache differs from what it was at the start only in the
\* scope of the call.
KeptInv == Busy => {i \in cache : ~InCallScope(i)} = {i \in call.before : ~InCallScope(i)}

\* Nothing in its scope is cached while a call writes, connects or discards, a
\* refresh has not touched the cache yet, and a unit whose mode is about to be
\* set has no cached instrument.
ScopeCleared ==
    Busy =>
      /\ call.kind # "none" /\ cache \subseteq call.before
      /\ call.kind \in {"deploy", "replace"} => \A i \in cache : ~InCallScope(i)
      /\ call.kind = "connect" => cache = {}
      /\ call.kind = "refresh" => cache = call.before
      /\ call.kind = "mode" /\ (call.stage = "mode" \/ ~call.clear)
            => OnUnits(cache, call.units) = {}
      /\ call.stage = "mode" => call.kind = "mode"

\* What was read back lies in the scope, and a replacement read back all of it.
ListedInv ==
    call.stage \in {"readback", "publish"} =>
      /\ call.kind = "replace"
            => /\ \A i \in call.listed : SpecOf(i) \in call.specs
               /\ call.specs \subseteq {SpecOf(i) : i \in call.listed}
      /\ call.kind = "refresh" => \A i \in call.listed : UnitOf[i.port] \in call.units
      /\ call.kind = "deploy" /\ call.stage = "publish"
            => \A i \in call.listed : i.port \in SpecPorts(call.specs)

\* No instrument is newer than the generation; what has been deployed by a call
\* is newer than what was cached when it began.
NewerInv ==
    /\ \A i \in hw \cup foreign \cup call.before : i.gen <= gen
    /\ call.stage = "list" /\ call.kind = "deploy"
          => \A i \in hw : SpecOf(i) \in call.specs => i \notin call.before
    /\ call.stage \in {"readback", "publish"} /\ call.kind \in {"deploy", "replace"}
          => \A i \in call.listed : SpecOf(i) \in call.specs => i \notin call.before

OutcomeInv == CacheInv /\ KeptInv /\ ScopeCleared /\ ListedInv /\ NewerInv

\* The fields of a call that begins.
LEMMA BeginFields ==
    ASSUME NEW kind, NEW stage
    PROVE  Begin(kind, stage) = [kind |-> kind, specs |-> {}, append |-> FALSE,
                                 units |-> {}, clear |-> FALSE, to |-> "open",
                                 stage |-> stage, try |-> 1, listed |-> {},
                                 before |-> cache, ended |-> "no"]
<1>1. Begin(kind, stage) = [[[Idle("no") EXCEPT !.kind = kind] EXCEPT !.stage = stage]
                            EXCEPT !.before = cache]
  BY DEF Begin, Idle
<1> QED
  BY <1>1 DEF Idle

\* What the publication of a call leaves of the cache, and what it brings.
LEMMA PublishedScope ==
    ASSUME OutcomeInv, call.stage = "publish", NEW new \in Published
    PROVE  /\ {i \in new : ~InCallScope(i)} = {i \in cache : ~InCallScope(i)}
           /\ call.kind \in {"deploy", "replace"}
                => /\ call.listed \subseteq new
                   /\ call.specs \subseteq {SpecOf(i) : i \in call.listed}
<1> USE DEF OutcomeInv, CacheInv, ListedInv, ScopeCleared
<1>1. /\ call.stage # "none" /\ call.kind \in {"connect", "refresh", "deploy", "replace"}
      /\ call.listed \subseteq Instruments /\ cache \subseteq Instruments
  BY DEF StageInv, TypeOK, CallRecords
<1>2. CASE call.kind = "connect"
  BY <1>2 DEF InCallScope
<1>3. CASE call.kind = "refresh"
  <2>1. \A i \in call.listed : InCallScope(i)
    BY <1>3 DEF InCallScope
  <2>2. CASE call.units = Units
    <3>1. new = call.listed
      BY <1>3, <2>2 DEF Published, ReplaceWhole, ReplaceScope
    <3>2. \A i \in cache : InCallScope(i)
      BY <1>1, <1>3, <2>2, UnitOfAssumption DEF InCallScope, Instruments
    <3> QED
      BY <1>3, <2>1, <3>1, <3>2
  <2>3. CASE call.units # Units
    <3>1. new = (cache \ OnUnits(cache, call.units)) \cup call.listed
      BY <1>3, <2>3, ReplaceUnitsFacts DEF Published
    <3>2. \A i : InCallScope(i) <=> UnitOf[i.port] \in call.units
      BY <1>3 DEF InCallScope
    <3> QED
      BY <1>3, <2>1, <3>1, <3>2 DEF OnUnits
  <2> QED
    BY <2>2, <2>3
<1>4. CASE call.kind = "deploy"
  <2>1. /\ new = (cache \ OnPorts(cache, SpecPorts(call.specs))) \cup call.listed
        /\ call.specs \subseteq {SpecOf(i) : i \in call.listed}
    BY <1>4, ReplacePortsFacts DEF Published
  <2>2. \A i : InCallScope(i) <=> i.port \in SpecPorts(call.specs)
    BY <1>4 DEF InCallScope
  <2>3. \A i \in call.listed : InCallScope(i)
    BY <1>4, <2>2
  <2> QED
    BY <1>4, <2>1, <2>2, <2>3 DEF OnPorts
<1>5. CASE call.kind = "replace"
  <2>1. new = (cache \ OfAliases(cache, SpecAliases(call.specs))) \cup call.listed
    BY <1>5, ReplaceAliasesFacts DEF Published
  <2>2. \A i : InCallScope(i) <=> i.alias \in SpecAliases(call.specs)
    BY <1>5 DEF InCallScope
  <2>3. \A i \in call.listed : InCallScope(i)
    <3>1. \A i : SpecOf(i).alias = i.alias
      BY DEF SpecOf
    <3>2. \A i \in call.listed : SpecOf(i) \in call.specs
      BY <1>5
    <3>3. \A i \in call.listed : i.alias \in SpecAliases(call.specs)
      BY <3>1, <3>2 DEF SpecAliases
    <3> QED
      BY <2>2, <3>3
  <2> QED
    BY <1>1, <1>5, <2>1, <2>2, <2>3 DEF OfAliases
<1> QED
  BY <1>1, <1>2, <1>3, <1>4, <1>5

\* What is on the hardware after a write is new or was there before.
LEMMA WrittenNew ==
    ASSUME TypeOK, NEW specs \in SUBSET Specs, NEW ports, NEW append \in BOOLEAN,
           NEW i \in Written(specs, ports, append)
    PROVE  \/ i \in hw /\ (i.port \in ports => append /\ SpecOf(i) \notin {s \in specs : s.port \in ports})
           \/ i.gen = gen + 1 /\ SpecOf(i) \in specs /\ i.port \in ports
  BY DEF Written, SpecOf, Specs

\* Generations only grow, so that what was no newer than them stays so.
LEMMA NoNewer ==
    ASSUME TypeOK, NewerInv, NEW specs \in SUBSET Specs, NEW ports,
           NEW append \in BOOLEAN, hw' = Written(specs, ports, append),
           gen' = gen + 1
    PROVE  /\ \A i \in hw' \cup hw \cup foreign \cup call.before : i.gen <= gen'
           /\ \A i \in hw' : i \notin hw => i \notin call.before
<1>1. gen \in Nat /\ hw \subseteq Instruments /\ foreign \subseteq Instruments
      /\ call.before \subseteq Instruments
  BY DEF TypeOK, CallRecords
<1>2. \A i \in hw' : i \in hw \/ i.gen = gen + 1
  BY WrittenNew
<1>3. \A i \in hw \cup foreign \cup call.before : i.gen \in Nat /\ i.gen <= gen
  BY <1>1 DEF NewerInv, Instruments
<1>4. \A i \in hw' \cup hw \cup foreign \cup call.before : i.gen <= gen + 1
  BY <1>1, <1>2, <1>3
<1>5. \A i \in hw' : i \notin hw => i \notin call.before
  BY <1>1, <1>2, <1>3
<1> QED
  BY <1>4, <1>5

\* The start of a call: nothing outside its scope has left the cache yet.
LEMMA StartStep ==
    ASSUME OutcomeInv, Calls
    PROVE  (KeptInv /\ ScopeCleared /\ ListedInv /\ NewerInv)'
<1> USE BeginFields DEF Busy
<1>0. /\ TypeOK /\ NewerInv /\ cache \subseteq hw \cup foreign
      /\ \A i \in cache : i.gen <= gen
  BY DEF OutcomeInv, CacheInv, CacheTruth, NewerInv
<1>1. ASSUME NEW us \in SUBSET Units, Connect(us)
      PROVE  (KeptInv /\ ScopeCleared /\ ListedInv /\ NewerInv)'
  <2>1. /\ call'.kind = "connect" /\ call'.stage = "probe" /\ call'.before = cache
        /\ cache' = {}
    BY <1>1 DEF Connect
  <2>2. \A i : InCallScope(i)'
    BY <2>1 DEF InCallScope
  <2> QED
    BY <1>0, <1>1, <2>1, <2>2 DEF Connect, KeptInv, ScopeCleared, ListedInv, NewerInv
<1>2. CASE Disconnect
  <2>1. call'.stage = "none" /\ call'.before = {}
    BY <1>2 DEF Disconnect, Ends, Idle
  <2> QED
    BY <1>0, <1>2, <2>1 DEF Disconnect, KeptInv, ScopeCleared, ListedInv, NewerInv
<1>3. ASSUME NEW specs \in SUBSET Specs, NEW append \in BOOLEAN, BeginDeploy(specs, append)
      PROVE  (KeptInv /\ ScopeCleared /\ ListedInv /\ NewerInv)'
  <2>1. /\ call'.kind = "deploy" /\ call'.stage = "write" /\ call'.before = cache
        /\ call'.specs = specs
    BY <1>3 DEF BeginDeploy
  <2>2. cache' = cache \ OnPorts(cache, SpecPorts(specs))
    BY <1>3, ReplacePortsFacts DEF BeginDeploy
  <2>3. \A i : InCallScope(i)' <=> i.port \in SpecPorts(specs)
    BY <2>1 DEF InCallScope, SpecPorts
  <2> QED
    BY <1>0, <1>3, <2>1, <2>2, <2>3
       DEF BeginDeploy, KeptInv, ScopeCleared, ListedInv, NewerInv, OnPorts
<1>4. ASSUME NEW spec \in Specs, Replace(spec)
      PROVE  (KeptInv /\ ScopeCleared /\ ListedInv /\ NewerInv)'
  <2>1. /\ call'.kind = "replace" /\ call'.stage = "write" /\ call'.before = cache
        /\ call'.specs = {spec}
    BY <1>4 DEF Replace
  <2>2. cache' = cache \ OfAliases(cache, {spec.alias})
    BY <1>4, ReplaceAliasesFacts DEF Replace
  <2>3. \A i : InCallScope(i)' <=> i.alias = spec.alias
    BY <2>1 DEF InCallScope, SpecAliases
  <2> QED
    BY <1>0, <1>4, <2>1, <2>2, <2>3
       DEF Replace, KeptInv, ScopeCleared, ListedInv, NewerInv, OfAliases
<1>5. ASSUME NEW us \in SUBSET Units, Refresh(us)
      PROVE  (KeptInv /\ ScopeCleared /\ ListedInv /\ NewerInv)'
  <2>1. /\ call'.kind = "refresh" /\ call'.stage = "list" /\ call'.before = cache
        /\ cache' = cache
    BY <1>5 DEF Refresh
  <2> QED
    BY <1>0, <1>5, <2>1 DEF Refresh, KeptInv, ScopeCleared, ListedInv, NewerInv
<1>6. ASSUME NEW u \in Units, Clear(u)
      PROVE  (KeptInv /\ ScopeCleared /\ ListedInv /\ NewerInv)'
  <2>1. /\ call'.kind = "clear" /\ call'.stage = "probe" /\ call'.before = cache
        /\ cache' = cache
    BY <1>6 DEF Clear
  <2> QED
    BY <1>0, <1>6, <2>1 DEF Clear, KeptInv, ScopeCleared, ListedInv, NewerInv
<1>7. ASSUME NEW u \in Units, NEW to \in Modes, NEW clear \in BOOLEAN,
             ConfigureMonitorMode(u, to, clear)
      PROVE  (KeptInv /\ ScopeCleared /\ ListedInv /\ NewerInv)'
  <2>1. /\ call'.kind = "mode" /\ call'.stage = "probe" /\ call'.before = cache
        /\ call'.units = {u} /\ call'.clear = clear
        /\ cache' = cache /\ (clear \/ OnUnits(cache, {u}) = {})
    BY <1>7 DEF ConfigureMonitorMode
  <2> QED
    BY <1>0, <1>7, <2>1
       DEF ConfigureMonitorMode, KeptInv, ScopeCleared, ListedInv, NewerInv, OnUnits
<1> QED
  BY <1>1, <1>2, <1>3, <1>4, <1>5, <1>6, <1>7, ConfigurationsAssumption
     DEF Calls, Deploy, DeployOne

\* A call that has ended has no scope.
LEMMA EndStep ==
    ASSUME OutcomeInv, call' = Idle("ok") \/ call' = Idle("error"),
           \A i \in hw' \cup foreign' : i.gen <= gen'
    PROVE  (KeptInv /\ ScopeCleared /\ ListedInv /\ NewerInv)'
<1>1. call'.stage = "none" /\ call'.before = {}
  BY DEF Idle
<1> QED
  BY <1>1 DEF KeptInv, ScopeCleared, ListedInv, NewerInv, Busy

\* A step that keeps kind and scope of the call, cache and hardware.
LEMMA SameScope ==
    ASSUME NEW stage, NEW listed, call \in CallRecords,
           \/ call' = [call EXCEPT !.stage = stage]
           \/ call' = [call EXCEPT !.stage = stage, !.listed = listed]
    PROVE  /\ call'.kind = call.kind /\ call'.specs = call.specs
           /\ call'.units = call.units /\ call'.before = call.before
           /\ call'.clear = call.clear /\ call'.append = call.append
           /\ call'.stage = stage
           /\ \A i : InCallScope(i)' <=> InCallScope(i)
<1>1. /\ call'.kind = call.kind /\ call'.specs = call.specs
      /\ call'.units = call.units /\ call'.before = call.before
      /\ call'.clear = call.clear /\ call'.append = call.append
      /\ call'.stage = stage
  BY DEF CallRecords
<1> QED
  BY <1>1 DEF InCallScope, SpecPorts, SpecAliases

\* The requests of a call.
LEMMA RequestStep ==
    ASSUME OutcomeInv, Requests
    PROVE  (KeptInv /\ ScopeCleared /\ ListedInv /\ NewerInv)'
<1>0. /\ TypeOK /\ StageInv /\ UncachedFirst /\ KeptInv /\ ScopeCleared
      /\ ListedInv /\ NewerInv /\ call \in CallRecords /\ CacheTruth
      /\ \A i \in hw \cup foreign : i.gen <= gen
  BY DEF OutcomeInv, CacheInv, TypeOK, NewerInv
<1> USE <1>0
<1> DEFINE Goal == (KeptInv /\ ScopeCleared /\ ListedInv /\ NewerInv)'
<1>1. CASE RequestFails
  BY <1>1, EndStep DEF RequestFails, Fails
<1>2. CASE Connected
  <2>1. CASE call.units = {}
    BY <1>2, <2>1, EndStep DEF Connected, Ends
  <2>2. CASE call.units # {}
    <3>1. call' = [call EXCEPT !.stage = "list"]
      BY <1>2, <2>2 DEF Connected
    <3> QED
      BY <1>2, <3>1, SameScope DEF Connected, KeptInv, ScopeCleared, ListedInv,
         NewerInv, Busy
  <2> QED
    BY <2>1, <2>2
<1>3. CASE Discovered
  <2>1. CASE call.kind = "mode" /\ ~call.clear
    <3>1. CASE call' = Idle("ok")
      BY <1>3, <3>1, EndStep DEF Discovered
    <3>2. CASE call' = [call EXCEPT !.stage = "mode"]
      BY <1>3, <2>1, <3>2, SameScope DEF Discovered, KeptInv, ScopeCleared, ListedInv,
         NewerInv, Busy, OnUnits
    <3> QED
      BY <1>3, <2>1, <3>1, <3>2 DEF Discovered, Ends
  <2>2. CASE ~(call.kind = "mode" /\ ~call.clear)
    <3>1. /\ call' = [call EXCEPT !.stage = "discard"]
          /\ cache' = cache \ OnUnits(cache, call.units)
          /\ call.kind \in {"clear", "mode"}
      BY <1>3, <2>2, ReplaceUnitsFacts DEF Discovered
    <3>2. \A i : InCallScope(i) <=> UnitOf[i.port] \in call.units
      BY <3>1 DEF InCallScope
    <3>3. /\ call'.kind = call.kind /\ call'.units = call.units
          /\ call'.before = call.before /\ call'.clear = call.clear
          /\ call'.stage = "discard"
          /\ \A i : InCallScope(i)' <=> InCallScope(i)
      BY <3>1, SameScope
    <3>4. /\ hw' = hw /\ foreign' = foreign /\ gen' = gen /\ call.stage = "probe"
      BY <1>3 DEF Discovered
    <3>5. KeptInv'
      BY <3>1, <3>2, <3>3, <3>4 DEF KeptInv, Busy, OnUnits
    <3>6. ScopeCleared'
      BY <2>2, <3>1, <3>3, <3>4 DEF ScopeCleared, Busy, OnUnits
    <3>7. ListedInv' /\ NewerInv'
      BY <3>1, <3>3, <3>4 DEF ListedInv, NewerInv
    <3> QED
      BY <3>5, <3>6, <3>7
  <2> QED
    BY <2>1, <2>2
<1>4. CASE ModeSet
  BY <1>4, EndStep DEF ModeSet, Ends, Fails
<1>5. CASE List
  <2>1. /\ call' = [call EXCEPT !.stage = "readback", !.listed = InScope(hw)]
        /\ call'.listed = InScope(hw) /\ InScope(hw) \subseteq hw
        /\ call.kind \in {"connect", "refresh", "deploy"}
        /\ cache' = cache /\ hw' = hw /\ foreign' = foreign /\ gen' = gen
        /\ call.stage = "list"
    BY <1>5 DEF List, CallRecords, InScope, OnUnits, StageInv
  <2>2. call.kind = "refresh" => \A i \in InScope(hw) : UnitOf[i.port] \in call.units
    BY DEF InScope, OnUnits
  <2>3. /\ call'.kind = call.kind /\ call'.specs = call.specs
        /\ call'.units = call.units /\ call'.before = call.before
        /\ call'.clear = call.clear /\ call'.stage = "readback"
        /\ \A i : InCallScope(i)' <=> InCallScope(i)
    BY <2>1, SameScope
  <2> QED
    BY <2>1, <2>2, <2>3 DEF KeptInv, ScopeCleared, ListedInv, NewerInv, Busy
<1>6. CASE ReadBack
  <2> DEFINE L == IF call.kind = "deploy"
                  THEN OnPorts(call.listed, SpecPorts(call.specs)) ELSE call.listed
  <2>1. /\ call' = [call EXCEPT !.stage = "publish", !.listed = L]
        /\ call'.listed = L /\ L \subseteq call.listed
        /\ call.kind \in {"connect", "refresh", "deploy", "replace"}
        /\ cache' = cache /\ hw' = hw /\ foreign' = foreign /\ gen' = gen
        /\ call.stage = "readback"
    BY <1>6 DEF ReadBack, CallRecords, OnPorts, StageInv
  <2>2. call.kind = "deploy" => \A i \in L : i.port \in SpecPorts(call.specs)
    BY DEF OnPorts
  <2>3. call.kind # "deploy" => L = call.listed
    OBVIOUS
  <2> HIDE DEF L
  <2>4. /\ call'.kind = call.kind /\ call'.specs = call.specs
        /\ call'.units = call.units /\ call'.before = call.before
        /\ call'.clear = call.clear /\ call'.stage = "publish"
        /\ SpecPorts(call'.specs) = SpecPorts(call.specs)
        /\ \A i : InCallScope(i)' <=> InCallScope(i)
    BY <2>1, SameScope
  <2>5. KeptInv' /\ ScopeCleared'
    BY <2>1, <2>4 DEF KeptInv, ScopeCleared, Busy
  <2>6. ListedInv' /\ NewerInv'
    BY <2>1, <2>2, <2>3, <2>4 DEF ListedInv, NewerInv, SpecPorts
  <2> QED
    BY <2>5, <2>6
<1>7. CASE Publish
  BY <1>7, EndStep DEF Publish, Ends, Fails
<1>8. ASSUME NEW ports \in SUBSET Ports, Discard(ports) PROVE Goal
  <2>1. /\ hw' \subseteq hw /\ foreign' = foreign /\ gen' = gen /\ cache' = cache
        /\ call.stage = "discard"
    BY <1>8 DEF Discard
  <2>2. CASE call' = Idle("ok") \/ call' = Idle("error")
    BY <2>1, <2>2, EndStep
  <2>3. CASE call.kind = "mode" /\ call' = [call EXCEPT !.stage = "mode"]
    BY <2>1, <2>3, SameScope DEF KeptInv, ScopeCleared, ListedInv, NewerInv, Busy,
       UncachedFirst, OnUnits
  <2> QED
    BY <1>8, <2>2, <2>3 DEF Discard, Ends, Fails, StageInv
<1>9. ASSUME NEW ports \in SUBSET Ports, Write(ports) PROVE Goal
  <2>1. /\ hw' = Written(call.specs, ports, call.append) /\ gen' = gen + 1
        /\ cache' = cache /\ foreign' = foreign /\ call.stage = "write"
        /\ call.specs \in SUBSET Specs /\ call.append \in BOOLEAN
        /\ call.kind \in {"deploy", "replace"} /\ gen \in Nat
    BY <1>9 DEF Write, CallRecords, StageInv, TypeOK
  <2>2. /\ \A i \in hw' \cup hw \cup foreign \cup call.before : i.gen <= gen'
        /\ \A i \in hw' : i \notin hw => i \notin call.before
    BY <2>1, NoNewer
  <2>3. CASE call' = Idle("error")
    BY <2>1, <2>2, <2>3, EndStep
  <2>4. CASE ports = SpecPorts(call.specs) /\ call' # Idle("error")
             /\ call'.stage \in {"list", "readback"}
    <3>1. \A i \in hw' : SpecOf(i) \in call.specs => i \notin call.before
      <4> SUFFICES ASSUME NEW i \in hw', SpecOf(i) \in call.specs
                   PROVE  i \notin call.before
        OBVIOUS
      <4>1. SpecOf(i).port = i.port
        BY DEF SpecOf
      <4>2. i.port \in ports
        BY <2>4, <4>1 DEF SpecPorts
      <4>3. SpecOf(i) \in {s \in call.specs : s.port \in ports}
        BY <4>1, <4>2
      <4>4. i.gen = gen + 1
        BY <2>1, <4>2, <4>3, WrittenNew
      <4>5. i \in call.before => i.gen <= gen /\ i.gen \in Nat
        BY DEF NewerInv, CallRecords, Instruments
      <4> QED
        BY <2>1, <4>4, <4>5
    <3>2. CASE call.kind = "replace"
      <4> DEFINE L == {i \in hw' : SpecOf(i) \in call.specs}
      <4>1. call' = [call EXCEPT !.stage = "readback", !.listed = L]
        BY <1>9, <2>4, <3>2 DEF Write, Fails, CallRecords
      <4>2. call'.listed = L
        BY <4>1 DEF CallRecords
      <4>3. call.specs \subseteq {SpecOf(i) : i \in L}
        <5> SUFFICES ASSUME NEW s \in call.specs
                     PROVE  \E i \in L : SpecOf(i) = s
          OBVIOUS
        <5> DEFINE new == [alias |-> s.alias, port |-> s.port, gen |-> gen + 1]
        <5>1. s.port \in ports
          BY <2>4 DEF SpecPorts
        <5>2. new \in hw'
          BY <2>1, <5>1 DEF Written
        <5>3. SpecOf(new) = s
          BY <2>1 DEF SpecOf, Specs
        <5> QED
          BY <5>2, <5>3
      <4>4. \A i \in L : SpecOf(i) \in call.specs /\ i \notin call.before
        BY <3>1
      <4> HIDE DEF L
      <4>5. /\ call'.kind = call.kind /\ call'.specs = call.specs
            /\ call'.units = call.units /\ call'.before = call.before
            /\ call'.clear = call.clear /\ call'.stage = "readback"
            /\ \A i : InCallScope(i)' <=> InCallScope(i)
        BY <4>1, SameScope
      <4>6. KeptInv' /\ ScopeCleared'
        BY <2>1, <3>2, <4>5 DEF KeptInv, ScopeCleared, Busy
      <4>7. ListedInv'
        BY <3>2, <4>2, <4>3, <4>4, <4>5 DEF ListedInv
      <4>8. NewerInv'
        BY <2>1, <2>2, <3>2, <4>2, <4>4, <4>5 DEF NewerInv
      <4> QED
        BY <4>6, <4>7, <4>8
    <3>3. CASE call.kind # "replace"
      <4>1. call' = [call EXCEPT !.stage = "list"]
        BY <1>9, <2>4, <3>3 DEF Write, Fails, CallRecords
      <4>2. /\ call'.kind = call.kind /\ call'.specs = call.specs
            /\ call'.units = call.units /\ call'.before = call.before
            /\ call'.clear = call.clear /\ call'.stage = "list"
            /\ \A i : InCallScope(i)' <=> InCallScope(i)
        BY <4>1, SameScope
      <4>3. KeptInv' /\ ScopeCleared'
        BY <2>1, <4>2 DEF KeptInv, ScopeCleared, Busy
      <4>4. ListedInv' /\ NewerInv'
        BY <2>1, <2>2, <3>1, <4>2 DEF ListedInv, NewerInv
      <4> QED
        BY <4>3, <4>4
    <3> QED
      BY <3>2, <3>3
  <2>5. CASE call' = [call EXCEPT !.try = @ + 1]
    <3>1. /\ call'.kind = call.kind /\ call'.specs = call.specs
          /\ call'.units = call.units /\ call'.before = call.before
          /\ call'.clear = call.clear /\ call'.stage = call.stage
      BY <2>5 DEF CallRecords
    <3>2. \A i : InCallScope(i)' <=> InCallScope(i)
      BY <3>1 DEF InCallScope, SpecPorts, SpecAliases
    <3>3. KeptInv' /\ ScopeCleared'
      BY <2>1, <3>1, <3>2 DEF KeptInv, ScopeCleared, Busy
    <3>4. ListedInv' /\ NewerInv'
      BY <2>1, <2>2, <3>1 DEF ListedInv, NewerInv
    <3> QED
      BY <3>3, <3>4
  <2> QED
    BY <1>9, <2>3, <2>4, <2>5 DEF Write, Fails, CallRecords
<1> QED
  BY <1>1, <1>2, <1>3, <1>4, <1>5, <1>6, <1>7, <1>8, <1>9 DEF Requests

\* Another user changes only the hardware, and what it leaves there is new.
LEMMA ForeignStep ==
    ASSUME OutcomeInv, NEW p \in Ports, NEW specs \in SUBSET Specs, Foreign(p, specs)
    PROVE  (KeptInv /\ ScopeCleared /\ ListedInv /\ NewerInv)'
<1>1. /\ hw' = Written(specs, {p}, FALSE) /\ gen' = gen + 1
      /\ foreign' = foreign \cup (hw \ hw') /\ cache' = cache /\ call' = call
  BY DEF Foreign
<1>2. /\ \A i \in hw' \cup hw \cup foreign \cup call.before : i.gen <= gen'
      /\ \A i \in hw' : i \notin hw => i \notin call.before
  BY <1>1, NoNewer DEF OutcomeInv, CacheInv
<1>3. \A i : InCallScope(i)' <=> InCallScope(i)
  BY <1>1 DEF InCallScope, SpecPorts, SpecAliases
<1>4. KeptInv' /\ ScopeCleared' /\ ListedInv'
  BY <1>1, <1>3 DEF OutcomeInv, KeptInv, ScopeCleared, ListedInv, Busy, OnUnits, SpecPorts
<1>5. NewerInv'
  BY <1>1, <1>2 DEF OutcomeInv, NewerInv
<1> QED
  BY <1>4, <1>5

\* Every step keeps what is known of the scope of the call.
LEMMA OutcomeStep == OutcomeInv /\ [Next]_vars => OutcomeInv'
<1> SUFFICES ASSUME OutcomeInv, [Next]_vars PROVE OutcomeInv'
  OBVIOUS
<1>1. CacheInv'
  BY TypeStep, StageStep, ReadStep, TruthStep DEF OutcomeInv, CacheInv
<1>2. CASE Calls
  BY <1>1, <1>2, StartStep DEF OutcomeInv
<1>3. CASE Requests
  BY <1>1, <1>3, RequestStep DEF OutcomeInv
<1>4. CASE OtherUsers
  BY <1>1, <1>4, ForeignStep, PlacementsAssumption DEF OutcomeInv, OtherUsers
<1>5. CASE Done \/ UNCHANGED vars
  BY <1>1, <1>5
     DEF Done, vars, OutcomeInv, KeptInv, ScopeCleared, ListedInv, NewerInv, Busy,
         InCallScope, SpecPorts, SpecAliases, OnUnits
<1> QED
  BY <1>2, <1>3, <1>4, <1>5 DEF Next

\* What is known of the scope of the call holds throughout.
THEOREM OutcomeInductive == Spec => []OutcomeInv
<1>1. Init /\ CacheInv => OutcomeInv
  <2> SUFFICES ASSUME Init, CacheInv PROVE OutcomeInv
    OBVIOUS
  <2>1. call.stage = "none" /\ call.before = {} /\ foreign = {} /\ gen = 0
        /\ \A i \in hw : i.gen = 0
    BY DEF Init, Idle
  <2> QED
    BY <2>1 DEF OutcomeInv, KeptInv, ScopeCleared, ListedInv, NewerInv, Busy
<1> QED
  BY Inductive, <1>1, OutcomeStep, PTL DEF Spec

\* A call, however it ends, leaves the cache entries outside its scope as they
\* were when it began.
THEOREM ScopesKept == Spec => OutOfScopeKept
<1>1. OutcomeInv /\ [Next]_vars
        => [Busy => {i \in cache' : ~InCallScope(i)}
                    = {i \in call.before : ~InCallScope(i)}]_vars
  <2> SUFFICES ASSUME OutcomeInv, [Next]_vars, Busy
               PROVE  {i \in cache' : ~InCallScope(i)}
                      = {i \in call.before : ~InCallScope(i)}
    OBVIOUS
  <2>1. {i \in cache : ~InCallScope(i)} = {i \in call.before : ~InCallScope(i)}
    BY DEF OutcomeInv, KeptInv
  <2>2. CASE cache' = cache
    BY <2>1, <2>2
  <2>3. CASE RequestFails
    BY <2>1, <2>3 DEF RequestFails, InCallScope
  <2>4. CASE Discovered
    <3>1. CASE cache' = cache \ OnUnits(cache, call.units)
      <4>1. \A i : InCallScope(i) <=> UnitOf[i.port] \in call.units
        BY <2>4 DEF Discovered, InCallScope
      <4> QED
        BY <2>1, <3>1, <4>1 DEF OnUnits
    <3> QED
      BY <2>2, <2>4, <3>1, ReplaceUnitsFacts DEF Discovered
  <2>5. CASE Publish
    <3>1. CASE cache' \in Published
      BY <2>1, <2>5, <3>1, PublishedScope DEF Publish
    <3> QED
      BY <2>2, <2>5, <3>1 DEF Publish
  <2>6. cache' = cache \/ RequestFails \/ Discovered \/ Publish
    BY DEF Next, Calls, Requests, OtherUsers, Done, vars, Busy, Starting, Connect,
           Disconnect, Deploy, DeployOne, BeginDeploy, Replace, Refresh, Clear,
           ConfigureMonitorMode, Connected, ModeSet, List, ReadBack, Discard, Write,
           Foreign
  <2> QED
    BY <2>2, <2>3, <2>4, <2>5, <2>6
<1> QED
  BY OutcomeInductive, <1>1, PTL DEF Spec, OutOfScopeKept

\* The monitor mode of a unit changes only when no instrument of it is cached and
\* none is deployed.
THEOREM ModesChangeOnEmptyUnits == Spec => ModeChangesOnEmptyUnit
<1>1. OutcomeInv /\ [Next]_vars
        => [\A u \in Units : mode'[u] # mode[u]
              => OnUnits(cache, {u}) = {} /\ OnUnits(hw, {u}) = {}]_vars
  <2> SUFFICES ASSUME OutcomeInv, [Next]_vars, NEW u \in Units, mode'[u] # mode[u]
               PROVE  OnUnits(cache, {u}) = {} /\ OnUnits(hw, {u}) = {}
    OBVIOUS
  <2>1. ModeSet
    BY DEF Next, Calls, Requests, OtherUsers, Done, vars, Connect,
           Disconnect, Deploy, DeployOne, BeginDeploy, Replace, Refresh, Clear,
           ConfigureMonitorMode, RequestFails, Connected, Discovered, List, ReadBack,
           Publish, Discard, Write, Foreign
  <2>2. u \in call.units
    BY <2>1 DEF ModeSet, OutcomeInv, CacheInv, TypeOK
  <2>3. OnUnits(cache, call.units) = {} /\ OnUnits(hw, call.units) = {}
    BY <2>1 DEF ModeSet, OutcomeInv, ScopeCleared, Busy
  <2> QED
    BY <2>2, <2>3 DEF OnUnits
<1> QED
  BY OutcomeInductive, <1>1, PTL DEF Spec, ModeChangesOnEmptyUnit

\* The cache tells how a call went: nothing of its scope is cached after a write
\* or a connect that failed, everything as it was after a refresh that failed, and
\* the new instruments after a deployment that succeeded.
THEOREM CacheTellsHowCallsWent == Spec => CacheTellsOutcome
<1>1. OutcomeInv /\ [Next]_vars
        => [/\ EndsWith("error") =>
                 CASE call.kind \in {"deploy", "replace", "connect"} ->
                         \A i \in cache' : ~InCallScope(i)
                   [] call.kind = "refresh" -> cache' = call.before
                   [] call.stage = "discard" -> \A i \in cache' : ~InCallScope(i)
                   [] OTHER -> cache' \subseteq call.before
            /\ (EndsWith("ok") /\ call.kind \in {"deploy", "replace"}) =>
                 \A s \in call.specs :
                     \E i \in cache' :
                         SpecOf(i) = s /\ i \in (hw \cup foreign) \ call.before]_vars
  <2> SUFFICES ASSUME OutcomeInv, [Next]_vars
               PROVE  /\ EndsWith("error") =>
                           CASE call.kind \in {"deploy", "replace", "connect"} ->
                                   \A i \in cache' : ~InCallScope(i)
                             [] call.kind = "refresh" -> cache' = call.before
                             [] call.stage = "discard" -> \A i \in cache' : ~InCallScope(i)
                             [] OTHER -> cache' \subseteq call.before
                      /\ (EndsWith("ok") /\ call.kind \in {"deploy", "replace"}) =>
                           \A s \in call.specs :
                               \E i \in cache' :
                                   SpecOf(i) = s
                                   /\ i \in (hw \cup foreign) \ call.before
    OBVIOUS
  <2>0. call \in CallRecords /\ StageInv /\ UncachedFirst /\ ScopeCleared /\ KeptInv
    BY DEF OutcomeInv, CacheInv, TypeOK
  <2>1. ASSUME EndsWith("error")
        PROVE  CASE call.kind \in {"deploy", "replace", "connect"} ->
                       \A i \in cache' : ~InCallScope(i)
                 [] call.kind = "refresh" -> cache' = call.before
                 [] call.stage = "discard" -> \A i \in cache' : ~InCallScope(i)
                 [] OTHER -> cache' \subseteq call.before
    <3>1. Busy /\ call'.stage = "none" /\ call'.ended = "error"
      BY <2>1 DEF EndsWith
    <3>2. cache' = cache \/ (call.kind = "connect" /\ cache' = {})
      <4>1. CASE Requests
        <5>1. call' # Idle("ok") /\ Idle("ok").stage = "none"
          BY <3>1 DEF Idle
        <5>2. ~Discovered
          BY <2>0, <3>1, <5>1 DEF Discovered, Ends, CallRecords
        <5>3. Publish => cache' = cache
          BY <5>1 DEF Publish, Ends
        <5> QED
          BY <4>1, <5>2, <5>3
             DEF Requests, RequestFails, Connected, ModeSet, List, ReadBack, Discard, Write
      <4>2. CASE Calls
        BY <3>1, <4>2
           DEF Calls, Busy, Starting, Connect, Disconnect, Deploy, DeployOne,
               BeginDeploy, Replace, Refresh, Clear, ConfigureMonitorMode
      <4> QED
        BY <4>1, <4>2 DEF Next, OtherUsers, Foreign, Done, vars
    <3>3. CASE call.kind \in {"deploy", "replace", "connect"}
      BY <2>0, <3>1, <3>2, <3>3 DEF ScopeCleared, InCallScope
    <3>4. CASE call.kind = "refresh"
      <4>1. cache' = call.before
        BY <2>0, <3>1, <3>2, <3>4 DEF ScopeCleared
      <4>2. call.stage # "discard"
        BY <2>0, <3>4 DEF StageInv
      <4> QED
        BY <3>4, <4>1, <4>2
    <3>5. CASE call.kind \notin {"deploy", "replace", "connect", "refresh"}
      <4>1. \A i : InCallScope(i) <=> UnitOf[i.port] \in call.units
        BY <3>5 DEF InCallScope
      <4>2. call.stage = "discard" => \A i \in cache' : ~InCallScope(i)
        BY <2>0, <3>2, <3>5, <4>1 DEF UncachedFirst
      <4>3. cache' \subseteq call.before
        BY <2>0, <3>1, <3>2, <3>5 DEF ScopeCleared
      <4> QED
        BY <3>5, <4>2, <4>3
    <3> QED
      BY <3>3, <3>4, <3>5
  <2>2. ASSUME EndsWith("ok"), call.kind \in {"deploy", "replace"}, NEW s \in call.specs
        PROVE  \E i \in cache' :
                   SpecOf(i) = s /\ i \in (hw \cup foreign) \ call.before
    <3>1. Busy /\ call'.stage = "none" /\ call'.ended = "ok"
      BY <2>2 DEF EndsWith
    <3>2. Publish /\ call.stage = "publish" /\ cache' \in Published
      <4>1. CASE Requests
        <5>1. call' # Idle("error")
          BY <3>1 DEF Idle
        <5>2. ~RequestFails /\ ~Connected /\ ~Discovered
          BY <2>2, <5>1 DEF RequestFails, Fails, Connected, Discovered
        <5>3. ~List /\ ~ReadBack
          BY <2>0, <3>1 DEF List, ReadBack, CallRecords
        <5>4. ~ModeSet
          BY <2>0, <2>2, <3>1 DEF ModeSet, ScopeCleared
        <5>5. \A ports \in SUBSET Ports : ~Discard(ports)
          BY <2>0, <2>2 DEF Discard, StageInv
        <5>6. \A ports \in SUBSET Ports : ~Write(ports)
          BY <2>0, <3>1, <5>1 DEF Write, Fails, CallRecords
        <5>7. Publish => call.stage = "publish" /\ cache' \in Published
          BY <5>1 DEF Publish, Fails
        <5> QED
          BY <4>1, <5>2, <5>3, <5>4, <5>5, <5>6, <5>7 DEF Requests
      <4>2. CASE Calls
        BY <3>1, <4>2
           DEF Calls, Busy, Starting, Connect, Disconnect, Deploy, DeployOne,
               BeginDeploy, Replace, Refresh, Clear, ConfigureMonitorMode
      <4> QED
        BY <3>1, <4>1, <4>2 DEF Next, OtherUsers, Foreign, Done, vars, Busy
    <3>3. /\ call.listed \subseteq cache'
          /\ call.specs \subseteq {SpecOf(i) : i \in call.listed}
      BY <2>2, <3>2, PublishedScope
    <3>4. PICK i \in call.listed : SpecOf(i) = s
      BY <3>3
    <3>5. i \in hw \cup foreign
      BY <3>2 DEF OutcomeInv, CacheInv, ReadTruth
    <3>6. i \notin call.before
      BY <2>2, <3>2, <3>4 DEF OutcomeInv, NewerInv
    <3> QED
      BY <3>3, <3>4, <3>5, <3>6
  <2> QED
    BY <2>1, <2>2
<1> QED
  BY OutcomeInductive, <1>1, PTL DEF Spec, CacheTellsOutcome

-----------------------------------------------------------------------------
(* Quel3Batch.                                                              *)

Answers == {"none", "results", "notFound", "error"}

BatchRecords == [stage : {"waiting", "running", "recover", "refreshing", "refreshed", "done"},
                 attempt : {1, 2}, first : SUBSET Specs, ids : SUBSET Instruments,
                 completed : Nat, used : SUBSET Instruments,
                 refreshed : SUBSET Instruments, answer : Answers]

\* The aliases of the first n executions.
AliasesUpTo(n) == UNION {Plan[r] : r \in 1..n}

Covers(ids) == {i.alias : i \in ids} = BatchAliases

\* How far the batch is, and what it has used to get there.
ProgressInv ==
    /\ batch.used = OfAliases(batch.ids, AliasesUpTo(batch.completed))
    /\ batch.stage = "waiting" => batch.attempt = 1 /\ batch.completed = 0
    /\ batch.stage # "waiting" => Covers(batch.ids)
    /\ batch.stage = "running" => batch.completed < Len(Plan)
    /\ batch.answer = "results" => batch.completed = Len(Plan) /\ batch.stage = "done"
    /\ batch.answer = "notFound" => batch.attempt = 2 /\ batch.stage = "done"
    /\ batch.stage \in {"recover", "refreshing", "refreshed"} => batch.attempt = 1

\* Generations only grow: what is gone does not come back.
GenInv ==
    /\ \A i \in hw : i.gen <= gen
    /\ \A i \in call.listed : i.gen <= gen
    /\ \A i \in batch.refreshed : i.gen <= gen

\* The refresh of a recovery in progress.
RefreshInv ==
    batch.stage = "refreshing" =>
        /\ call.kind = "refresh" /\ call.units = ExpectedUnits /\ call.ended = "no"
        /\ call.stage \in {"list", "readback", "publish"}

\* The replay runs on what the refresh returned, which is in the cache.
ReplayInv ==
    /\ batch.stage # "waiting" => {s.alias : s \in batch.first} = BatchAliases
    /\ batch.stage = "refreshed" => batch.refreshed \subseteq cache /\ call.stage = "none"
    /\ batch.attempt = 2 => /\ {SpecOf(i) : i \in batch.ids} = batch.first
                            /\ batch.ids \subseteq batch.refreshed
    /\ batch.answer = "notFound" => ~(batch.refreshed \subseteq hw)

BatchInv == /\ CacheInv
            /\ batch \in BatchRecords
            /\ ProgressInv
            /\ GenInv
            /\ RefreshInv
            /\ ~ConfigureWhileBusy => ReplayInv

-----------------------------------------------------------------------------
(* Sets of instruments and the plan.                                         *)

LEMMA PlanFacts ==
  /\ Plan \in Seq(SUBSET Aliases) /\ Len(Plan) \in Nat /\ Len(Plan) > 0
  /\ AliasesUpTo(Len(Plan)) = BatchAliases /\ AliasesUpTo(0) = {}
  /\ \A n \in Nat : AliasesUpTo(n + 1) = AliasesUpTo(n) \cup Plan[n + 1]
<1>1. Plan \in Seq(SUBSET Aliases) /\ Len(Plan) \in Nat /\ Len(Plan) > 0
  BY PlanAssumption, EmptySeq
<1>2. AliasesUpTo(Len(Plan)) = BatchAliases /\ AliasesUpTo(0) = {}
  BY DEF AliasesUpTo, BatchAliases
<1>3. ASSUME NEW n \in Nat PROVE AliasesUpTo(n + 1) = AliasesUpTo(n) \cup Plan[n + 1]
  <2>1. 1..(n + 1) = (1..n) \cup {n + 1}
    OBVIOUS
  <2> QED
    BY <2>1 DEF AliasesUpTo
<1> QED
  BY <1>1, <1>2, <1>3

LEMMA PlannedFacts ==
  ASSUME CacheInv, Plannable
  PROVE  LET ids == OfAliases(cache, BatchAliases)
         IN ids \subseteq Instruments /\ ids \subseteq cache /\ Covers(ids)
<1>1. cache \subseteq Instruments
  BY DEF CacheInv, TypeOK
<1> QED
  BY <1>1 DEF OfAliases, Covers, Plannable

LEMMA SpecsOf ==
  ASSUME NEW ids \in SUBSET Instruments
  PROVE  /\ {SpecOf(i) : i \in ids} \subseteq Specs
         /\ {s.alias : s \in {SpecOf(i) : i \in ids}} = {i.alias : i \in ids}
<1>1. \A i \in ids : SpecOf(i) \in Specs /\ SpecOf(i).alias = i.alias
  BY DEF SpecOf, Specs, Instruments
<1> QED
  BY <1>1

LEMMA ExpectedUnitsType ==
  ASSUME batch \in BatchRecords
  PROVE  ExpectedUnits \in SUBSET Units
BY UnitOfAssumption DEF ExpectedUnits, BatchRecords, Specs

-----------------------------------------------------------------------------
(* The instruments beneath the batch.                                        *)

\* What the steps of a batch and of the other threads do to the instruments.
LEMMA StepsBelow ==
  ASSUME [BatchNext]_allVars
  PROVE  [Next]_vars \/ BeginRecovery
BY DEF BatchNext, Batch, Submit, RunSucceeds, RunMisses, RunFails, Recovered, RecoveryRequest,
       UserCalls, UserRequests, BatchDone, NeverSubmitted, Done, Next, Requests, allVars, vars

LEMMA BeginRecoveryBelow ==
  ASSUME BatchInv, BeginRecovery
  PROVE  /\ CacheInv'
         /\ call' = [Begin("refresh", "list") EXCEPT !.units = ExpectedUnits]
         /\ call'.kind = "refresh" /\ call'.stage = "list" /\ call'.units = ExpectedUnits
         /\ call'.ended = "no" /\ call'.listed = {}
<1>1. call'.kind = "refresh" /\ call'.stage = "list" /\ call'.units = ExpectedUnits
      /\ call'.ended = "no" /\ call'.listed = {}
  BY DEF BeginRecovery, Begin, Idle
<1>2. call' \in CallRecords
  BY ExpectedUnitsType, BeginFacts, ScopeType DEF BatchInv, CacheInv, BeginRecovery, Kinds, Stages
<1>3. TypeOK'
  BY <1>2 DEF BatchInv, CacheInv, TypeOK, BeginRecovery
<1>4. StageInv' /\ UncachedFirst' /\ ReadTruth'
  BY <1>1 DEF StageInv, UncachedFirst, ReadTruth
<1>5. CacheTruth' /\ OneInstrumentPerAlias'
  BY DEF BatchInv, CacheInv, CacheTruth, OneInstrumentPerAlias, BeginRecovery
<1> QED
  BY <1>1, <1>3, <1>4, <1>5 DEF CacheInv, BeginRecovery

LEMMA CacheStep ==
  ASSUME BatchInv, [BatchNext]_allVars
  PROVE  CacheInv'
<1>1. CASE BeginRecovery
  BY <1>1, BeginRecoveryBelow
<1>2. CASE [Next]_vars
  BY <1>2, TypeStep, StageStep, ReadStep, TruthStep DEF BatchInv, CacheInv
<1> QED
  BY <1>1, <1>2, StepsBelow

-----------------------------------------------------------------------------
(* Generations.                                                              *)

LEMMA WrittenGens ==
  ASSUME TypeOK, \A i \in hw : i.gen <= gen, NEW specs, NEW ports, NEW append
  PROVE  \A i \in Written(specs, ports, append) : i.gen <= gen + 1 /\ (i.gen <= gen => i \in hw)
BY DEF TypeOK, Instruments, Written

\* The steps below neither bring an instrument back nor list one that never was.
LEMMA GenStep ==
  ASSUME TypeOK, \A i \in hw : i.gen <= gen, \A i \in call.listed : i.gen <= gen,
         [Next]_vars
  PROVE  /\ gen' \in Nat /\ gen <= gen'
         /\ \A i \in hw' : i.gen <= gen' /\ (i.gen <= gen => i \in hw)
         /\ \A i \in call'.listed : i.gen <= gen'
<1>0. gen \in Nat /\ call \in CallRecords /\ hw \subseteq Instruments /\ gen <= gen
  BY DEF TypeOK
<1>1. CASE UNCHANGED <<hw, gen>> /\ (call' = call \/ call'.listed = {}
                                     \/ call'.listed \subseteq call.listed \cup hw)
  BY <1>0, <1>1
<1>2. CASE UNCHANGED vars
  BY <1>1, <1>2 DEF vars
<1>3. CASE Calls
  <2>1. \A kind, stage : Begin(kind, stage).listed = {} /\ Idle("ok").listed = {}
    BY DEF Begin, Idle
  <2>2. CASE \/ \E us : Connect(us) \/ Refresh(us)
             \/ Disconnect \/ \E u : Clear(u)
    BY <1>1, <2>1, <2>2 DEF Connect, Disconnect, Refresh, Clear, Ends, Begin, Idle
  <2>3. CASE \E specs, append : BeginDeploy(specs, append)
    BY <1>1, <2>3 DEF BeginDeploy, Begin, Idle
  <2>4. CASE \/ \E spec : Replace(spec)
             \/ \E u, to, clear : ConfigureMonitorMode(u, to, clear)
    BY <1>1, <2>4 DEF Replace, ConfigureMonitorMode, Begin, Idle
  <2> QED
    BY <1>3, <2>2, <2>3, <2>4 DEF Calls, Deploy, DeployOne
<1>4. CASE RequestFails \/ Connected \/ Discovered \/ ModeSet \/ List \/ ReadBack \/ Publish
  <2>1. UNCHANGED <<hw, gen>>
    BY <1>4 DEF RequestFails, Connected, Discovered, ModeSet, List, ReadBack, Publish
  <2>2. CASE RequestFails \/ Connected \/ Discovered \/ ModeSet \/ Publish
    BY <1>0, <2>2 DEF RequestFails, Connected, Discovered, ModeSet, Publish, Fails, Ends, Idle,
                CallRecords
  <2>3. CASE List
    <3>1. call'.listed = InScope(hw)
      BY <1>0, <2>3 DEF List, CallRecords
    <3>2. InScope(hw) \subseteq hw
      BY DEF InScope, OnUnits
    <3> QED
      BY <1>1, <2>1, <3>1, <3>2
  <2>4. CASE ReadBack
    <3>1. call'.listed = IF call.kind = "deploy"
                         THEN OnPorts(call.listed, SpecPorts(call.specs)) ELSE call.listed
      BY <1>0, <2>4 DEF ReadBack, CallRecords
    <3>2. call'.listed \subseteq call.listed
      BY <3>1 DEF OnPorts
    <3> QED
      BY <1>1, <2>1, <3>2
  <2> QED
    BY <1>1, <1>4, <2>1, <2>2, <2>3, <2>4
<1>5. ASSUME NEW ports \in SUBSET Ports, Discard(ports)
      PROVE  /\ gen' = gen /\ hw' \subseteq hw
             /\ call'.listed = {} \/ call'.listed = call.listed
  BY <1>0, <1>5 DEF Discard, OnPorts, Fails, Ends, Idle, CallRecords
<1>6. ASSUME NEW ports \in SUBSET Ports, Write(ports)
      PROVE  /\ gen' = gen + 1 /\ hw' = Written(call.specs, ports, call.append)
             /\ call'.listed \subseteq call.listed \cup hw'
  <2>1. gen' = gen + 1 /\ hw' = Written(call.specs, ports, call.append)
    BY <1>6 DEF Write
  <2>2. \/ call' = Idle("error")
        \/ call'.listed = call.listed
        \/ call'.listed = {i \in hw' : SpecOf(i) \in call.specs}
    BY <1>0, <1>6 DEF Write, Fails, CallRecords
  <2> QED
    BY <2>1, <2>2 DEF Idle
<1>7. ASSUME NEW p \in Ports, NEW specs, Foreign(p, specs)
      PROVE  gen' = gen + 1 /\ hw' = Written(specs, {p}, FALSE) /\ call' = call
  BY <1>7 DEF Foreign
<1>8. CASE Requests
  <2>1. ASSUME NEW ports \in SUBSET Ports, Write(ports)
        PROVE  \A i \in hw' : i.gen <= gen' /\ (i.gen <= gen => i \in hw)
    BY <1>6, <2>1, WrittenGens
  <2>2. ASSUME NEW i \in Instruments, i.gen <= gen PROVE i.gen <= gen + 1
    BY <1>0, <2>2 DEF Instruments
  <2>3. hw \subseteq Instruments /\ call.listed \subseteq Instruments
    BY <1>0 DEF CallRecords
  <2>4. ASSUME NEW ports \in SUBSET Ports, Write(ports)
        PROVE  /\ gen' = gen + 1
               /\ \A i \in call'.listed : i.gen <= gen'
    BY <1>6, <2>1, <2>2, <2>3, <2>4
  <2>5. CASE \E ports \in SUBSET Ports : Write(ports)
    BY <1>0, <2>1, <2>4, <2>5
  <2>6. CASE \E ports \in SUBSET Ports : Discard(ports)
    BY <1>0, <1>5, <2>6
  <2> QED
    BY <1>4, <1>8, <2>5, <2>6 DEF Requests
<1>9. CASE OtherUsers
  <2>1. PICK p \in Ports, specs \in SUBSET Specs : Foreign(p, specs)
    BY <1>9, PlacementsAssumption DEF OtherUsers
  <2>2. \A i \in hw' : i.gen <= gen' /\ (i.gen <= gen => i \in hw)
    BY <1>7, <2>1, WrittenGens
  <2>3. gen' = gen + 1 /\ call' = call
    BY <1>7, <2>1
  <2>4. call.listed \subseteq Instruments
    BY <1>0 DEF CallRecords
  <2> QED
    BY <1>0, <2>2, <2>3, <2>4 DEF Instruments
<1> QED
  BY <1>2, <1>3, <1>8, <1>9 DEF Next, Done

-----------------------------------------------------------------------------
(* The steps of the batch.                                                   *)

LEMMA BatchRecordStep ==
  ASSUME BatchInv, [BatchNext]_allVars
  PROVE  batch' \in BatchRecords
<1> USE DEF BatchRecords, Answers, Answer
<1>1. CASE Submit \/ Recovered
  <2>1. Plannable => OfAliases(cache, BatchAliases) \subseteq Instruments
    BY PlannedFacts DEF BatchInv
  <2>2. Plannable => Planned \in BatchRecords
    BY <2>1 DEF BatchInv, Planned
  <2>3. Plannable => {SpecOf(i) : i \in Planned.ids} \subseteq Specs
    BY <2>2, SpecsOf
  <2> QED
    BY <1>1, <2>2, <2>3 DEF BatchInv, Submit, Recovered
<1>2. CASE RunSucceeds \/ RunMisses \/ RunFails
  <2>1. RunIds \subseteq Instruments
    BY DEF BatchInv, RunIds, OfAliases
  <2>2. CASE RunSucceeds
    <3>1. batch.completed + 1 \in Nat /\ batch.used \cup RunIds \subseteq Instruments
      BY <2>1 DEF BatchInv
    <3> QED
      BY <2>2, <3>1 DEF BatchInv, RunSucceeds
  <2> QED
    BY <1>2, <2>2 DEF BatchInv, RunMisses, RunFails
<1>3. CASE BeginRecovery
  BY <1>3 DEF BatchInv, BeginRecovery
<1>4. CASE RecoveryRequest
  BY <1>4 DEF BatchInv, CacheInv, TypeOK, CallRecords, RecoveryRequest
<1>5. CASE UNCHANGED batch
  BY <1>5 DEF BatchInv
<1> QED
  BY <1>1, <1>2, <1>3, <1>4, <1>5 DEF BatchNext, Batch, UserCalls, UserRequests, BatchDone,
                                      NeverSubmitted, allVars

LEMMA ProgressStep ==
  ASSUME BatchInv, [BatchNext]_allVars
  PROVE  ProgressInv'
<1>1. CASE Submit
  <2>1. /\ batch'.ids = OfAliases(cache, BatchAliases) /\ batch'.completed = 0
        /\ batch'.used = {} /\ batch'.stage = "running"
        /\ batch'.attempt = batch.attempt /\ batch'.answer = batch.answer
    BY <1>1 DEF BatchInv, BatchRecords, Submit, Planned
  <2> QED
    BY <1>1, <2>1, PlannedFacts, PlanFacts DEF BatchInv, ProgressInv, Submit, OfAliases
<1>2. CASE Recovered
  <2>1. CASE Plannable /\ batch' = [Planned EXCEPT !.attempt = 2]
    <3>1. /\ batch'.ids = OfAliases(cache, BatchAliases) /\ batch'.completed = 0
          /\ batch'.used = {} /\ batch'.stage = "running"
          /\ batch'.attempt = 2 /\ batch'.answer = batch.answer
      BY <2>1 DEF BatchInv, BatchRecords, Planned
    <3> QED
      BY <1>2, <2>1, <3>1, PlannedFacts, PlanFacts DEF BatchInv, ProgressInv, Recovered, OfAliases
  <2>2. CASE batch' = Answer("error")
    BY <1>2, <2>2 DEF BatchInv, BatchRecords, ProgressInv, Answer, Recovered
  <2> QED
    BY <1>2, <2>1, <2>2 DEF Recovered
<1>3. CASE RunSucceeds
  <2>1. /\ batch'.ids = batch.ids /\ batch'.completed = batch.completed + 1
        /\ batch'.used = batch.used \cup OfAliases(batch.ids, Plan[batch.completed + 1])
        /\ batch'.attempt = batch.attempt
    BY <1>3 DEF BatchInv, BatchRecords, RunSucceeds, RunIds
  <2>2. AliasesUpTo(batch.completed + 1) = AliasesUpTo(batch.completed) \cup Plan[batch.completed + 1]
    BY PlanFacts DEF BatchInv, BatchRecords
  <2>3. batch'.used = OfAliases(batch'.ids, AliasesUpTo(batch'.completed))
    BY <2>1, <2>2 DEF BatchInv, ProgressInv, OfAliases
  <2>4. CASE batch.completed + 1 = Len(Plan)
    BY <1>3, <2>1, <2>3, <2>4 DEF BatchInv, BatchRecords, ProgressInv, RunSucceeds
  <2>5. CASE batch.completed + 1 # Len(Plan)
    BY <1>3, <2>1, <2>3, <2>5, PlanFacts DEF BatchInv, BatchRecords, ProgressInv, RunSucceeds
  <2> QED
    BY <2>4, <2>5
<1>4. CASE RunMisses \/ RunFails
  BY <1>4 DEF BatchInv, BatchRecords, ProgressInv, RunMisses, RunFails, Answer
<1>5. CASE BeginRecovery \/ RecoveryRequest
  BY <1>5 DEF BatchInv, BatchRecords, ProgressInv, BeginRecovery, RecoveryRequest, Answer
<1>6. CASE UNCHANGED batch
  BY <1>6 DEF BatchInv, ProgressInv
<1> QED
  BY <1>1, <1>2, <1>3, <1>4, <1>5, <1>6 DEF BatchNext, Batch, UserCalls, UserRequests,
                                      BatchDone, NeverSubmitted, allVars

LEMMA GenInvStep ==
  ASSUME BatchInv, [BatchNext]_allVars
  PROVE  GenInv'
<1>1. gen \in Nat /\ call.listed \subseteq Instruments /\ batch.refreshed \subseteq Instruments
  BY DEF BatchInv, CacheInv, TypeOK, CallRecords, BatchRecords
<1>2. /\ gen' \in Nat /\ gen <= gen' /\ \A i \in hw' : i.gen <= gen'
      /\ \A i \in call'.listed : i.gen <= gen'
  <2>1. CASE [Next]_vars
    BY <2>1, GenStep DEF BatchInv, CacheInv, GenInv
  <2>2. CASE BeginRecovery
    BY <1>1, <2>2, BeginRecoveryBelow DEF BatchInv, GenInv, BeginRecovery
  <2> QED
    BY <2>1, <2>2, StepsBelow
<1>3. batch'.refreshed = batch.refreshed \/ batch'.refreshed = call.listed
  BY DEF BatchInv, BatchRecords, BatchNext, Batch, Submit, RunSucceeds, RunMisses, RunFails, Recovered,
         BeginRecovery, RecoveryRequest, Planned, Answer, UserCalls, UserRequests, BatchDone,
         NeverSubmitted, allVars
<1>4. \A i \in batch'.refreshed : i.gen <= gen
  BY <1>3 DEF BatchInv, GenInv
<1>5. batch'.refreshed \subseteq Instruments
  BY <1>1, <1>3
<1> QED
  BY <1>1, <1>2, <1>4, <1>5 DEF GenInv, Instruments

LEMMA RefreshStep ==
  ASSUME BatchInv, [BatchNext]_allVars
  PROVE  RefreshInv'
<1>1. CASE Submit \/ RunSucceeds \/ RunMisses \/ RunFails \/ Recovered
  BY <1>1 DEF BatchInv, BatchRecords, ProgressInv, Submit, RunSucceeds, RunMisses, RunFails, Recovered,
              RefreshInv, Planned, Answer
<1>2. CASE BeginRecovery
  <2>1. ExpectedUnits' = ExpectedUnits
    BY <1>2 DEF BatchInv, BatchRecords, BeginRecovery, ExpectedUnits
  <2> QED
    BY <1>2, <2>1, BeginRecoveryBelow DEF RefreshInv
<1>3. CASE RecoveryRequest
  <2>1. batch'.first = batch.first /\ ExpectedUnits' = ExpectedUnits
    BY <1>3 DEF BatchInv, BatchRecords, RecoveryRequest, Answer, ExpectedUnits
  <2>2. CASE List \/ ReadBack
    BY <1>3, <2>1, <2>2 DEF BatchInv, CacheInv, TypeOK, CallRecords, RefreshInv, RecoveryRequest, List,
                            ReadBack
  <2>3. CASE RequestFails \/ Publish
    BY <1>3, <2>3 DEF BatchInv, BatchRecords, RefreshInv, RecoveryRequest, RequestFails, Publish,
                      Fails, Ends, Idle, Answer
  <2> QED
    BY <1>3, <2>2, <2>3 DEF RecoveryRequest
<1>4. CASE UNCHANGED batch /\ (OtherUsers \/ Done \/ UNCHANGED vars)
  <2>1. UNCHANGED call
    BY <1>4 DEF OtherUsers, Foreign, Done, vars
  <2> QED
    BY <1>4, <2>1 DEF BatchInv, RefreshInv, ExpectedUnits
<1>5. CASE UserCalls \/ UserRequests
  BY <1>5 DEF UserCalls, UserRequests, RefreshInv
<1> QED
  BY <1>1, <1>2, <1>3, <1>4, <1>5 DEF BatchNext, Batch, BatchDone, NeverSubmitted, allVars

\* What is planned on the refreshed cache is what the refresh returned.
LEMMA Unambiguous ==
  ASSUME BatchInv, batch.refreshed \subseteq cache,
         {s.alias : s \in batch.first} = BatchAliases,
         batch.first \subseteq {SpecOf(i) : i \in batch.refreshed}
  PROVE  LET ids == OfAliases(cache, BatchAliases)
         IN ids \subseteq batch.refreshed /\ {SpecOf(i) : i \in ids} = batch.first
<1> DEFINE ids == OfAliases(cache, BatchAliases)
<1>1. \A i : SpecOf(i).alias = i.alias
  BY DEF SpecOf
<1>2. ASSUME NEW i \in ids PROVE i \in batch.refreshed /\ SpecOf(i) \in batch.first
  <2>1. i \in cache /\ i.alias \in BatchAliases
    BY DEF OfAliases
  <2>2. PICK s \in batch.first : s.alias = i.alias
    BY <2>1
  <2>3. PICK j \in batch.refreshed : SpecOf(j) = s
    BY <2>2
  <2>4. j \in cache /\ j.alias = i.alias
    BY <1>1, <2>2, <2>3
  <2>5. i = j
    BY <2>1, <2>4 DEF BatchInv, CacheInv, OneInstrumentPerAlias, Indexable
  <2> QED
    BY <2>2, <2>3, <2>5
<1>3. ASSUME NEW s \in batch.first PROVE \E i \in ids : SpecOf(i) = s
  <2>1. PICK j \in batch.refreshed : SpecOf(j) = s
    BY <1>3
  <2>2. j \in cache /\ j.alias = s.alias /\ s.alias \in BatchAliases
    BY <1>1, <2>1
  <2> QED
    BY <2>1, <2>2 DEF OfAliases
<1> QED
  BY <1>2, <1>3

\* A refresh that is complete has published what it returns.
LEMMA RecoveryPublishes ==
  ASSUME BatchInv, RecoveryRequest, batch'.stage = "refreshed"
  PROVE  batch'.refreshed \subseteq cache' /\ call'.stage = "none"
<1>1. call'.ended = "ok" /\ batch'.refreshed = call.listed
  BY DEF BatchInv, BatchRecords, RecoveryRequest, Answer
<1>2. call.ended = "no" /\ call.kind = "refresh"
  BY DEF BatchInv, RefreshInv, RecoveryRequest
<1>3. ~(List \/ ReadBack \/ RequestFails)
  <2>1. call \in CallRecords
    BY DEF BatchInv, CacheInv, TypeOK
  <2>2. CASE RequestFails
    BY <1>1, <2>2 DEF RequestFails, Fails, Idle
  <2>3. CASE List
    BY <1>1, <1>2, <2>1, <2>3 DEF List, CallRecords
  <2>4. CASE ReadBack
    BY <1>1, <1>2, <2>1, <2>4 DEF ReadBack, CallRecords
  <2> QED
    BY <2>2, <2>3, <2>4
<1>4. cache' \in Published /\ call' = Idle("ok")
  BY <1>1, <1>3 DEF RecoveryRequest, Publish, Ends, Fails, Idle
<1>5. call.listed \subseteq cache'
  <2>1. CASE call.units = Units
    BY <1>2, <1>4, <2>1, ReplaceScopeFacts DEF Published, ReplaceWhole
  <2>2. CASE call.units # Units
    BY <1>2, <1>4, <2>2, ReplaceUnitsFacts DEF Published
  <2> QED
    BY <2>1, <2>2
<1> QED
  BY <1>1, <1>4, <1>5 DEF Idle

\* The steps of the other threads and users.
LEMMA ReplayKept ==
  ASSUME BatchInv, ReplayInv, UNCHANGED batch, [Next]_vars,
         batch.stage = "refreshed" => UNCHANGED <<cache, call>>
  PROVE  ReplayInv'
<1>1. /\ gen \in Nat /\ \A i \in hw' : i.gen <= gen => i \in hw
      /\ \A i \in batch.refreshed : i.gen <= gen
  BY GenStep DEF BatchInv, CacheInv, TypeOK, GenInv
<1>2. ~(batch.refreshed \subseteq hw) => ~(batch.refreshed \subseteq hw')
  BY <1>1
<1> QED
  BY <1>2 DEF ReplayInv

LEMMA ReplayStep ==
  ASSUME BatchInv, ~ConfigureWhileBusy, [BatchNext]_allVars
  PROVE  ReplayInv'
<1>0. ReplayInv /\ batch \in BatchRecords
  BY DEF BatchInv
<1>1. CASE Submit
  <2>1. /\ batch'.ids = OfAliases(cache, BatchAliases) /\ batch'.stage = "running"
        /\ batch'.first = {SpecOf(i) : i \in OfAliases(cache, BatchAliases)}
        /\ batch'.attempt = 1 /\ batch'.answer # "notFound"
    BY <1>1 DEF BatchInv, BatchRecords, ProgressInv, Submit, Planned
  <2>2. {s.alias : s \in batch'.first} = BatchAliases
    BY <1>1, <2>1, PlannedFacts, SpecsOf DEF BatchInv, Submit, Covers
  <2>3. batch'.stage # "refreshed" /\ BatchAliases' = BatchAliases
    BY <2>1 DEF BatchAliases
  <2> QED
    BY <2>1, <2>2, <2>3 DEF ReplayInv
<1>2. CASE RunSucceeds \/ RunFails
  BY <1>0, <1>2 DEF BatchRecords, ReplayInv, RunSucceeds, RunFails, Answer, BatchAliases, vars
<1>3. CASE RunMisses
  <2>1. RunIds \subseteq batch.ids
    BY DEF RunIds, OfAliases
  <2>2. batch.attempt = 2 => ~(batch.refreshed \subseteq hw)
    BY <1>0, <1>3, <2>1 DEF ReplayInv, RunMisses
  <2> QED
    BY <1>0, <1>3, <2>2 DEF BatchRecords, ReplayInv, RunMisses, Answer, BatchAliases, vars
<1>4. CASE Recovered
  <2>1. CASE batch' = Answer("error")
    BY <1>0, <1>4, <2>1 DEF BatchRecords, ReplayInv, Recovered, Answer, BatchAliases
  <2>2. CASE /\ batch.first \subseteq {SpecOf(i) : i \in batch.refreshed}
             /\ batch' = [Planned EXCEPT !.attempt = 2]
    <3>1. /\ batch'.ids = OfAliases(cache, BatchAliases) /\ batch'.stage = "running"
          /\ batch'.first = batch.first /\ batch'.refreshed = batch.refreshed
          /\ batch'.answer # "notFound"
      BY <1>0, <1>4, <2>2 DEF BatchInv, BatchRecords, ProgressInv, Recovered, Planned
    <3>2. batch.refreshed \subseteq cache /\ {s.alias : s \in batch.first} = BatchAliases
      BY <1>0, <1>4 DEF ReplayInv, Recovered
    <3>3. batch'.ids \subseteq batch.refreshed /\ {SpecOf(i) : i \in batch'.ids} = batch.first
      BY <2>2, <3>1, <3>2, Unambiguous
    <3> QED
      BY <3>1, <3>2, <3>3 DEF ReplayInv, BatchAliases
  <2> QED
    BY <1>4, <2>1, <2>2 DEF Recovered
<1>5. CASE BeginRecovery
  BY <1>0, <1>5 DEF BatchInv, BatchRecords, ProgressInv, ReplayInv, BeginRecovery, BatchAliases
<1>6. CASE RecoveryRequest
  <2>1. /\ batch'.first = batch.first /\ batch'.attempt = 1 /\ batch'.answer # "notFound"
        /\ batch.stage # "waiting"
    BY <1>0, <1>6 DEF BatchInv, BatchRecords, ProgressInv, RecoveryRequest, Answer
  <2> QED
    BY <1>0, <1>6, <2>1, RecoveryPublishes DEF ReplayInv, BatchAliases
<1>7. CASE UserRequests
  <2>1. batch.stage # "refreshed"
    BY <1>0, <1>7 DEF ReplayInv, UserRequests, Requests, RequestFails, Connected, Discovered,
                      ModeSet, List, ReadBack, Publish, Discard, Write
  <2> QED
    BY <1>0, <1>7, <2>1, ReplayKept DEF UserRequests, Next
<1>8. CASE UserCalls
  BY <1>0, <1>8, ReplayKept DEF UserCalls, Next
<1>9. CASE UNCHANGED batch /\ (OtherUsers \/ Done \/ UNCHANGED vars)
  BY <1>0, <1>9, ReplayKept DEF OtherUsers, Foreign, Done, Next, vars
<1> QED
  BY <1>1, <1>2, <1>3, <1>4, <1>5, <1>6, <1>7, <1>8, <1>9
     DEF BatchNext, Batch, BatchDone, NeverSubmitted, allVars

LEMMA BatchStarts == BatchInit => BatchInv
<1> SUFFICES ASSUME BatchInit PROVE BatchInv
  OBVIOUS
<1>1. CacheInv
  BY InitTypes DEF BatchInit, Init, CacheInv, StageInv, UncachedFirst, ReadTruth, CacheTruth,
                   OneInstrumentPerAlias, Indexable, Idle
<1>2. batch \in BatchRecords
  BY DEF BatchInit, BatchRecords, Answers
<1>3. ProgressInv
  BY PlanFacts DEF BatchInit, ProgressInv, OfAliases
<1>4. GenInv /\ RefreshInv /\ ReplayInv
  BY DEF BatchInit, Init, GenInv, RefreshInv, ReplayInv, Idle
<1> QED
  BY <1>1, <1>2, <1>3, <1>4 DEF BatchInv

\* What a batch has used, and what its recovery has read and published.
THEOREM BatchInductive == BatchSpec => []BatchInv
<1>1. BatchInv /\ [BatchNext]_allVars => BatchInv'
  BY CacheStep, BatchRecordStep, ProgressStep, GenInvStep, RefreshStep, ReplayStep DEF BatchInv
<1> QED
  BY BatchStarts, <1>1, PTL DEF BatchSpec

\* The results of a batch are those of all its executions on one snapshot of
\* the cache, however it was recovered and whatever other threads do.
THEOREM OneSnapshot == BatchSpec => []ResultsFromOneSnapshot
<1>1. BatchInv => ResultsFromOneSnapshot
  BY PlanFacts DEF BatchInv, ProgressInv, Covers, OfAliases, ResultsFromOneSnapshot
<1> QED
  BY <1>1, BatchInductive, PTL

\* A replay drives each alias on the port of the first plan, as long as no other
\* thread configures instruments during the batch.
THEOREM PortsKept ==
  ASSUME ~ConfigureWhileBusy
  PROVE  BatchSpec => []ReplayKeepsPorts
<1>1. BatchInv => ReplayKeepsPorts
  BY DEF BatchInv, ReplayInv, ReplayKeepsPorts
<1> QED
  BY <1>1, BatchInductive, PTL

\* A replay that fails again fails for a change made after the refresh.
THEOREM MissesAreNew ==
  ASSUME ~ConfigureWhileBusy
  PROVE  BatchSpec => []SecondMissIsNew
<1>1. BatchInv => SecondMissIsNew
  BY DEF BatchInv, ReplayInv, SecondMissIsNew
<1> QED
  BY <1>1, BatchInductive, PTL

\* The recovery leaves the cached instruments of other units alone.
THEOREM OtherUnitsKept == BatchSpec => RecoveryKeepsOtherUnits
<1> DEFINE Rest(c) == c \ OnUnits(c, ExpectedUnits)
<1>1. ASSUME BatchInv, [BatchNext]_allVars, batch.stage = "refreshing"
      PROVE  Rest(cache') = Rest(cache)
  <2>1. cache' = cache \/ (cache' \in Published /\ call.kind = "refresh")
    BY <1>1 DEF BatchInv, RefreshInv, BatchNext, Batch, Submit, RunSucceeds, RunMisses, RunFails,
                Recovered, BeginRecovery, RecoveryRequest, List, ReadBack, RequestFails, Publish,
                UserCalls, UserRequests, OtherUsers, Foreign, BatchDone, NeverSubmitted, Done,
                allVars, vars
  <2>2. call.kind = "refresh" /\ call.units = ExpectedUnits
    BY <1>1 DEF BatchInv, RefreshInv
  <2>3. CASE cache' \in Published /\ call.units = Units
    <3>1. cache \subseteq Instruments /\ cache' \subseteq Instruments
      BY <1>1, CacheStep DEF BatchInv, CacheInv, TypeOK
    <3> QED
      BY <2>2, <2>3, <3>1, UnitOfAssumption DEF OnUnits, Instruments
  <2>4. CASE cache' \in Published /\ call.units # Units
    <3>1. /\ cache' = (cache \ OnUnits(cache, call.units)) \cup call.listed
          /\ OnUnits(call.listed, call.units) = call.listed
      BY <2>2, <2>4 DEF Published, ReplaceUnits, ReplaceScope
    <3> QED
      BY <2>2, <3>1 DEF OnUnits
  <2> QED
    BY <2>1, <2>3, <2>4
<1>2. BatchInv /\ [BatchNext]_allVars
        => [batch.stage = "refreshing" =>
              cache' \ OnUnits(cache', ExpectedUnits)
                = cache \ OnUnits(cache, ExpectedUnits)]_allVars
  BY <1>1
<1> QED
  BY <1>2, BatchInductive, PTL DEF BatchSpec, RecoveryKeepsOtherUnits

-----------------------------------------------------------------------------
(* Quel3Monitor.                                                            *)

RestoreStages == {"restoreClear", "restoreMode", "restoreInstruments"}

MonitorRecords == [stage : {"waiting", "ended"} \cup Body \cup RestoreStages, made : BOOLEAN,
                   todo : SUBSET Specs, original : SUBSET Specs, unit : SUBSET Units,
                   mode : Modes, alias : SUBSET MonitorAliases,
                   found : SUBSET Specs, foundMode : Modes, before : Nat, gen : Nat,
                   restored : BOOLEAN]

\* What the run took down when it started, and what is left of it to do.
StartedInv ==
    /\ monitor.stage # "waiting" =>
          /\ \E u \in Units : monitor.unit = {u} /\ \A s \in monitor.original : UnitOf[s.port] = u
          /\ \E m \in MonitorAliases : monitor.alias = {m}
          /\ monitor.original = monitor.found /\ monitor.original # {}
          /\ monitor.mode = monitor.foundMode
          /\ monitor.before <= others
    /\ monitor.stage \in Body => monitor.todo # {}
    /\ monitor.stage \notin Body => monitor.gen <= gen
    /\ monitor.restored => monitor.stage = "ended"
    /\ monitor.stage \in {"waiting", "ended", "execute", "replay"} => ~monitor.made
    /\ monitor.stage # "waiting" /\ call.stage # "none" => monitor.made

\* The unit as the steps of the finally clause leave it.
Now == OnUnits(hw, monitor.unit)
Emptied == Now = {} /\ OnUnits(cache, monitor.unit) = {}
ModeBack == \A u \in monitor.unit : mode[u] = monitor.foundMode
Rebuilt == {SpecOf(i) : i \in Now} = monitor.found /\ \A i \in Now : i.gen > monitor.gen
Restored == ModeBack /\ Rebuilt /\ OnUnits(cache, monitor.unit) = Now

Clearing ==
    /\ monitor.made /\ call.stage # "none" =>
          /\ call.kind = "clear" /\ call.units = monitor.unit
          /\ call.stage \in {"probe", "discard"} /\ call.ended = "no"
          /\ call.stage = "discard" => OnUnits(cache, monitor.unit) = {}
    /\ monitor.made /\ call.stage = "none" /\ call.ended = "ok" => Emptied

SettingMode ==
    /\ Emptied
    /\ monitor.made /\ call.stage # "none" =>
          /\ call.kind = "mode" /\ ~call.clear
          /\ call.units = monitor.unit /\ call.to = monitor.mode
          /\ call.stage \in {"probe", "mode"} /\ call.ended = "no"
    /\ monitor.made /\ call.stage = "none" /\ call.ended = "ok" => ModeBack

Deploying ==
    /\ ModeBack
    /\ ~monitor.made => Emptied
    /\ monitor.made /\ call.stage # "none" =>
          /\ call.kind = "deploy" /\ ~call.append
          /\ call.specs = monitor.original
          /\ call.stage \in {"write", "list", "readback", "publish"} /\ call.ended = "no"
          /\ OnUnits(cache, monitor.unit) = {}
          /\ IF call.stage = "write" THEN Now \subseteq OnPorts(Now, SpecPorts(call.specs))
                                     ELSE Rebuilt
          /\ call.stage \in {"readback", "publish"} => call.listed = Now
    /\ monitor.made /\ call.stage = "none" /\ call.ended = "ok" => Restored

\* How far the finally clause is, unless another user acted since the start.
RestoreInv ==
    others = monitor.before =>
        /\ monitor.stage = "restoreClear" => Clearing
        /\ monitor.stage = "restoreMode" => SettingMode
        /\ monitor.stage = "restoreInstruments" => Deploying
        /\ monitor.restored => Restored

MonitorInv == /\ CacheInv
              /\ monitor \in MonitorRecords
              /\ StartedInv
              /\ RestoreInv
-----------------------------------------------------------------------------
(* The run and the calls beneath it.                                         *)

\* The unit and the monitor's specification of a run that has started.
LEMMA RunFacts ==
  ASSUME monitor \in MonitorRecords, StartedInv, monitor.stage # "waiting"
  PROVE  /\ TargetUnit \in Units /\ monitor.unit = {TargetUnit}
         /\ \A s \in monitor.original : UnitOf[s.port] = TargetUnit
         /\ MonitorSpec \in Specs
         /\ monitor.stage \in Body => Target \in monitor.todo /\ Target \in Specs
<1>1. PICK u \in Units : monitor.unit = {u} /\ \A s \in monitor.original : UnitOf[s.port] = u
  BY DEF StartedInv
<1>2. TargetUnit = u
  BY <1>1 DEF TargetUnit
<1>3. PICK m \in MonitorAliases : monitor.alias = {m}
  BY DEF StartedInv
<1>4. MonitorSpec = [alias |-> m, port |-> MonitorPort[u]]
  BY <1>2, <1>3 DEF MonitorSpec
<1>5. MonitorSpec \in Specs
  BY <1>4, MonitorAssumption DEF Specs
<1>6. monitor.stage \in Body => Target \in monitor.todo
  BY DEF StartedInv, Target
<1> QED
  BY <1>1, <1>2, <1>5, <1>6 DEF MonitorRecords

\* The steps that are no calls leave the instruments alone.
LEMMA OwnSteps ==
  ASSUME \/ \E targets, alias : Start(targets, alias)
         \/ Refused \/ Execute \/ Return
  PROVE  UNCHANGED vars
BY DEF Start, Refused, Execute, Return

\* All calls but the last are among those of Quel3Instruments.
LEMMA MonitorCalls ==
  ASSUME monitor \in MonitorRecords, StartedInv,
         ClearUnit \/ SetMode \/ DeployTarget \/ Recover
  PROVE  Calls
<1>1. monitor.stage # "waiting"
  BY DEF ClearUnit, SetMode, DeployTarget, Recover, Waiting
<1>2. /\ TargetUnit \in Units /\ monitor.unit = {TargetUnit} /\ MonitorSpec \in Specs
      /\ monitor.stage \in Body => Target \in Specs
  BY <1>1, RunFacts
<1>3. CASE ClearUnit
  BY <1>2, <1>3 DEF ClearUnit, Calls
<1>4. CASE SetMode
  BY <1>2, <1>4 DEF SetMode, Calls, MonitorRecords, Modes
<1>5. CASE DeployTarget
  BY <1>2, <1>5 DEF DeployTarget, Calls, Waiting, Body
<1>6. CASE Recover
  BY <1>2, <1>6 DEF Recover, Calls
<1> QED
  BY <1>3, <1>4, <1>5, <1>6

\* The deployment of the original configuration.
LEMMA RestoreBegins ==
  ASSUME MonitorInv, RestoreInstruments
  PROVE  /\ CacheInv'
         /\ call'.kind = "deploy" /\ call'.stage = "write" /\ call'.ended = "no"
         /\ call'.specs = monitor.original /\ call'.append = FALSE
         /\ cache' \subseteq cache
         /\ UNCHANGED <<hw, mode, gen, foreign, others>>
<1>1. BeginDeploy(monitor.original, FALSE) /\ monitor.original \in SUBSET Specs
  BY DEF RestoreInstruments, Deploy, MonitorInv, MonitorRecords
<1>2. /\ TypeOK' /\ cache' \subseteq cache
      /\ call'.kind = "deploy" /\ call'.stage = "write" /\ call'.ended = "no"
      /\ call'.specs = monitor.original /\ call'.append = FALSE
      /\ \A i \in cache' : i.port \notin SpecPorts(monitor.original)
  BY <1>1, DeployBegins DEF MonitorInv, CacheInv
<1>3. UNCHANGED <<hw, mode, gen, foreign, others>>
  BY <1>1 DEF BeginDeploy
<1>4. StageInv' /\ UncachedFirst' /\ ReadTruth'
  BY <1>2 DEF StageInv, UncachedFirst, ReadTruth, SpecPorts
<1>5. CacheTruth' /\ OneInstrumentPerAlias'
  BY <1>2, <1>3, FewerCached DEF MonitorInv, CacheInv
<1> QED
  BY <1>2, <1>3, <1>4, <1>5 DEF CacheInv

\* The cache is true in a run as it is without one.
LEMMA CacheInvStep ==
  ASSUME MonitorInv, [MonitorNext]_monitorVars
  PROVE  CacheInv'
<1>1. CASE RestoreInstruments
  BY <1>1, RestoreBegins
<1>2. CASE [Next]_vars
  BY <1>2, TypeStep, StageStep, ReadStep, TruthStep DEF MonitorInv, CacheInv
<1>3. RestoreInstruments \/ [Next]_vars
  BY OwnSteps, MonitorCalls DEF MonitorInv, MonitorNext, Monitor, CallsBefore, MonitorDone,
                                monitorVars, Next
<1> QED
  BY <1>1, <1>2, <1>3

\* The counts that the ghosts of a run are compared with.
LEMMA CountsGrow ==
  ASSUME TypeOK, Next \/ UNCHANGED vars \/ Deploy(monitor.original)
  PROVE  /\ gen \in Nat /\ others \in Nat /\ gen' \in Nat /\ others' \in Nat
         /\ gen <= gen' /\ others <= others'
<1>1. gen \in Nat /\ others \in Nat
  BY BoundsAssumption DEF TypeOK
<1>2. gen' = gen \/ gen' = gen + 1
  BY DEF Next, Calls, Connect, Disconnect, Deploy, DeployOne, BeginDeploy, Replace, Refresh, Clear,
         ConfigureMonitorMode, Requests, RequestFails, Connected, Discovered, ModeSet, List,
         ReadBack, Publish, Discard, Write, OtherUsers, Foreign, Done, vars
<1>3. others' = others \/ others' = others + 1
  BY DEF Next, Calls, Connect, Disconnect, Deploy, DeployOne, BeginDeploy, Replace, Refresh, Clear,
         ConfigureMonitorMode, Requests, RequestFails, Connected, Discovered, ModeSet, List,
         ReadBack, Publish, Discard, Write, OtherUsers, Foreign, Done, vars
<1> QED
  BY <1>1, <1>2, <1>3

\* Every call, until it begins, waits; when it has begun, it has a stage.
LEMMA CallBegins ==
  ASSUME ClearUnit \/ SetMode \/ DeployTarget \/ RestoreInstruments \/ Recover
  PROVE  /\ call'.stage # "none" /\ call'.ended = "no" /\ call.stage = "none"
         /\ UNCHANGED <<hw, gen, foreign, others, mode>>
BY BeginFields DEF ClearUnit, SetMode, DeployTarget, RestoreInstruments, Recover, Clear,
     ConfigureMonitorMode, DeployOne, Deploy, BeginDeploy, Refresh, Starting

\* A step whose call has returned is followed by one of its own.
LEMMA AfterFields ==
  ASSUME monitor \in MonitorRecords, StartedInv, monitor.made
  PROVE  \/ /\ After = [monitor EXCEPT !.stage = After.stage, !.made = FALSE]
            /\ \/ monitor.stage = "clear" /\ After.stage = "loopback"
               \/ monitor.stage = "loopback" /\ After.stage = "target"
               \/ monitor.stage = "target" /\ After.stage = "monitor"
               \/ monitor.stage = "monitor" /\ After.stage = "execute"
               \/ monitor.stage = "refresh" /\ After.stage = "replay"
               \/ monitor.stage = "restoreClear" /\ After.stage = "restoreMode"
               \/ monitor.stage = "restoreMode" /\ After.stage = "restoreInstruments"
         \/ /\ monitor.stage = "restoreInstruments"
            /\ After = [To("ended") EXCEPT !.restored = TRUE]
<1>1. monitor.stage \in {"clear", "loopback", "target", "monitor", "refresh"} \cup RestoreStages
  BY DEF MonitorRecords, StartedInv, Body
<1>2. \A stage : To(stage) = [monitor EXCEPT !.stage = stage, !.made = FALSE]
                  /\ To(stage).stage = stage
  BY DEF To, MonitorRecords
<1> QED
  BY <1>1, <1>2 DEF After, RestoreStages

\* The run's record keeps its type.
LEMMA MonitorRecordStep ==
  ASSUME MonitorInv, [MonitorNext]_monitorVars
  PROVE  monitor' \in MonitorRecords
<1> USE DEF MonitorRecords, Body, RestoreStages, To
<1>0. monitor \in MonitorRecords /\ gen \in Nat /\ others \in Nat
  BY BoundsAssumption DEF MonitorInv, CacheInv, TypeOK
<1>1. ASSUME NEW targets \in SUBSET hw, NEW alias \in MonitorAliases, Start(targets, alias)
      PROVE  monitor' \in MonitorRecords
  <2>1. \A i \in hw : SpecOf(i) \in Specs
    BY DEF MonitorInv, CacheInv, TypeOK, SpecOf, Specs, Instruments
  <2>2. PICK u \in Units :
          monitor' = [To("clear") EXCEPT
                        !.todo = {SpecOf(i) : i \in targets},
                        !.original = {SpecOf(i) : i \in OnUnits(hw, {u})},
                        !.unit = {u}, !.mode = mode[u], !.alias = {alias},
                        !.found = {SpecOf(i) : i \in OnUnits(hw, {u})},
                        !.foundMode = mode[u], !.before = others]
    BY <1>1 DEF Start
  <2>3. mode[u] \in Modes /\ {SpecOf(i) : i \in targets} \in SUBSET Specs
        /\ {SpecOf(i) : i \in OnUnits(hw, {u})} \in SUBSET Specs
    BY <2>1 DEF MonitorInv, CacheInv, TypeOK, OnUnits
  <2> QED
    BY <1>0, <2>2, <2>3
<1>2. CASE ClearUnit \/ SetMode \/ DeployTarget \/ RestoreInstruments
  BY <1>0, <1>2 DEF ClearUnit, SetMode, DeployTarget, RestoreInstruments, Making
<1>3. CASE Recover
  BY <1>0, <1>3 DEF Recover
<1>4. CASE Refused \/ Execute \/ Return
  <2>1. CASE monitor' = Raised
    BY <1>0, <2>1 DEF Raised
  <2>2. CASE monitor' = Captured
    BY <1>0, <2>2 DEF Captured
  <2>3. CASE monitor' = After /\ monitor.made
    <3>1. StartedInv
      BY DEF MonitorInv
    <3>2. \/ \E stage \in Body \cup RestoreStages :
                After = [monitor EXCEPT !.stage = stage, !.made = FALSE]
          \/ After = [To("ended") EXCEPT !.restored = TRUE]
      BY <1>0, <2>3, <3>1, AfterFields
    <3> QED
      BY <1>0, <2>3, <3>2
  <2> QED
    BY <1>4, <2>1, <2>2, <2>3 DEF Refused, Execute, Return
<1>5. CASE UNCHANGED monitor
  BY <1>0, <1>5
<1> QED
  BY <1>1, <1>2, <1>3, <1>4, <1>5 DEF MonitorNext, Monitor, CallsBefore, MonitorDone, monitorVars

\* What the run took down stays as it is.
LEMMA StartedStep ==
  ASSUME MonitorInv, [MonitorNext]_monitorVars
  PROVE  StartedInv'
<1>0. /\ monitor \in MonitorRecords /\ StartedInv
      /\ monitor.gen \in Nat /\ monitor.before \in Nat
      /\ gen \in Nat /\ others \in Nat /\ gen' \in Nat /\ others' \in Nat
      /\ gen <= gen' /\ others <= others'
  <2>1. Next \/ UNCHANGED vars \/ Deploy(monitor.original)
    BY OwnSteps, MonitorCalls DEF MonitorInv, MonitorNext, Monitor, CallsBefore, MonitorDone,
                                  RestoreInstruments, monitorVars, Next
  <2> QED
    BY <2>1, CountsGrow DEF MonitorInv, CacheInv, MonitorRecords
<1>1. ASSUME NEW targets \in SUBSET hw, NEW alias \in MonitorAliases, Start(targets, alias)
      PROVE  StartedInv'
  <2>1. PICK u \in Units :
          /\ OnUnits(targets, {u}) = targets
          /\ monitor' = [To("clear") EXCEPT
                        !.todo = {SpecOf(i) : i \in targets},
                        !.original = {SpecOf(i) : i \in OnUnits(hw, {u})},
                        !.unit = {u}, !.mode = mode[u], !.alias = {alias},
                        !.found = {SpecOf(i) : i \in OnUnits(hw, {u})},
                        !.foundMode = mode[u], !.before = others]
    BY <1>1 DEF Start
  <2>2. /\ monitor'.stage = "clear" /\ monitor'.made = FALSE
        /\ monitor'.todo = {SpecOf(i) : i \in targets}
        /\ monitor'.original = {SpecOf(i) : i \in OnUnits(hw, {u})}
        /\ monitor'.found = monitor'.original /\ monitor'.unit = {u}
        /\ monitor'.mode = mode[u] /\ monitor'.foundMode = mode[u]
        /\ monitor'.alias = {alias} /\ monitor'.before = others
        /\ monitor'.restored = monitor.restored
    BY <1>0, <2>1 DEF MonitorRecords, To
  <2>3. \A s \in monitor'.original : UnitOf[s.port] = u
    BY <2>2 DEF OnUnits, SpecOf
  <2>4. monitor'.todo # {} /\ monitor'.original # {}
    BY <1>1, <2>1, <2>2 DEF Start, OnUnits
  <2>5. ~monitor.restored /\ call'.stage = "none" /\ others' = others
    BY <1>0, <1>1 DEF Start, Waiting, StartedInv, vars
  <2> QED
    BY <1>0, <2>2, <2>3, <2>4, <2>5 DEF StartedInv, Body
<1>2. CASE ClearUnit \/ SetMode \/ DeployTarget \/ RestoreInstruments \/ Recover
  <2>1. UNCHANGED <<gen, others>>
    BY <1>2, CallBegins
  <2>2. CASE ClearUnit \/ SetMode \/ DeployTarget \/ RestoreInstruments
    <3>1. /\ monitor' = [monitor EXCEPT !.made = TRUE]
          /\ monitor.stage \notin {"waiting", "ended", "execute", "replay"}
      BY <2>2 DEF ClearUnit, SetMode, DeployTarget, RestoreInstruments, Making, Waiting
    <3> QED
      BY <1>0, <2>1, <3>1 DEF StartedInv, MonitorRecords
  <2>3. CASE Recover
    BY <1>0, <2>1, <2>3 DEF Recover, Waiting, To, StartedInv, MonitorRecords, Body
  <2> QED
    BY <1>2, <2>2, <2>3
<1>3. CASE Refused \/ Execute \/ Return
  <2>1. UNCHANGED <<gen, others, call>> /\ call.stage = "none"
    BY <1>3 DEF Refused, Execute, Return, Waiting, vars
  <2>2. monitor.stage \notin {"waiting", "ended"}
    BY <1>0, <1>3 DEF Refused, Execute, Return, Waiting, StartedInv
  <2>3. CASE monitor' = Raised
    BY <1>0, <2>1, <2>2, <2>3 DEF Raised, To, StartedInv, MonitorRecords, Body
  <2>4. CASE monitor' = Captured /\ monitor.stage \in Body
    <3>1. Target \in monitor.todo
      BY <1>0, <2>2, <2>4, RunFacts
    <3> QED
      BY <1>0, <2>1, <2>2, <2>4, <3>1 DEF Captured, To, StartedInv, MonitorRecords, Body
  <2>5. CASE monitor' = After /\ monitor.made
    <3>1. CASE After = [To("ended") EXCEPT !.restored = TRUE] /\ monitor.stage = "restoreInstruments"
      <4>1. monitor' = [monitor EXCEPT !.stage = "ended", !.made = FALSE, !.restored = TRUE]
        BY <1>0, <2>5, <3>1 DEF To, MonitorRecords
      <4> QED
        BY <1>0, <2>1, <3>1, <4>1 DEF StartedInv, MonitorRecords, Body
    <3>2. CASE \E stage \in Body \cup RestoreStages :
                 /\ After = [monitor EXCEPT !.stage = stage, !.made = FALSE]
                 /\ monitor.stage \in Body <=> stage \in Body
      BY <1>0, <2>1, <2>2, <2>5, <3>2 DEF StartedInv, MonitorRecords, Body, RestoreStages
    <3> QED
      BY <1>0, <2>5, <3>1, <3>2, AfterFields DEF Body, RestoreStages
  <2> QED
    BY <1>3, <2>3, <2>4, <2>5 DEF Refused, Execute, Return, Waiting, Body
<1>4. CASE UNCHANGED monitor
  <2>1. CASE CallsBefore
    BY <1>0, <1>4, <2>1 DEF CallsBefore, StartedInv
  <2>2. CASE Requests
    <3>1. call.stage # "none"
      BY <2>2 DEF Requests, RequestFails, Connected, Discovered, ModeSet, List, ReadBack, Publish,
                  Discard, Write
    <3> QED
      BY <1>0, <1>4, <3>1 DEF StartedInv
  <2>3. CASE UNCHANGED call
    BY <1>0, <1>4, <2>3 DEF StartedInv
  <2>4. CASE ClearUnit \/ SetMode \/ DeployTarget \/ RestoreInstruments \/ Recover
    <3>1. monitor'.made
      BY <1>0, <2>4 DEF ClearUnit, SetMode, DeployTarget, RestoreInstruments, Recover, Making, To,
                        MonitorRecords
    <3> QED
      BY <1>0, <1>4, <2>4, <3>1, CallBegins DEF StartedInv
  <2> QED
    BY <2>1, <2>2, <2>3, <2>4, OwnSteps DEF MonitorNext, Monitor, OtherUsers, Foreign, MonitorDone,
                                            monitorVars, vars
<1> QED
  BY <1>1, <1>2, <1>3, <1>4 DEF MonitorNext, Monitor, CallsBefore, MonitorDone, monitorVars
-----------------------------------------------------------------------------
(* The finally clause.                                                       *)

\* What an ended call leaves in its record.
LEMMA EndedCalls ==
  /\ Fails => call'.stage = "none" /\ call'.ended = "error"
  /\ Ends => call'.stage = "none" /\ call'.ended = "ok"
BY DEF Fails, Ends, Idle

\* The requests of the clearing of the unit.
LEMMA ClearingRequests ==
  ASSUME MonitorInv, Requests, UNCHANGED monitor, Clearing, monitor.made, call.stage # "none"
  PROVE  Clearing'
<1>0. /\ call.kind = "clear" /\ call.units = monitor.unit
      /\ call.stage \in {"probe", "discard"} /\ call.ended = "no"
      /\ call.stage = "discard" => OnUnits(cache, monitor.unit) = {}
      /\ call \in CallRecords
  BY DEF Clearing, MonitorInv, CacheInv, TypeOK
<1>1. CASE RequestFails
  BY <1>1, EndedCalls DEF RequestFails, Clearing
<1>2. CASE Discovered
  <2>1. cache' \in ReplaceUnits(cache, call.units, {}) /\ call' = [call EXCEPT !.stage = "discard"]
    BY <1>0, <1>2 DEF Discovered
  <2>2. OnUnits(cache', monitor.unit) = {}
    BY <1>0, <2>1, ReplaceUnitsFacts DEF OnUnits
  <2> QED
    BY <1>0, <2>1, <2>2 DEF Clearing, CallRecords
<1>3. ASSUME NEW ports \in SUBSET Ports, Discard(ports)
      PROVE  Clearing'
  <2>1. call.stage = "discard" /\ UNCHANGED cache
    BY <1>3 DEF Discard
  <2>2. CASE Fails
    BY <2>2, EndedCalls DEF Clearing
  <2>3. CASE {p \in Ports : UnitOf[p] \in call.units} \subseteq ports /\ Ends
    <3>1. hw' = hw \ OnPorts(hw, ports) /\ hw \subseteq Instruments
      BY <1>3 DEF Discard, MonitorInv, CacheInv, TypeOK
    <3>2. OnUnits(hw', monitor.unit) = {}
      BY <1>0, <2>3, <3>1 DEF OnUnits, OnPorts, Instruments
    <3> QED
      BY <1>0, <2>1, <2>3, <3>2, EndedCalls DEF Clearing, Emptied, Now
  <2> QED
    BY <1>0, <1>3, <2>2, <2>3 DEF Discard
<1> QED
  BY <1>0, <1>1, <1>2, <1>3 DEF Requests, Connected, ModeSet, List, ReadBack, Publish, Write

\* The requests that set the mode.
LEMMA SettingModeRequests ==
  ASSUME MonitorInv, Requests, UNCHANGED monitor, SettingMode, monitor.made, call.stage # "none",
         monitor.mode = monitor.foundMode
  PROVE  SettingMode'
<1>0. /\ call.kind = "mode" /\ ~call.clear
      /\ call.units = monitor.unit /\ call.to = monitor.foundMode
      /\ call.stage \in {"probe", "mode"} /\ call.ended = "no"
      /\ Emptied /\ call \in CallRecords
  BY DEF SettingMode, MonitorInv, CacheInv, TypeOK
<1>1. CASE RequestFails
  BY <1>0, <1>1, EndedCalls DEF RequestFails, SettingMode, Emptied, Now
<1>2. CASE Discovered
  <2>1. UNCHANGED <<hw, cache, mode>>
    BY <1>0, <1>2 DEF Discovered
  <2>2. CASE (\A u \in call.units : mode[u] = call.to) /\ Ends
    BY <1>0, <2>1, <2>2, EndedCalls DEF SettingMode, Emptied, Now, ModeBack
  <2>3. CASE call' = [call EXCEPT !.stage = "mode"]
    BY <1>0, <2>1, <2>3 DEF SettingMode, Emptied, Now, CallRecords
  <2> QED
    BY <1>0, <1>2, <2>2, <2>3 DEF Discovered
<1>3. CASE ModeSet
  <2>1. UNCHANGED <<hw, cache>> /\ (Ends \/ Fails)
    BY <1>3 DEF ModeSet
  <2>2. monitor.unit \subseteq Units
    BY DEF MonitorInv, MonitorRecords
  <2>3. \A u \in monitor.unit : mode'[u] = monitor.foundMode
    BY <1>0, <1>3, <2>2 DEF ModeSet
  <2> QED
    BY <1>0, <2>1, <2>3, EndedCalls DEF SettingMode, Emptied, Now, ModeBack
<1> QED
  BY <1>0, <1>1, <1>2, <1>3 DEF Requests, Connected, List, ReadBack, Publish, Discard, Write

\* The unit after a write of the original configuration: what is deployed lies
\* on its ports, and when all of them were written, it is deployed anew.
LEMMA Rewritten ==
  ASSUME TypeOK, monitor \in MonitorRecords, NEW u \in Units, monitor.unit = {u},
         \A s \in monitor.original : UnitOf[s.port] = u,
         monitor.original = monitor.found, monitor.gen <= gen,
         NEW ports \in SUBSET SpecPorts(monitor.original),
         Now \subseteq OnPorts(Now, SpecPorts(monitor.original)),
         hw' = Written(monitor.original, ports, FALSE), UNCHANGED monitor
  PROVE  /\ Now' \subseteq OnPorts(Now', SpecPorts(monitor.original))
         /\ ports = SpecPorts(monitor.original) => Rebuilt'
<1> DEFINE new == {s \in monitor.original : s.port \in ports}
           Anew(s) == [alias |-> s.alias, port |-> s.port, gen |-> gen + 1]
<1>1. hw' = {i \in hw : i.port \notin ports} \cup {Anew(s) : s \in new}
  BY DEF Written
<1>2. monitor.original \subseteq Specs
  BY DEF MonitorRecords
<1>0. /\ Now' = {i \in hw' : UnitOf[i.port] = u}
      /\ \A i \in hw : UnitOf[i.port] = u => i.port \in SpecPorts(monitor.original)
  BY DEF Now, OnUnits, OnPorts
<1>3. ASSUME NEW i \in Now'
      PROVE  /\ i.port \in SpecPorts(monitor.original)
             /\ i.port \in ports => \E s \in monitor.original : i = Anew(s)
  <2>1. CASE i \in hw /\ i.port \notin ports
    BY <1>0, <2>1
  <2>2. CASE \E s \in new : i = Anew(s)
    BY <2>2 DEF SpecPorts
  <2> QED
    BY <1>0, <1>1, <2>1, <2>2
<1>4. ASSUME ports = SpecPorts(monitor.original)
      PROVE  Rebuilt'
  <2>1. ASSUME NEW s \in monitor.original
        PROVE  Anew(s) \in Now' /\ SpecOf(Anew(s)) = s
    <3>1. s \in new /\ UnitOf[Anew(s).port] = u
      BY <1>4 DEF SpecPorts
    <3>2. SpecOf(Anew(s)) = s
      BY <1>2 DEF SpecOf, Specs
    <3> QED
      BY <1>0, <1>1, <3>1, <3>2
  <2>2. \A i \in Now' : \E s \in monitor.original : i = Anew(s)
    BY <1>3, <1>4
  <2>3. {SpecOf(i) : i \in Now'} = monitor.found
    <3> HIDE DEF Anew
    <3> QED
      BY <2>1, <2>2
  <2>4. gen + 1 > monitor.gen
    BY DEF TypeOK, MonitorRecords
  <2>5. \A i \in Now' : i.gen > monitor.gen
    BY <2>2, <2>4
  <2> QED
    BY <2>3, <2>5 DEF Rebuilt
<1> QED
  BY <1>3, <1>4 DEF OnPorts

\* The requests that deploy the original configuration.
LEMMA DeployingRequests ==
  ASSUME MonitorInv, Requests, UNCHANGED monitor, Deploying, monitor.made, call.stage # "none",
         monitor.stage = "restoreInstruments"
  PROVE  Deploying'
<1>0. /\ call.kind = "deploy" /\ call.append = FALSE
      /\ call.specs = monitor.original
      /\ call.stage \in {"write", "list", "readback", "publish"} /\ call.ended = "no"
      /\ OnUnits(cache, monitor.unit) = {}
      /\ call.stage = "write" => Now \subseteq OnPorts(Now, SpecPorts(monitor.original))
      /\ call.stage # "write" => Rebuilt
      /\ call.stage \in {"readback", "publish"} => call.listed = Now
      /\ ModeBack
      /\ TypeOK /\ call \in CallRecords /\ monitor \in MonitorRecords
  BY DEF Deploying, MonitorInv, CacheInv, TypeOK, CallRecords
<1>u. PICK u \in Units : monitor.unit = {u} /\ \A s \in monitor.original : UnitOf[s.port] = u
  BY DEF MonitorInv, StartedInv
<1>m. /\ monitor.original = monitor.found /\ monitor.original # {}
      /\ monitor.gen <= gen
  BY DEF MonitorInv, StartedInv, Body
<1>1. CASE RequestFails
  BY <1>0, <1>1, EndedCalls DEF RequestFails, Deploying, ModeBack
<1>2. ASSUME NEW ports \in SUBSET Ports, Write(ports)
      PROVE  Deploying'
  <2>1. /\ call.stage = "write" /\ UNCHANGED <<mode, cache>>
        /\ ports \in SUBSET SpecPorts(monitor.original)
        /\ hw' = Written(monitor.original, ports, FALSE)
    BY <1>0, <1>2 DEF Write
  <2>2. /\ Now' \subseteq OnPorts(Now', SpecPorts(monitor.original))
        /\ ports = SpecPorts(monitor.original) => Rebuilt'
    BY <1>0, <1>u, <1>m, <2>1, Rewritten
  <2>3. ModeBack' /\ OnUnits(cache', monitor'.unit) = {}
    BY <1>0, <2>1 DEF ModeBack
  <2>4. CASE Fails
    BY <2>3, <2>4, EndedCalls DEF Deploying
  <2>5. CASE ports = SpecPorts(call.specs) /\ call' = [call EXCEPT !.stage = "list"]
    <3>1. /\ call'.stage = "list" /\ call'.kind = "deploy" /\ call'.append = FALSE
          /\ call'.specs = monitor'.original /\ call'.ended = "no"
      BY <1>0, <2>5 DEF CallRecords
    <3>2. Rebuilt'
      BY <1>0, <2>2, <2>5
    <3> QED
      BY <2>3, <3>1, <3>2 DEF Deploying
  <2>6. CASE call' = [call EXCEPT !.try = @ + 1]
    <3>1. /\ call'.stage = "write" /\ call'.kind = "deploy" /\ call'.append = FALSE
          /\ call'.specs = monitor'.original /\ call'.ended = "no"
      BY <1>0, <2>1, <2>6 DEF CallRecords
    <3> QED
      BY <2>2, <2>3, <3>1 DEF Deploying
  <2> QED
    BY <1>0, <1>2, <2>4, <2>5, <2>6 DEF Write
<1>3. CASE List
  <2>1. call.stage = "list" /\ UNCHANGED <<hw, mode, cache, gen>>
    BY <1>3 DEF List
  <2>2. {UnitOf[p] : p \in SpecPorts(call.specs)} = monitor.unit
    BY <1>0, <1>u, <1>m DEF SpecPorts
  <2>3. InScope(hw) = Now
    BY <1>0, <2>2 DEF InScope, Now
  <2>4. /\ call'.stage = "readback" /\ call'.kind = "deploy" /\ call'.append = FALSE
        /\ call'.specs = monitor'.original /\ call'.ended = "no" /\ call'.listed = Now
    BY <1>0, <1>3, <2>3 DEF List, CallRecords
  <2>5. ModeBack' /\ Rebuilt' /\ Now' = Now /\ OnUnits(cache', monitor'.unit) = {}
    BY <1>0, <2>1 DEF ModeBack, Rebuilt, Now
  <2> QED
    BY <2>4, <2>5 DEF Deploying
<1>4. CASE ReadBack
  <2>1. call.stage = "readback" /\ UNCHANGED <<hw, mode, cache, gen>>
    BY <1>4 DEF ReadBack
  <2>2. ASSUME NEW i \in Now
        PROVE  i.port \in SpecPorts(monitor.original)
    <3>1. SpecOf(i) \in monitor.original /\ SpecOf(i).port = i.port
      BY <1>0, <1>m, <2>1 DEF Rebuilt, SpecOf
    <3> QED
      BY <3>1 DEF SpecPorts
  <2>3. OnPorts(call.listed, SpecPorts(call.specs)) = Now
    BY <1>0, <2>1, <2>2 DEF OnPorts
  <2>4. /\ call'.stage = "publish" /\ call'.kind = "deploy" /\ call'.append = FALSE
        /\ call'.specs = monitor'.original /\ call'.ended = "no" /\ call'.listed = Now
    BY <1>0, <1>4, <2>3 DEF ReadBack, CallRecords
  <2>5. ModeBack' /\ Rebuilt' /\ Now' = Now /\ OnUnits(cache', monitor'.unit) = {}
    BY <1>0, <2>1 DEF ModeBack, Rebuilt, Now
  <2> QED
    BY <2>4, <2>5 DEF Deploying
<1>5. CASE Publish
  <2>1. call.stage = "publish" /\ UNCHANGED <<hw, mode, gen>>
    BY <1>5 DEF Publish
  <2>2. CASE cache' \in Published /\ Ends
    <3>1. cache' \in ReplacePorts(cache, SpecPorts(call.specs), call.listed)
      BY <1>0, <2>2 DEF Published
    <3>2. cache' = (cache \ OnPorts(cache, SpecPorts(call.specs))) \cup Now
      BY <1>0, <2>1, <3>1, ReplacePortsFacts
    <3>3. OnUnits(cache', monitor.unit) = Now
      BY <1>0, <3>2 DEF OnUnits, Now
    <3>4. Restored'
      BY <1>0, <2>1, <3>3 DEF Restored, ModeBack, Rebuilt, Now
    <3> QED
      BY <2>2, <3>4, EndedCalls DEF Deploying, Restored
  <2>3. CASE Fails
    BY <1>0, <2>1, <2>3, EndedCalls DEF Deploying, ModeBack
  <2> QED
    BY <1>5, <2>2, <2>3 DEF Publish
<1> QED
  BY <1>0, <1>1, <1>2, <1>3, <1>4, <1>5 DEF Requests, Connected, Discovered, ModeSet, Discard

\* The step with which the run makes a call of its finally clause.
LEMMA RestoreCalls ==
  ASSUME MonitorInv, RestoreInv, others' = monitor'.before,
         ClearUnit \/ SetMode \/ RestoreInstruments, monitor.stage \in RestoreStages
  PROVE  RestoreInv'
<1>0. /\ monitor \in MonitorRecords /\ call \in CallRecords
      /\ TargetUnit \in Units /\ monitor.unit = {TargetUnit}
      /\ monitor.mode \in Modes
  BY RunFacts DEF MonitorInv, CacheInv, TypeOK, RestoreStages, MonitorRecords
<1>1. /\ monitor' = [monitor EXCEPT !.made = TRUE] /\ ~monitor.made
      /\ monitor'.stage = monitor.stage /\ monitor'.unit = monitor.unit
      /\ monitor'.mode = monitor.mode /\ monitor'.foundMode = monitor.foundMode
      /\ monitor'.original = monitor.original /\ monitor'.before = monitor.before
      /\ monitor'.restored = monitor.restored
  BY <1>0 DEF ClearUnit, SetMode, RestoreInstruments, Making, Waiting, MonitorRecords
<1>2. /\ call'.stage # "none" /\ call'.ended = "no"
      /\ UNCHANGED <<hw, gen, foreign, others, mode>>
  BY CallBegins
<1>3. others = monitor.before /\ ~monitor.restored
  BY <1>1, <1>2 DEF MonitorInv, StartedInv, RestoreStages
<1>4. CASE ClearUnit
  <2>1. monitor.stage = "restoreClear" /\ Clear(TargetUnit)
    BY <1>4 DEF ClearUnit, Waiting, RestoreStages
  <2>2. /\ call'.kind = "clear" /\ call'.stage = "probe"
        /\ call'.units = {TargetUnit}
    BY <2>1, BeginFields DEF Clear
  <2> QED
    BY <1>0, <1>1, <1>2, <1>3, <2>1, <2>2 DEF RestoreInv, Clearing
<1>5. CASE SetMode
  <2>1. monitor.stage = "restoreMode" /\ ConfigureMonitorMode(TargetUnit, monitor.mode, FALSE)
    BY <1>5 DEF SetMode, Waiting, RestoreStages
  <2>2. /\ call'.kind = "mode" /\ call'.stage = "probe" /\ call'.clear = FALSE
        /\ call'.units = {TargetUnit} /\ call'.to = monitor.mode /\ UNCHANGED cache
    BY <2>1, BeginFields DEF ConfigureMonitorMode
  <2>3. Emptied'
    BY <1>1, <1>2, <1>3, <2>1, <2>2 DEF RestoreInv, SettingMode, Emptied, Now
  <2> QED
    BY <1>0, <1>1, <1>2, <1>3, <2>1, <2>2, <2>3 DEF RestoreInv, SettingMode
<1>6. CASE RestoreInstruments
  <2>1. /\ monitor.stage = "restoreInstruments"
        /\ call'.kind = "deploy" /\ call'.stage = "write"
        /\ call'.specs = monitor.original /\ call'.append = FALSE /\ cache' \subseteq cache
    BY <1>6, RestoreBegins DEF RestoreInstruments, Waiting
  <2>2. ModeBack /\ Emptied
    BY <1>1, <1>3, <2>1 DEF RestoreInv, Deploying
  <2>3. ModeBack' /\ Now' = {} /\ OnUnits(cache', monitor'.unit) = {}
    BY <1>1, <1>2, <2>1, <2>2 DEF ModeBack, Emptied, Now, OnUnits
  <2> QED
    BY <1>1, <1>2, <1>3, <2>1, <2>3 DEF RestoreInv, Deploying
<1> QED
  BY <1>4, <1>5, <1>6

\* The finally clause goes on when a call of it has returned, and ends the run
\* when one has raised.
LEMMA RestoreReturns ==
  ASSUME MonitorInv, others' = monitor'.before,
         Refused \/ Execute \/ Return
  PROVE  RestoreInv'
<1>0. monitor \in MonitorRecords /\ StartedInv
  BY DEF MonitorInv
<1>1. UNCHANGED vars /\ call.stage = "none"
  BY OwnSteps DEF Refused, Execute, Return, Waiting
<1>2. ~monitor.restored
  BY <1>0 DEF Refused, Execute, Return, Waiting, StartedInv
<1>3. CASE monitor' = Raised \/ monitor' = Captured
  <2>1. /\ monitor'.stage \in {"target", "restoreClear", "ended"} /\ ~monitor'.made
        /\ ~monitor'.restored
    BY <1>0, <1>2, <1>3 DEF Raised, Captured, To, MonitorRecords
  <2> QED
    BY <2>1 DEF RestoreInv, Clearing
<1>4. CASE Return /\ monitor' = After /\ call.ended = "ok"
  <2>0. monitor.made
    BY <1>4 DEF Return
  <2>1. CASE monitor.stage = "restoreInstruments"
    <3>1. monitor' = [monitor EXCEPT !.stage = "ended", !.made = FALSE, !.restored = TRUE]
      BY <1>0, <1>4, <2>0, <2>1, AfterFields DEF To, MonitorRecords
    <3>2. /\ monitor'.stage = "ended" /\ monitor'.unit = monitor.unit
          /\ monitor'.found = monitor.found /\ monitor'.foundMode = monitor.foundMode
          /\ monitor'.gen = monitor.gen /\ monitor'.before = monitor.before
      BY <1>0, <3>1 DEF MonitorRecords
    <3>3. Restored
      BY <1>1, <1>4, <2>0, <2>1, <3>2 DEF MonitorInv, RestoreInv, Deploying, vars
    <3>4. Restored'
      BY <1>1, <3>2, <3>3 DEF Restored, ModeBack, Rebuilt, Now, vars
    <3> QED
      BY <3>2, <3>4 DEF RestoreInv
  <2>2. CASE monitor.stage # "restoreInstruments"
    <3>1. /\ monitor' = [monitor EXCEPT !.stage = After.stage, !.made = FALSE]
          /\ \/ After.stage \in Body
             \/ monitor.stage = "restoreClear" /\ After.stage = "restoreMode"
             \/ monitor.stage = "restoreMode" /\ After.stage = "restoreInstruments"
      BY <1>0, <1>4, <2>0, <2>2, AfterFields DEF Body
    <3>2. /\ monitor'.stage = After.stage /\ monitor'.unit = monitor.unit
          /\ monitor'.foundMode = monitor.foundMode /\ ~monitor'.restored
          /\ ~monitor'.made /\ monitor'.before = monitor.before
      BY <1>0, <1>2, <3>1 DEF MonitorRecords
    <3>3. CASE After.stage \in Body
      BY <3>2, <3>3 DEF RestoreInv, Body
    <3>4. CASE monitor.stage = "restoreClear" /\ After.stage = "restoreMode"
      <4>1. Emptied
        BY <1>1, <1>4, <2>0, <3>2, <3>4 DEF MonitorInv, RestoreInv, Clearing, vars
      <4>2. Emptied'
        BY <1>1, <3>2, <4>1 DEF Emptied, Now, vars
      <4> QED
        BY <3>2, <3>4, <4>2 DEF RestoreInv, SettingMode
    <3>5. CASE monitor.stage = "restoreMode" /\ After.stage = "restoreInstruments"
      <4>1. Emptied /\ ModeBack
        BY <1>1, <1>4, <2>0, <3>2, <3>5 DEF MonitorInv, RestoreInv, SettingMode, vars
      <4>2. Emptied' /\ ModeBack'
        BY <1>1, <3>2, <4>1 DEF Emptied, ModeBack, Now, vars
      <4> QED
        BY <3>2, <3>5, <4>2 DEF RestoreInv, Deploying
    <3> QED
      BY <3>1, <3>3, <3>4, <3>5
  <2> QED
    BY <2>1, <2>2
<1> QED
  BY <1>3, <1>4 DEF Refused, Execute, Return

\* Every step keeps what the finally clause has done so far.
LEMMA RestoreStep ==
  ASSUME MonitorInv, [MonitorNext]_monitorVars
  PROVE  RestoreInv'
<1> SUFFICES ASSUME others' = monitor'.before PROVE RestoreInv'
  BY DEF RestoreInv
<1>0. /\ monitor \in MonitorRecords /\ StartedInv /\ StartedInv'
      /\ monitor.before \in Nat /\ others \in Nat
  BY StartedStep, BoundsAssumption DEF MonitorInv, MonitorRecords, CacheInv, TypeOK
<1>1. CASE monitor'.stage \in {"waiting"} \cup Body
  BY <1>0, <1>1 DEF RestoreInv, StartedInv, Body
<1>2. ASSUME NEW targets \in SUBSET hw, NEW alias \in MonitorAliases, Start(targets, alias)
      PROVE  RestoreInv'
  <2>1. monitor'.stage = "clear"
    BY <1>0, <1>2 DEF Start, To, MonitorRecords
  <2> QED
    BY <1>1, <2>1 DEF Body
<1>3. CASE ClearUnit \/ SetMode \/ DeployTarget \/ RestoreInstruments \/ Recover
  <2>1. CASE monitor.stage \in RestoreStages
    <3>1. ClearUnit \/ SetMode \/ RestoreInstruments
      BY <1>3, <2>1 DEF DeployTarget, Recover, Waiting, RestoreStages
    <3> QED
      BY <2>1, <3>1, RestoreCalls DEF MonitorInv
  <2>2. CASE monitor.stage \notin RestoreStages
    <3>1. monitor'.stage \in Body
      BY <1>0, <1>3, <2>2 DEF ClearUnit, SetMode, DeployTarget, RestoreInstruments, Recover,
                              Making, Waiting, To, RestoreStages, Body, MonitorRecords
    <3> QED
      BY <1>1, <3>1
  <2> QED
    BY <2>1, <2>2
<1>4. CASE Refused \/ Execute \/ Return
  BY <1>4, RestoreReturns
<1>5. CASE UNCHANGED monitor /\ monitor.stage \notin {"waiting"} \cup Body
  <2>1. CASE UNCHANGED vars
    BY <1>5, <2>1 DEF MonitorInv, RestoreInv, Clearing, SettingMode, Deploying, Restored, Emptied,
                      ModeBack, Rebuilt, Now, vars
  <2>2. CASE OtherUsers
    <3>1. others' = others + 1 /\ monitor.before <= others
      BY <1>0, <1>5, <2>2 DEF OtherUsers, Foreign, StartedInv
    <3> QED
      BY <1>0, <1>5, <3>1
  <2>3. CASE Requests
    <3>1. call.stage # "none" /\ UNCHANGED others
      BY <2>3 DEF Requests, RequestFails, Connected, Discovered, ModeSet, List, ReadBack, Publish,
                  Discard, Write
    <3>2. monitor.made /\ ~monitor.restored /\ monitor.mode = monitor.foundMode
      BY <1>0, <1>5, <3>1 DEF StartedInv
    <3>3. monitor.stage = "restoreClear" => Clearing'
      BY <1>5, <2>3, <3>1, <3>2, ClearingRequests DEF MonitorInv, RestoreInv
    <3>4. monitor.stage = "restoreMode" => SettingMode'
      BY <1>5, <2>3, <3>1, <3>2, SettingModeRequests DEF MonitorInv, RestoreInv
    <3>5. monitor.stage = "restoreInstruments" => Deploying'
      BY <1>5, <2>3, <3>1, <3>2, DeployingRequests DEF MonitorInv, RestoreInv
    <3> QED
      BY <1>5, <3>2, <3>3, <3>4, <3>5 DEF RestoreInv
  <2>4. CASE CallsBefore
    BY <1>5, <2>4 DEF CallsBefore
  <2>5. CASE Monitor
    BY <1>2, <1>3, <1>4, <2>5 DEF Monitor
  <2> QED
    BY <2>1, <2>2, <2>3, <2>4, <2>5 DEF MonitorNext, MonitorDone, monitorVars
<1> QED
  BY <1>1, <1>2, <1>3, <1>4, <1>5 DEF MonitorNext, Monitor, CallsBefore, MonitorDone, monitorVars

-----------------------------------------------------------------------------
(* The specification.                                                        *)

\* The invariant of the run holds before it starts.
LEMMA MonitorStarts == MonitorInit => MonitorInv
<1> SUFFICES ASSUME MonitorInit PROVE MonitorInv
  OBVIOUS
<1>1. Init
  BY DEF MonitorInit
<1>2. CacheInv
  <2>1. TypeOK
    BY <1>1, InitTypes
  <2> QED
    BY <1>1, <2>1 DEF Init, Idle, CacheInv, StageInv, UncachedFirst, ReadTruth, CacheTruth,
                      OneInstrumentPerAlias, Indexable
<1>3. monitor \in MonitorRecords /\ StartedInv
  BY <1>1 DEF MonitorInit, Init, MonitorRecords, Modes, StartedInv, Body
<1>4. RestoreInv
  BY DEF MonitorInit, RestoreInv
<1> QED
  BY <1>2, <1>3, <1>4 DEF MonitorInv

\* The cache is true, the run keeps what it took down when it started, and its
\* finally clause does what it is about to claim.
THEOREM MonitorInductive == RunSpec => []MonitorInv
<1>1. MonitorInv /\ [MonitorNext]_monitorVars => MonitorInv'
  BY CacheInvStep, MonitorRecordStep, StartedStep, RestoreStep DEF MonitorInv
<1> QED
  BY <1>1, MonitorStarts, PTL DEF RunSpec

\* MonitorRestores: after a finally clause that went through, unit, mode and
\* cache are as run_schedule found them, for any units, ports and schedules and
\* however often the requests of its body and its clause failed or were tried.
THEOREM RunRestores == RunSpec => []MonitorRestores
<1>1. MonitorInv => MonitorRestores
  BY DEF MonitorInv, StartedInv, RestoreInv, Restored, ModeBack, Rebuilt, Now, MonitorRestores
<1> QED
  BY <1>1, MonitorInductive, PTL

\* CacheTruth holds beneath a run as well, which deploys sets of instruments
\* that are no configuration of the caller's.
THEOREM RunKeepsCacheTrue == RunSpec => []CacheTruth
<1>1. MonitorInv => CacheTruth
  BY DEF MonitorInv, CacheInv
<1> QED
  BY <1>1, MonitorInductive, PTL
================================================================================
