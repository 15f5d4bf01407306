--------------------------- MODULE InstrumentCaches ---------------------------
(***************************************************************************)
(* The values of the QuEL-3 instrument cache and the operations of         *)
(* InstrumentCache on them.  An instrument is a record whose alias is      *)
(* normalized and whose `gen` stands for the resource id: hardware never   *)
(* gives the id of a removed instrument to a later one.  A cache maps each *)
(* alias to one instrument; it is written as the set of the instruments.   *)
(* A replacement is the set of the caches it may publish: none when the    *)
(* code raises ValueError and keeps the cache it has.                      *)
(***************************************************************************)
EXTENDS FiniteSets, Naturals

CONSTANTS Aliases, Ports, Units,
          UnitOf    \* UnitOf[p]: the unit in the id of port p

ASSUME UnitOfAssumption == UnitOf \in [Ports -> Units]

Instruments == [alias : Aliases, port : Ports, gen : Nat]

\* _index: an alias occurs once (a resource id always does: infos is a set).
Indexable(infos) ==
    \A i, j \in infos : i.alias = j.alias => i = j

OnPorts(infos, ports) == {i \in infos : i.port \in ports}
OnUnits(infos, units) == {i \in infos : UnitOf[i.port] \in units}
OfAliases(infos, aliases) == {i \in infos : i.alias \in aliases}

\* _replace_scope: the entries in scope give way to the incoming ones, if
\* these lie in the scope and the whole can be indexed.
ReplaceScope(cache, scope, incoming) ==
    {new \in {(cache \ scope) \cup incoming} : Indexable(new)}

ReplacePorts(cache, ports, incoming) ==
    IF OnPorts(incoming, ports) # incoming THEN {}
    ELSE ReplaceScope(cache, OnPorts(cache, ports), incoming)

ReplaceUnits(cache, units, incoming) ==
    IF OnUnits(incoming, units) # incoming THEN {}
    ELSE ReplaceScope(cache, OnUnits(cache, units), incoming)

ReplaceAliases(cache, aliases, incoming) ==
    IF OfAliases(incoming, aliases) # incoming THEN {}
    ELSE ReplaceScope(cache, OfAliases(cache, aliases), incoming)

ReplaceWhole(incoming) == ReplaceScope({}, {}, incoming)

\* replace_all(allow_duplicate_aliases=True): one instrument of each alias is
\* kept, the last in readback order, which is any.
OnePerAlias(incoming) ==
    {kept \in SUBSET incoming :
        /\ Indexable(kept)
        /\ {i.alias : i \in kept} = {i.alias : i \in incoming}}
================================================================================
