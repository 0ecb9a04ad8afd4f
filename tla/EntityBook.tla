------------------------------ MODULE EntityBook ------------------------------
(* EntityStateBook: the latest admitted revision of each analytical entity, *)
(* under a limit for all entities, for those of an instrument and for those *)
(* of one type of an instrument.  A new entity may displace entities whose  *)
(* lifecycle has ended.  A revision is a record                             *)
(*   id, rev, prev   its entity, its number and the number it follows, or 0 *)
(*   life            its lifecycle                                          *)
(*   effective, published   its times                                       *)
(*   restored        it comes from a checkpoint                             *)
(*   content         what else its signature tells apart                    *)
EXTENDS Integers, FiniteSets, Functions

CONSTANTS
    Entities,      \* entity ids: numbers, whose order breaks ties of eviction
    Instrument, EntityType, Durability,   \* of each entity
    MaximumEntities, MaximumPerInstrument, MaximumPerType,
    Proposed       \* revisions that producers offer

Lifecycles ==
    {"WARMING", "ACTIVE", "COMPLETE", "DEGRADED", "STALE", "INVALIDATED", "EXPIRED"}
TerminalLifecycles == {"COMPLETE", "INVALIDATED", "EXPIRED"}

(* What the constructor of EntityRevision requires.                         *)
Constructible(r) ==
    /\ r.rev \in Nat \ {0} /\ r.prev \in Nat /\ r.prev < r.rev
    /\ r.life \in Lifecycles
    /\ {r.effective, r.published} \subseteq Int /\ r.effective <= r.published

ASSUME BookAssumption ==
    /\ Entities \subseteq Nat /\ IsFiniteSet(Entities)
    /\ {MaximumEntities, MaximumPerInstrument, MaximumPerType} \subseteq Nat \ {0}
    /\ MaximumPerInstrument <= MaximumEntities /\ MaximumPerType <= MaximumEntities
    /\ \A r \in Proposed : r.id \in Entities /\ Constructible(r)

VARIABLES
    book,    \* the admitted revision of each entity
    \* History.
    owed     \* entities whose last admitted revision has not ended

bookVars == <<book, owed>>

------------------------------------------------------------------------------
(* EntityRegistry.validate_revision: what durability lets a restored        *)
(* revision be.  A revision it refuses raises out of admit.                 *)
Permitted(r) ==
    r.restored =>
        /\ Durability[r.id] # "TRANSIENT"
        /\ Durability[r.id] = "CROSS_SESSION_CHECKPOINT" => r.life \in {"DEGRADED", "STALE"}

OfInstrument(b, id) == {e \in DOMAIN b : Instrument[e] = Instrument[id]}
OfType(b, id) == {e \in OfInstrument(b, id) : EntityType[e] = EntityType[id]}

(* _violating_scope: the entities among which room is needed, none if the   *)
(* book with the new entity is within the limits that concern it.           *)
ViolatingScope(b, id) ==
    CASE Cardinality(OfInstrument(b, id)) > MaximumPerInstrument -> OfInstrument(b, id)
      [] /\ Cardinality(OfInstrument(b, id)) <= MaximumPerInstrument
         /\ Cardinality(OfType(b, id)) > MaximumPerType -> OfType(b, id)
      [] /\ Cardinality(OfInstrument(b, id)) <= MaximumPerInstrument
         /\ Cardinality(OfType(b, id)) <= MaximumPerType
         /\ Cardinality(DOMAIN b) > MaximumEntities -> DOMAIN b
      [] OTHER -> {}

(* Fault: a scope is searched for any entity but the new one.               *)
EndedWhatever(b, among, id) == among \ {id}
EndedAmong(b, among, id) == {e \in among \ {id} : b[e].life \in TerminalLifecycles}

EvictsBefore(b, d, e) ==
    b[d].published < b[e].published \/ (b[d].published = b[e].published /\ d < e)

FirstEvicted(b, among) == CHOOSE e \in among : \A o \in among \ {e} : EvictsBefore(b, e, o)

(* _enforce_limits: the ids that stay, or none of them when no ended entity *)
(* can make room.                                                           *)
Enforced(b, id) ==
    LET kept[ids \in SUBSET DOMAIN b] ==
            LET now == Restrict(b, ids)
                scope == ViolatingScope(now, id)
            IN  IF scope = {} THEN ids
                ELSE IF EndedAmong(now, scope, id) = {} THEN {}
                ELSE kept[ids \ {FirstEvicted(now, EndedAmong(now, scope, id))}]
    IN  kept[DOMAIN b]

Signature(r) == <<r.life, r.restored, r.content>>

Entered(b, r) == [e \in DOMAIN b \cup {r.id} |-> IF e = r.id THEN r ELSE b[e]]

(* _admit_revision accepts it as an update.                                 *)
UpdateOf(current, r) ==
    /\ r.rev = current.rev + 1 /\ r.prev = current.rev
    /\ r.effective >= current.effective /\ r.published >= current.published
    /\ Signature(r) # Signature(current)

Begins(r) == IF r.restored THEN r.prev = r.rev - 1 ELSE r.rev = 1 /\ r.prev = 0

------------------------------------------------------------------------------
BookInit == book = <<>> /\ owed = {}

SetBook(b, r) ==
    /\ book' = b
    /\ owed' = IF r.life \in TerminalLifecycles THEN owed \ {r.id} ELSE owed \cup {r.id}

(* Every other outcome of admit leaves the book as it was.                  *)
Admit(r) ==
    /\ Permitted(r)
    /\ \/ r.id \in DOMAIN book /\ UpdateOf(book[r.id], r) /\ SetBook(Entered(book, r), r)
       \/ /\ r.id \notin DOMAIN book /\ Begins(r)
          /\ LET kept == Enforced(Entered(book, r), r.id)
             IN  kept # {} /\ SetBook(Restrict(Entered(book, r), kept), r)

Prunable(before) ==
    {e \in DOMAIN book : book[e].life \in TerminalLifecycles /\ book[e].published < before}

(* prune_terminal removes the oldest of them, up to a number.               *)
Prune(before, maximum) ==
    \E removed \in SUBSET Prunable(before) :
        /\ Cardinality(removed) = (IF Cardinality(Prunable(before)) < maximum
                                   THEN Cardinality(Prunable(before)) ELSE maximum)
        /\ \A e \in removed, o \in Prunable(before) \ removed : EvictsBefore(book, e, o)
        /\ book' = Restrict(book, DOMAIN book \ removed)
        /\ UNCHANGED owed

BookNext ==
    \/ \E r \in Proposed : Admit(r)
    \/ \E before \in {r.published : r \in Proposed}, maximum \in 1..2 : Prune(before, maximum)

BookSpec == BookInit /\ [][BookNext]_bookVars

------------------------------------------------------------------------------
WithinBook(ids) ==
    /\ Cardinality(ids) <= MaximumEntities
    /\ \A e \in ids :
          /\ Cardinality({o \in ids : Instrument[o] = Instrument[e]}) <= MaximumPerInstrument
          /\ Cardinality({o \in ids : Instrument[o] = Instrument[e]
                                      /\ EntityType[o] = EntityType[e]}) <= MaximumPerType

(* Every limit holds, of every instrument and type, after any history of    *)
(* admissions, evictions and removals.                                      *)
BookFits == WithinBook(DOMAIN book)

(* An entity is given up only after its lifecycle has ended.                *)
LiveKept == owed = {e \in DOMAIN book : book[e].life \notin TerminalLifecycles}

(* A new entity is refused for capacity only when no removal of ended       *)
(* entities could make room, and one is displaced only if it must be: the   *)
(* loop over scopes never gives up although another choice would do, nor    *)
(* evicts more than two.                                                    *)
RefusalIsReal ==
    \A id \in Entities \ DOMAIN book :
        \A r \in {p \in Proposed : p.id = id} :
            LET all == DOMAIN book \cup {id}
                ended == EndedAmong(book, DOMAIN book, id)
                kept == Enforced(Entered(book, r), id)
            IN  /\ kept = {} <=> ~\E gone \in SUBSET ended : WithinBook(all \ gone)
                /\ kept # {} => /\ WithinBook(kept) /\ all \ kept \subseteq ended
                                /\ Cardinality(all \ kept) <= 2
                                /\ WithinBook(all) => kept = all

BookInv == BookFits /\ LiveKept /\ RefusalIsReal
=============================================================================
