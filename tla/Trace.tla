-------------------------------- MODULE Trace --------------------------------
(***************************************************************************)
(* GET /experimental/blocks/{blockId}/traces/operations: the spans of a    *)
(* block's trace are grouped under the children of execute_block, and each *)
(* change between two consecutive accesses to an account becomes an        *)
(* operation that says in which extrinsic or hook it happened.             *)
(*                                                                         *)
(* Span ids are those of the node: unique, and 0 stands for "no parent",   *)
(* as it does in the code, which tests ids for truth.                      *)
(***************************************************************************)
EXTENDS Answer, Sequences, FiniteSets, SequencesExt, FiniteSetsExt

\* The balances of AccountInfo.data that become operations.
Fields == {"free", "reserved", "miscFrozen", "feeFrozen"}

\* A trace is [spans, events].  A span is [id, parent, name].  An event is
\* [span, path]: path "index" has the extrinsic index that was read, path
\* "account" an address and its data; everything else is path "other".

-----------------------------------------------------------------------------
(* parseSpans *)

SpanOf(t, id) == CHOOSE s \in ToSet(t.spans) : s.id = id
Ids(t) == {s.id : s \in ToSet(t.spans)}
ExecuteBlocks(t) == Kept(t.spans, {k \in DOMAIN t.spans : t.spans[k].name = "execute_block"})

\* Each span's id is pushed on the children of its parent, in trace order.
Children(t, id) ==
  LET own == Kept(t.spans, {k \in DOMAIN t.spans : t.spans[k].parent # 0 /\ t.spans[k].parent = id})
  IN  [i \in DOMAIN own |-> own[i].id]

SpansRefused(t) ==
  \/ Len(ExecuteBlocks(t)) # 1
  \/ \E s \in ToSet(t.spans) : s.parent # 0 /\ s.parent \notin Ids(t)

-----------------------------------------------------------------------------
(* findDescendants *)

\* Faulty: the children of the children are not visited.
DescendantsDirect(t, root) == Reverse(Children(t, root))

\* One round of the loop: an id is popped and its children are pushed.
PopSpan(t, st) ==
  LET cur == Last(st.stack)
  IN  IF st.stack = <<>> \/ cur = 0 THEN [st EXCEPT !.stack = <<>>]
      ELSE [stack |-> Front(st.stack) \o Children(t, cur), found |-> Append(st.found, cur)]

Descendants(t, root) ==
  FoldLeft(LAMBDA st, s : PopSpan(t, st), [stack |-> Children(t, root), found |-> <<>>],
           t.spans).found

-----------------------------------------------------------------------------
(* parseEvents and extractExtrinsicIndex *)

EventsOf(t, id) == {e \in DOMAIN t.events : t.events[e].span = id}

\* The last :extrinsic_index that was read in a span.
IndexOfSpan(t, id) ==
  LET reads == {e \in EventsOf(t, id) : t.events[e].path = "index"}
  IN  IF reads = {} THEN Null ELSE t.events[Max(reads)].index

\* The indices of an action group's spans; extractExtrinsicIndex throws if
\* there are two.
IndicesOf(t, ids) == {IndexOfSpan(t, id) : id \in ids} \ {Null}

-----------------------------------------------------------------------------
(* actionsAndOps *)

Primaries(t) ==
  Kept(t.spans, {k \in DOMAIN t.spans : t.spans[k].parent = Head(ExecuteBlocks(t)).id})

GroupOf(t, primary) == {primary.id} \cup ToSet(Descendants(t, primary.id))

IsExtrinsic(primary) == primary.name = "apply_extrinsic"

IndexRefused(t, primary) ==
  IsExtrinsic(primary) /\ Cardinality(IndicesOf(t, GroupOf(t, primary))) > 1

\* A hook is named by the first span that is found below its primary span.
ActionPhase(t, primary) ==
  LET below == Descendants(t, primary.id)
  IN  IF IsExtrinsic(primary) \/ below = <<>> THEN primary.name
      ELSE SpanOf(t, Head(below)).name

Action(t, primary) ==
  LET indices == IndicesOf(t, GroupOf(t, primary))
  IN  [primarySpan |-> primary.id,
       phase |-> ActionPhase(t, primary),
       extrinsicIndex |-> IF IsExtrinsic(primary) /\ indices # {}
                          THEN CHOOSE i \in indices : TRUE ELSE Null,
       \* Nothing is attributed when the primary span has no event of its own.
       events |-> IF EventsOf(t, primary.id) = {} THEN {}
                  ELSE UNION {EventsOf(t, id) : id \in GroupOf(t, primary)}]

ActionsOf(t) == [k \in DOMAIN Primaries(t) |-> Action(t, Primaries(t)[k])]

\* No attribution is the undefined of an event that no action claims.
ASSUME AttributionAssumption ==
  Null \notin [primarySpan : Nat, phase : STRING, extrinsicIndex : Nat \cup {Null}]

\* What the loop over the actions writes into an event; undefined otherwise.
Attribution(t, e) ==
  LET found == {a \in ToSet(ActionsOf(t)) : e \in a.events}
  IN  IF found = {} THEN Null
      ELSE LET a == CHOOSE a \in found : TRUE
           IN  [primarySpan |-> a.primarySpan, phase |-> a.phase,
                extrinsicIndex |-> a.extrinsicIndex]

-----------------------------------------------------------------------------
(* accountEventsByAddress and deriveOperations *)

AccountEvents(t, address) ==
  Kept([e \in DOMAIN t.events |-> e],
       {e \in DOMAIN t.events : t.events[e].path = "account" /\ t.events[e].address = address})

Addresses(t) == {t.events[e].address : e \in {i \in DOMAIN t.events :
                                               t.events[i].path = "account"}}

\* The operations of one address: the fields that differ from the access before.
OperationsOf(t, address) ==
  LET events == AccountEvents(t, address)
      delta(i, f) == t.events[events[i]].data[f] - t.events[events[i - 1]].data[f]
      changes == {c \in (DOMAIN events \ {1}) \X Fields : delta(c[1], c[2]) # 0}
  IN  {[eventIndex |-> events[c[1]], address |-> address, field |-> c[2],
        value |-> delta(c[1], c[2]), parentSpan |-> t.events[events[c[1]]].span,
        at |-> Attribution(t, events[c[1]])] : c \in changes}

ActionsAndOps(t) ==
  IF SpansRefused(t) \/ \E k \in DOMAIN Primaries(t) : IndexRefused(t, Primaries(t)[k])
  THEN Error
  ELSE [actions |-> ActionsOf(t),
        operations |-> UNION {OperationsOf(t, a) : a \in Addresses(t)}]

-----------------------------------------------------------------------------
(* Properties. *)

\* The spans on the way from span id up to the root.
Path(t, id) ==
  FoldLeft(LAMBDA path, s : IF SpanOf(t, Last(path)).parent = 0 THEN path
                            ELSE Append(path, SpanOf(t, Last(path)).parent),
           <<id>>, t.spans)

\* The amounts of an address add up to the change of its balance over the
\* block: no change is lost, told twice or told of another address.
OperationsConserve(t) ==
  ActionsAndOps(t) # Error =>
    \A a \in Addresses(t), f \in Fields :
      LET ops == {op \in ActionsAndOps(t).operations : op.address = a /\ op.field = f}
          events == AccountEvents(t, a)
      IN  FoldSet(LAMBDA op, sum : op.value + sum, 0, ops)
            = t.events[Last(events)].data[f] - t.events[Head(events)].data[f]

\* An operation is told to belong to the extrinsic or hook in whose span it
\* happened, at any depth, and to the index that was read there; provided that
\* the extrinsic or hook accessed storage in its own span.
OperationsAttributed(t) ==
  ActionsAndOps(t) # Error =>
    \A op \in ActionsAndOps(t).operations, p \in ToSet(Primaries(t)) :
      EventsOf(t, p.id) # {} /\ p.id \in ToSet(Path(t, op.parentSpan)) =>
        /\ op.at # Null /\ op.at.primarySpan = p.id
        /\ IsExtrinsic(p) => op.at.phase = "apply_extrinsic"
        /\ \A id \in Ids(t) :
             IsExtrinsic(p) /\ p.id \in ToSet(Path(t, id)) /\ IndexOfSpan(t, id) # Null
             => op.at.extrinsicIndex = IndexOfSpan(t, id)
=============================================================================
