----------------------------- MODULE PalletItems -----------------------------
(***************************************************************************)
(* The /pallets routes that look up a pallet of the metadata, by its name   *)
(* or its index, and an item of it: storage, constants, errors, events and  *)
(* dispatchables (AbstractPalletsService and the five services).            *)
(***************************************************************************)
EXTENDS Answer, Sequences, FiniteSets, SequencesExt

\* The metadata of a block is a sequence of pallets [name, index, items]; items
\* has for each field a sequence of [name, index], or Null if the pallet has none.
\* A path names a pallet by [name, number], the number being Null if the name is
\* not one, and an item by [name, exact], exact if its case is that of the
\* metadata.  Names stand for what they are in lower case.

ItemFields == {"storage", "constants", "errors", "events", "calls"}

ASSUME ItemAssumption == Null \notin [name : STRING, index : Nat]

NoIndex == 255  \* metadata V11 and older do not number their pallets

-----------------------------------------------------------------------------
(* findPalletMeta *)

WithItems(metadata, field) == Kept(metadata, {k \in DOMAIN metadata : metadata[k].items[field] # Null})

\* The index of the pallet at a position of a list, counted from 0.
IndexAt(pallets, position) ==
  IF pallets[position].index = NoIndex THEN position - 1 ELSE pallets[position].index

\* A number that is no index of the metadata, or a name of no pallet of it.
Unrecognized(metadata, id) ==
  IF id.number = Null THEN \A p \in ToSet(metadata) : p.name # id.name
  ELSE \A k \in DOMAIN metadata : IndexAt(metadata, k) # id.number

Matches(pallets, id) ==
  {k \in DOMAIN pallets : IF id.number = Null THEN pallets[k].name = id.name
                          ELSE IndexAt(pallets, k) = id.number}

FirstMatch(pallets, id) ==
  CHOOSE k \in Matches(pallets, id) : \A j \in Matches(pallets, id) : k <= j

\* Faulty: the position answered counts the pallets that lack the field.
FindPalletAmongAll(metadata, id, field) ==
  LET pallets == WithItems(metadata, field)
      pallet == pallets[FirstMatch(pallets, id)]
  IN  IF Unrecognized(metadata, id) \/ Matches(pallets, id) = {} THEN Error
      ELSE [pallet |-> pallet,
            index |-> IndexAt(metadata, SelectInSeq(metadata, LAMBDA p : p = pallet))]

FindPallet(metadata, id, field) ==
  LET pallets == WithItems(metadata, field)
      first == FirstMatch(pallets, id)
  IN  IF Unrecognized(metadata, id) \/ Matches(pallets, id) = {} THEN Error
      ELSE [pallet |-> pallets[first], index |-> IndexAt(pallets, first)]

-----------------------------------------------------------------------------
(* The items.  Dispatchables are those of the runtime at the head.            *)

\* The position of the first that has a name, 0 if none has.
PositionOf(name, s) == SelectInSeq(s, LAMBDA p : p.name = name)

\* Null if that runtime has no such pallet, of which the entries cannot be read.
Dispatchables(head, pallet) ==
  LET position == PositionOf(pallet.name, head)
  IN  IF position = 0 THEN Null ELSE head[position].items["calls"]

ItemsOf(head, pallet, field) ==
  IF field = "calls" THEN Dispatchables(head, pallet) ELSE pallet.items[field]

\* An item is found by its name.  Of storage and constants the item found is
\* told; of the others the one at the position that the item's index names.
MetaOf(items, field, position) ==
  LET entry == items[position].index + 1
  IN  IF field \in {"storage", "constants"} THEN items[position]
      ELSE IF entry \in DOMAIN items THEN items[entry] ELSE Null

\* The metadata of an entry that does not exist cannot be told, and a value is
\* queried by the name in the path.
FetchItem(metadata, head, palletId, itemId, field, withMeta) ==
  LET found == FindPallet(metadata, palletId, field)
      items == ItemsOf(head, found.pallet, field)
      position == PositionOf(itemId.name, items)
      meta == MetaOf(items, field, position)
  IN  IF \/ found = Error
         \/ items = Null
         \/ position = 0
         \/ withMeta /\ meta = Null
         \/ field = "storage" /\ ~itemId.exact
      THEN Error
      ELSE [pallet |-> found.pallet.name, palletIndex |-> found.index, item |-> itemId.name,
            metadata |-> IF withMeta THEN meta ELSE Null]

FetchItems(metadata, head, palletId, field) ==
  LET found == FindPallet(metadata, palletId, field)
      items == ItemsOf(head, found.pallet, field)
  IN  IF found = Error \/ items = Null THEN Error
      ELSE [pallet |-> found.pallet.name, palletIndex |-> found.index, items |-> items]

-----------------------------------------------------------------------------
(* Properties. *)

ById(number) == [name |-> "", number |-> number]

Numbered(metadata) == \A p \in ToSet(metadata) : p.index # NoIndex

\* The index a route answers for a pallet's name leads back to the pallet on
\* that route, under the old metadata as well, and if pallets are numbered it
\* is the same index on all routes.
PalletLookupsAgree(metadata, name) ==
  LET found(field) == FindPallet(metadata, [name |-> name, number |-> Null], field)
  IN  /\ \A field \in ItemFields :
           found(field) # Error =>
             FindPallet(metadata, ById(found(field).index), field) = found(field)
      /\ Numbered(metadata) =>
           \A f, g \in ItemFields : found(f) # Error /\ found(g) # Error => found(f) = found(g)

\* An item can be asked for exactly if it is listed; it is one of the block's
\* own runtime, unless it is a dispatchable; and the metadata told is its own
\* if the items are numbered without a gap.
ItemsAgree(metadata, head, palletId, itemId, field) ==
  LET item == FetchItem(metadata, head, palletId, itemId, field, FALSE)
      told == FetchItem(metadata, head, palletId, itemId, field, TRUE)
      list == FetchItems(metadata, head, palletId, field)
      dense(items) == \A k \in DOMAIN items : items[k].index = k - 1
  IN  /\ itemId.exact =>
           (item # Error <=> list # Error /\ \E i \in ToSet(list.items) : i.name = itemId.name)
      /\ item # Error /\ field # "calls" =>
           \E p \in ToSet(metadata) : /\ p.name = item.pallet /\ p.items[field] # Null
                                      /\ \E i \in ToSet(p.items[field]) : i.name = itemId.name
      /\ item # Error /\ (field \in {"storage", "constants"} \/ dense(list.items)) =>
           told # Error /\ told.metadata.name = itemId.name
      /\ told # Error => item = [told EXCEPT !.metadata = Null]
=============================================================================
