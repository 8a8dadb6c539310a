---------------------------- MODULE BlockContents ----------------------------
(***************************************************************************)
(* What fetchBlock makes of a block it has fetched: the events are handed  *)
(* to the extrinsics and hooks they happened in, and the messages between  *)
(* chains are decoded.                                                     *)
(***************************************************************************)
EXTENDS Answer, Sequences, FiniteSets, SequencesExt

\* An extrinsic of a block is [signed].  An event is [phase, index, pallet,
\* method, paysFee]: the phase is "ApplyExtrinsic", with the index of the
\* extrinsic from 0, or a hook; paysFee, what each item of its data says of the
\* fee.  The events are Null if they cannot be fetched.

Completions == {"ExtrinsicSuccess", "ExtrinsicFailed"}

\* isPaysFee asks for JavaScript's truth: the boolean of old runtimes is taken
\* for a missing field when it is false.
IsPaysFee(item) == item \in {"Yes", "No", "true"}

-----------------------------------------------------------------------------
(* The version is compared with "1020000" as a string. *)

StringBefore(a, b) ==
  LET x == Digits(a)
      y == Digits(b)
  IN  \E k \in DOMAIN y : /\ \A j \in 1..k - 1 : j \in DOMAIN x /\ x[j] = y[j]
                          /\ k \in DOMAIN x => x[k] < y[k]

\* An event of an extrinsic that the block does not have is an error.
MissingIsError(version, event) ==
  StringBefore(version, 1020000) /\ event.pallet # "multiBlockMigrations"

-----------------------------------------------------------------------------
(* extractExtrinsics and sanitizeEvents *)

Extracted(extrinsics, events) ==
  [i \in DOMAIN extrinsics |->
     [signed |-> extrinsics[i].signed, events |-> <<>>,
      success |-> IF events = Null THEN "unable to fetch events" ELSE "false",
      paysFee |-> IF extrinsics[i].signed THEN "null" ELSE "false"]]

\* The first item of a completion that says whether a fee is paid decides.
PaysFee(extrinsic, event) ==
  LET items == Kept(event.paysFee, {k \in DOMAIN event.paysFee : IsPaysFee(event.paysFee[k])})
  IN  IF event.method \in Completions /\ extrinsic.signed /\ items # <<>>
      THEN IF items[1] = "No" THEN "false" ELSE "true"
      ELSE extrinsic.paysFee

\* Faulty: the fee is read from whatever event says something of a fee.
WithEventOfAnyMethod(extrinsic, event) ==
  [extrinsic EXCEPT !.success = IF event.method \in Completions THEN "true" ELSE @,
                    !.paysFee = PaysFee(extrinsic, event),
                    !.events = Append(@, event)]

WithEvent(extrinsic, event) ==
  [extrinsic EXCEPT !.success = IF event.method = "ExtrinsicSuccess" THEN "true" ELSE @,
                    !.paysFee = PaysFee(extrinsic, event),
                    !.events = Append(@, event)]

\* A completion of a missing extrinsic throws whatever the version, because
\* fields of the extrinsic are accessed.
Attribute(version, block, event) ==
  LET i == event.index + 1
      throws == \/ MissingIsError(version, event)
                \/ event.method = "ExtrinsicSuccess"
                \/ event.method \in Completions /\ event.paysFee # <<>>
  IN  IF block = Error THEN Error
      ELSE IF event.phase # "ApplyExtrinsic"
      THEN [block EXCEPT ![event.phase] = Append(@, event)]
      ELSE IF i \in DOMAIN block.extrinsics
      THEN [block EXCEPT !.extrinsics[i] = WithEvent(@, event)]
      ELSE IF throws THEN Error ELSE block

SanitizeEvents(version, extrinsics, events) ==
  FoldLeft(LAMBDA block, event : Attribute(version, block, event),
           [extrinsics |-> Extracted(extrinsics, events),
            Initialization |-> <<>>, Finalization |-> <<>>],
           IF events = Null THEN <<>> ELSE events)

-----------------------------------------------------------------------------
(* XcmDecoder.  A message is the sequence of its instructions, or Null if it  *)
(* cannot be decoded, which throws.  On a relay chain the inherent has        *)
(* candidates [para, upward, horizontal], horizontal messages with [to, msg]; *)
(* on a parachain it is [downward, horizontal], with the horizontal messages  *)
(* [from, msg] in the order of their senders.                                 *)

\* A paraId of 0 is taken for none.
Wanted(paraId, para) == paraId \in {Null, 0} \/ paraId = para

WantedOf(candidates, paraId) ==
  Kept(candidates, {k \in DOMAIN candidates : Wanted(paraId, candidates[k].para)})

DecodedUpward(c) ==
  IF c.upward = <<>> THEN <<>> ELSE <<[origin |-> c.para, data |-> FlattenSeq(c.upward)]>>

DecodedHorizontal(c) ==
  [i \in DOMAIN c.horizontal |-> [origin |-> c.para, to |-> c.horizontal[i].to,
                                  data |-> c.horizontal[i].msg]]

\* Faulty: only the horizontal messages are filtered.
RelayMessagesUnfiltered(candidates, paraId) ==
  LET wanted == WantedOf(candidates, paraId)
  IN  [upward |-> FlattenSeq([i \in DOMAIN candidates |-> DecodedUpward(candidates[i])]),
       horizontal |-> FlattenSeq([i \in DOMAIN wanted |-> DecodedHorizontal(wanted[i])]),
       downward |-> <<>>]

RelayMessages(candidates, paraId) ==
  LET wanted == WantedOf(candidates, paraId)
      undecodable == \E c \in ToSet(wanted) :
                       \/ Null \in ToSet(c.upward)
                       \/ \E m \in ToSet(c.horizontal) : m.msg = Null
  IN  IF undecodable THEN Error
      ELSE [upward |-> FlattenSeq([i \in DOMAIN wanted |-> DecodedUpward(wanted[i])]),
            horizontal |-> FlattenSeq([i \in DOMAIN wanted |-> DecodedHorizontal(wanted[i])]),
            downward |-> <<>>]

ParachainMessages(inherent, paraId) ==
  LET received == inherent.horizontal
      wanted == Kept(received, {k \in DOMAIN received : Wanted(paraId, received[k].from)})
  IN  IF Null \in ToSet(inherent.downward) \/ \E m \in ToSet(wanted) : m.msg = Null THEN Error
      ELSE [upward |-> <<>>, downward |-> inherent.downward,
            horizontal |-> [i \in DOMAIN wanted |-> [origin |-> wanted[i].from,
                                                     data |-> wanted[i].msg]]]

Messages(isRelay, inherent, paraId) ==
  IF isRelay THEN RelayMessages(inherent, paraId) ELSE ParachainMessages(inherent, paraId)

-----------------------------------------------------------------------------
(* Properties. *)

EventsOfExtrinsic(events, i) ==
  Kept(events, {k \in DOMAIN events : events[k].phase = "ApplyExtrinsic" /\ events[k].index = i - 1})

EventsOfHook(events, hook) == Kept(events, {k \in DOMAIN events : events[k].phase = hook})

\* Every event is told once, where it happened and in the order of the block;
\* an extrinsic succeeded if and only if it says so; and what is said of its fee
\* is what its completion says, never another event of its.
EventsAttributed(version, extrinsics, events) ==
  LET block == SanitizeEvents(version, extrinsics, events)
      own(i) == EventsOfExtrinsic(events, i)
      completions(i) == {e \in ToSet(own(i)) : e.method \in Completions}
  IN  events # Null /\ block # Error =>
        /\ \A hook \in {"Initialization", "Finalization"} :
             block[hook] = EventsOfHook(events, hook)
        /\ \A i \in DOMAIN extrinsics :
             LET extrinsic == block.extrinsics[i]
                 says == {ToSet(e.paysFee) : e \in completions(i)}
             IN  /\ extrinsic.events = own(i)
                 /\ extrinsic.success = "true" <=>
                      \E e \in ToSet(own(i)) : e.method = "ExtrinsicSuccess"
                 /\ extrinsic.paysFee = "true" =>
                      extrinsic.signed /\ \E items \in says : items \cap {"Yes", "true"} # {}
                 /\ extrinsic.signed /\ extrinsic.paysFee = "null" =>
                      \A items \in says : items \cap {"Yes", "No", "true"} = {}

\* A block is refused only for an event that is of none of its extrinsics; a
\* block of the versions 1000000 to 1019999 hides such an event only if it is
\* of a migration, and without events no extrinsic is said to have succeeded.
EventsKept(version, extrinsics, events) ==
  LET block == SanitizeEvents(version, extrinsics, events)
      stray == {e \in ToSet(IF events = Null THEN <<>> ELSE events) :
                  e.phase = "ApplyExtrinsic" /\ e.index >= Len(extrinsics)}
  IN  /\ block = Error => stray # {}
      /\ block # Error /\ version \in 1000000..1019999 =>
           \A e \in stray : e.pallet = "multiBlockMigrations"
      /\ events = Null => \A i \in DOMAIN extrinsics : block.extrinsics[i].success # "true"

\* The messages of one parachain are those of all that come from it, in order,
\* and one that cannot be decoded denies an answer only to those who ask for it.
MessagesOfPara(isRelay, inherent, paraId) ==
  LET all == Messages(isRelay, inherent, Null)
      some == Messages(isRelay, inherent, paraId)
      from(messages) == Kept(messages, {k \in DOMAIN messages : messages[k].origin = paraId})
  IN  /\ some = Error => all = Error
      /\ all # Error /\ paraId \notin {Null, 0} =>
           /\ some.horizontal = from(all.horizontal)
           /\ some.upward = from(all.upward)
           /\ some.downward = all.downward
=============================================================================
