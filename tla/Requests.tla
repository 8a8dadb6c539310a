------------------------------ MODULE Requests ------------------------------
(***************************************************************************)
(* What requests have in common: how a block identifier is resolved, which *)
(* query parameters are let through, and what is answered to an error; and *)
(* the /transaction and /runtime/metadata routes, which make the most of it. *)
(***************************************************************************)
EXTENDS Answer, Sequences, FiniteSets, SequencesExt

-----------------------------------------------------------------------------
(* Errors.  What is thrown is [class, fields, status]: an "http" error with    *)
(* its status, another "error", or a "plain" object, of which fields says what *)
(* it has and status what its code or statusCode is.                           *)

Http(status) == [class |-> "http", fields |-> {}, status |-> status]
OtherError == [class |-> "error", fields |-> {}, status |-> Null]
TxError == [class |-> "plain", fields |-> {"error", "cause", "code"}, status |-> 400]
MissingTx == [class |-> "plain", fields |-> {"error"}, status |-> Null]

\* EtheuremAddressNotSupported has a status but is no HttpError.
ErrorForAddr(ethereum) ==
  IF ethereum THEN [class |-> "error", fields |-> {}, status |-> 400] ELSE Http(400)

PostMiddleware == <<"txError", "httpError", "error", "legacyError", "internalError">>

Takes(ware, err) ==
  CASE ware = "txError" -> {"error", "cause"} \subseteq err.fields
    [] ware = "httpError" -> err.class = "http"
    [] ware = "error" -> err.class \in {"http", "error"}
    [] ware = "legacyError" -> "error" \in err.fields
    [] ware = "internalError" -> TRUE

StatusBy(ware, err) ==
  CASE ware \in {"txError", "httpError"} -> err.status
    [] ware = "legacyError" /\ "statusCode" \in err.fields -> err.status
    [] OTHER -> 500

\* The first that takes an error answers it.  Once a response has been started
\* none does, and Express closes the connection.
AnswerTo(err, headersSent) ==
  IF headersSent THEN Null
  ELSE StatusBy(PostMiddleware[SelectInSeq(PostMiddleware, LAMBDA ware : Takes(ware, err))], err)

Thrown(err) == [ok |-> FALSE, err |-> err]
Answered(body) == [ok |-> TRUE, body |-> body]
StatusOf(outcome) == IF outcome.ok THEN 200 ELSE AnswerTo(outcome.err, FALSE)

-----------------------------------------------------------------------------
(* Block identifiers.  One is [kind, number]: a 32-byte "hash", other "hex",   *)
(* "malformed" or a "number", which the empty text is as well, being 0.  The    *)
(* node has best blocks as the hash is asked for, and later on as the head is;  *)
(* Null stands for a call that fails.                                          *)

\* Faulty: the identifier that was asked for is not compared with the head.
HashForBlockUncompared(id, node) ==
  CASE id.kind = "hash" -> Answered(id)
    [] id.kind \in {"hex", "malformed"} -> Thrown(Http(400))
    [] node.best # Null /\ id.number <= node.best -> Answered(id)
    [] OTHER -> Thrown(Http(IF node.later = Null THEN 500 ELSE 400))

\* A number that is not found is compared with the head only if it is not 0.
HashForBlock(id, node) ==
  CASE id.kind = "hash" -> Answered(id)
    [] id.kind \in {"hex", "malformed"} -> Thrown(Http(400))
    [] node.best # Null /\ id.number <= node.best -> Answered(id)
    [] OTHER -> Thrown(Http(IF node.later # Null /\ id.number # 0 /\ node.later < id.number
                            THEN 400 ELSE 500))

\* An identifier that is missing, or given more than once, stands for the head.
HashFromAt(at, node) ==
  IF at.kind \in {"none", "list"}
  THEN IF node.best = Null THEN Thrown(OtherError) ELSE Answered(at)
  ELSE HashForBlock(at, node)

-----------------------------------------------------------------------------
(* Query parameters.  One is Null if it is missing or empty, "list" if it is   *)
(* not text.  The server knows whether its chain is an Asset Hub and the nodes *)
(* of relay chains it is connected to.                                         *)

UseRcBlockAccepted(query, server) ==
  /\ query.useRcBlockFormat # Null =>
       query.useRcBlock = "true" /\ query.useRcBlockFormat \in {"array", "object"}
  /\ query.useRcBlock \in {Null, "true", "false"}
  /\ query.useRcBlock = "true" => server.isAssetHub /\ server.relays # {}

\* getHashFromRcAt as far as the relay chain's node.
RelayAsked(query, server) ==
  IF query.useRcBlock # "true" THEN Answered(Null)
  ELSE IF server.relays = {} THEN Thrown(OtherError) ELSE Answered("relay")

RcRequest(query, server) ==
  IF UseRcBlockAccepted(query, server) THEN RelayAsked(query, server) ELSE Thrown(Http(400))

-----------------------------------------------------------------------------
(* Transactions.  A body has the fields that were given; its tx may parse.  The *)
(* node takes a transaction or not, and its answer may be lost.                 *)

Submit(body, node) ==
  IF ~body.tx THEN Thrown(MissingTx)
  ELSE IF ~body.parses \/ ~node.takes \/ node.lost THEN Thrown(TxError) ELSE Answered("hash")

\* How often the node is given the transaction.
Submissions(body) == IF body.tx /\ body.parses THEN 1 ELSE 0

FeeEstimate(body, node) ==
  IF ~body.tx THEN Thrown(MissingTx)
  ELSE IF node.best = Null THEN Thrown(OtherError)
  ELSE IF ~body.parses \/ ~node.takes \/ node.lost THEN Thrown(TxError) ELSE Answered("fee")

\* runtime: [dryRun, xcmParam, tellsSafe, safeXcmVersion]; it may have no storage
\* for the safe version, or none in it.  A version 0 that is asked for is none.
XcmVersion(body, runtime) ==
  IF runtime.xcmParam /\ body.xcmVersion \in {Null, 0} /\ runtime.tellsSafe
  THEN runtime.safeXcmVersion ELSE body.xcmVersion

DryRun(body, runtime, node) ==
  LET hash == HashFromAt(body.at, node)
      version == XcmVersion(body, runtime)
      none == runtime.tellsSafe /\ version = Null
  IN  IF ~body.tx \/ ~body.sender THEN Thrown(Http(400))
      ELSE IF ~hash.ok THEN hash
      ELSE IF ~runtime.dryRun \/ (runtime.xcmParam /\ none) THEN Thrown(Http(400))
      ELSE IF ~body.parses \/ ~node.takes \/ node.lost THEN Thrown(TxError)
      ELSE Answered([at |-> hash.body, version |-> IF runtime.xcmParam THEN version ELSE Null])

-----------------------------------------------------------------------------
(* Metadata.  The runtimes of a block and of the head offer sets of versions,   *)
(* or Null if they cannot tell.  A version in a path is [number, inForm]: its    *)
(* digits after the first character, Null if they are none, and whether that     *)
(* is a v.                                                                       *)

\* The runtime that a route checks and the one it reads from.  Without a block
\* both are the head's.
VersionedMetadata(route, path, hasAt, block, head) ==
  LET read == IF hasAt THEN block ELSE head
      checked == IF route = "runtime" THEN head ELSE read
  IN  IF path.number = Null THEN Thrown(Http(400))
      ELSE IF ~path.inForm \/ checked = Null THEN Thrown(OtherError)
      ELSE IF path.number # 0 /\ path.number \notin checked THEN Thrown(OtherError)
      ELSE IF read = Null THEN Thrown(Http(500))
      ELSE IF path.number \notin read THEN Thrown(Http(500))
      ELSE Answered(path.number)

\* fetchMetadataBlob: the proof is made from tx if it is given.
BlobSource(body) ==
  IF body.tx THEN "tx"
  ELSE IF body.callData /\ body.inExtrinsic /\ body.inSignedData THEN "parts" ELSE Null

MetadataBlob(body, block, node) ==
  LET hash == HashFromAt(body.at, node)
      incomplete == body.callData /\ ~(body.inExtrinsic /\ body.inSignedData)
  IN  IF ~hash.ok THEN hash
      ELSE IF BlobSource(body) = Null \/ incomplete THEN Thrown(Http(400))
      ELSE IF block = Null THEN Thrown(Http(500))
      ELSE IF 15 \notin block THEN Thrown(Http(400))
      ELSE Answered(BlobSource(body))

-----------------------------------------------------------------------------
(* Properties. *)

\* Every error is answered, unless a response has been started: an HttpError and
\* the failure of a transaction with the status that was chosen for them, and an
\* error that has none as a fault of the server.
ErrorsAnswered(err, headersSent) ==
  LET status == AnswerTo(err, headersSent)
  IN  /\ status = Null <=> headersSent
      /\ ~headersSent =>
           /\ err.class = "http" \/ {"error", "cause"} \subseteq err.fields
                => status = err.status
           /\ err.status = Null => status = 500

\* A number is said to lie above the best block only if it does when that is
\* said, and a server's fault is only admitted if a call has failed or the block
\* has been imported since; a number that the node has is resolved.
BlockIdResolved(id, node) ==
  LET outcome == HashForBlock(id, node)
      status == StatusOf(outcome)
  IN  id.kind = "number" =>
        /\ status = 400 => node.later < id.number
        /\ status = 500 => Null \in {node.best, node.later} \/ id.number \in node.best + 1..node.later
        /\ status = 200 <=> node.best # Null /\ id.number <= node.best

\* A request that is let through with useRcBlock never fails for want of a relay
\* chain; and one that is not let through is the client's fault.
RcBlockGuarded(query, server) ==
  LET status == StatusOf(RcRequest(query, server))
  IN  /\ status \in {200, 400}
      /\ status = 400 <=> ~UseRcBlockAccepted(query, server)
      /\ status = 200 /\ query.useRcBlockFormat # Null => query.useRcBlock = "true"

\* The hash of a transaction is answered only if it was given to the node, once,
\* and the node has taken it; unless the answer is lost it is then answered, and a
\* transaction that does not parse or is not taken is the client's fault.  A body
\* without a transaction gets no answer.
SubmittedOnce(body, node) ==
  LET outcome == Submit(body, node)
      taken == Submissions(body) = 1 /\ node.takes
  IN  /\ outcome.ok => taken
      /\ ~node.lost /\ taken => outcome.ok
      /\ ~node.lost /\ body.tx => StatusOf(outcome) = IF taken THEN 200 ELSE 400
      /\ ~body.tx => ~outcome.ok /\ ~FeeEstimate(body, node).ok

\* A dry run uses the version that is asked for, or else the one that the chain
\* deems safe, and no other.
DryRunVersion(body, runtime, node) ==
  LET outcome == DryRun(body, runtime, node)
  IN  outcome.ok /\ runtime.xcmParam =>
        /\ body.xcmVersion \notin {Null, 0} => outcome.body.version = body.xcmVersion
        /\ body.xcmVersion \in {Null, 0} /\ runtime.tellsSafe =>
             outcome.body.version = runtime.safeXcmVersion /\ outcome.body.version # Null

\* A version of the metadata is answered only if the runtime it is read from
\* offers it; on the material route it is refused only if that does not, and on
\* the runtime route if the head's does not.
VersionOffered(path, hasAt, block, head) ==
  LET read == IF hasAt THEN block ELSE head
      ok(route) == VersionedMetadata(route, path, hasAt, block, head).ok
      offered(versions) == versions # Null /\ path.number \in versions
  IN  path.number # Null /\ path.inForm =>
        /\ ok("material") <=> offered(read)
        /\ ok("runtime") <=> offered(read) /\ offered(head)

\* A proof is made of what was given in full, and of a chain that offers version
\* 15; and what is missing in a body is never a fault of the server.
BlobComplete(body, block, node) ==
  LET outcome == MetadataBlob(body, block, node)
  IN  /\ outcome.ok => block # Null /\ 15 \in block /\ (outcome.body = "tx" => body.tx)
      /\ outcome.ok /\ outcome.body = "parts" =>
           body.callData /\ body.inExtrinsic /\ body.inSignedData
      /\ StatusOf(outcome) = 500 => Null \in {block, node.best, node.later}
                                      \/ body.at.number \in node.best + 1..node.later
=============================================================================
