----------------------------- MODULE McpServer ------------------------------
(***************************************************************************)
(* The Worker (src/worker.mjs) but for its Sigsum relay: the MCP endpoint, *)
(* its eight tools, and the relay to the RFC 3161 authorities.             *)
(*                                                                         *)
(* The Worker keeps nothing between requests. What requests share is the   *)
(* rate limiter, which Cloudflare counts per address and minute; here they *)
(* come from one address. A call is one request being served. What is      *)
(* done without waiting is one step: the checks up to the limiter, the     *)
(* limiter's answer, and one answer from outside after another, for a      *)
(* tool asks one authority, calendar or endpoint at a time.                *)
(*                                                                         *)
(* A header or a body field is abstracted to what it says of the other.    *)
(* Hashes are left out: a tool passes on the one it was given, or the root *)
(* MerkleBatch is about.                                                   *)
(***************************************************************************)
EXTENDS Verdicts

CONSTANTS
    Call,           \* requests that can be served at once
    Request,        \* the requests clients make
    Limit,          \* what the limiter lets through a minute
    None

VARIABLES
    calls,          \* what is being done for each request, and the answer
    tokens          \* what the limiter has left in this minute

serverVars == <<calls, tokens>>

-----------------------------------------------------------------------------
(***************************************************************************)
(* Requests and answers.                                                   *)
(***************************************************************************)
MCP_PROTOCOL_VERSION == "2026-07-28"
MCP_SUPPORTED_VERSIONS == {"2026-07-28", "2025-06-18", "2024-11-05"}
Version == MCP_SUPPORTED_VERSIONS \cup {"off-list", None}

Authority == {"sigstore", "github", "digicert", "sectigo", "freetsa",
              "opentimestamps"}
Calendar == <<"alice", "bob", "finney", "catallaxy">>
Upstream == {"digicert", "sectigo", "freetsa"}

\* Whatever a request may name, and whom the Worker asks of its own accord.
Place == Authority \cup Range(Calendar) \cup {"elsewhere", "rpc", "assets"}

Stamper == {"anchor_hash", "anchor_batch", "create_signature_envelope"}
Tool == Stamper \cup
        {"list_anchor_authorities", "verify_anchor_binding",
         "upgrade_ots_proof", "verify_signature_envelope",
         "verify_escalation_closure"}

Routed == {"absent", "garbled", "agrees", "differs"}
Method == {"initialize", "server/discover", "notifications/initialized",
           "tools/list", "tools/call", "resources/read", "other"}

\* What a tool is given.
IsGiven(r) ==
    /\ r.tool \in Stamper \cup {"verify_signature_envelope"} =>
           r.hashOk \in BOOLEAN
    /\ r.tool \in Stamper \ {"create_signature_envelope"} =>
           r.authorities \in Seq(Place)
    /\ r.tool = "upgrade_ots_proof" =>
           {r.parses, r.attested} \subseteq BOOLEAN /\ r.pending \in Seq(Place)
    /\ r.tool = "verify_anchor_binding" =>
           /\ r.rpc \in BOOLEAN
           /\ r.bindings \in Seq(Range(r.bindings))
           /\ \A n \in DOMAIN r.bindings : IsBinding(r.bindings[n])
    /\ r.tool = "verify_signature_envelope" =>
           r.signatures \in Seq({"good", "otherDocument", "bad"})
    /\ r.tool = "verify_escalation_closure" =>
           {r.complete, r.closure.decided} \subseteq BOOLEAN

\* What a client sends: over which route, in which form, asking for what.
IsRequest(r) ==
    /\ r.http \in {"POST", "GET", "OPTIONS"} /\ r.route \in {"mcp", "relay"}
    /\ r.json \in BOOLEAN /\ r.jsonrpc \in BOOLEAN
    /\ r.method \in Method
    /\ {r.header, r.meta, r.offer} \subseteq Version
    /\ r.capabilities \in BOOLEAN
    /\ {r.mcpMethod, r.mcpName} \subseteq Routed
    /\ r.tool \in Tool \cup {"unknown", None}
    /\ r.route = "mcp" => IsGiven(r)
    /\ r.route = "relay" => r.upstream \in Place
                            /\ r.size \in {"fits", "empty", "large"}

ASSUME ServerAssumption ==
    /\ Limit \in Nat \ {0}
    /\ None \notin MCP_SUPPORTED_VERSIONS \cup Tool
                       \cup {"unknown", "off-list", "error", "completed"}
    /\ \A r \in Request : IsRequest(r)

Reply(status, code, version, body) ==
    [status |-> status, code |-> code, version |-> version, body |-> body]

\* The bodies of the tools' answers.
Outcome(word) == [outcome |-> word]
Stamped(bindings, failures) ==
    [outcome |-> "stamped", bindings |-> bindings, failures |-> failures]
Nothing == Stamped(<<>>, <<>>)

\* The refusals of a gate, in the order it makes them: the first that applies.
Grounds(refusals) == {i \in DOMAIN refusals : refusals[i].when}
Verdict(refusals) == refusals[Min(Grounds(refusals))].reply

-----------------------------------------------------------------------------
(***************************************************************************)
(* The gate of the endpoint.                                               *)
(***************************************************************************)
assertedProtocolVersion(r) == IF r.header # None THEN r.header ELSE r.meta

\* Slip: a client that names no version is taken for a modern one.
ModernByDefault(r) ==
    /\ r.method # "initialize"
    /\ assertedProtocolVersion(r) \in {MCP_PROTOCOL_VERSION, None}

modernEra(r) ==
    /\ r.method # "initialize"
    /\ assertedProtocolVersion(r) = MCP_PROTOCOL_VERSION

negotiatedVersion(r) ==
    LET requested == IF assertedProtocolVersion(r) # None
                     THEN assertedProtocolVersion(r)
                     ELSE IF r.method = "initialize" THEN r.offer ELSE None
    IN  IF requested \in MCP_SUPPORTED_VERSIONS THEN requested
        ELSE MCP_PROTOCOL_VERSION

mcpNameApplies(r) == r.method \in {"tools/call", "resources/read"}

\* A header is wrong when it says something else than the body, or cannot be
\* read, or is missing from a modern request it applies to.
WrongHeader(r, value, inBody, required) ==
    \/ value = "absent" /\ modernEra(r) /\ required
    \/ value = "garbled"
    \/ value = "differs" /\ inBody

validateMcpHeaders(r) ==
    LET version == IF r.header = None THEN "absent"
                   ELSE IF r.header = r.meta THEN "agrees" ELSE "differs"
    IN  ~ \/ WrongHeader(r, version, r.meta # None, TRUE)
          \/ WrongHeader(r, r.mcpMethod, TRUE, TRUE)
          \/ WrongHeader(r, r.mcpName, mcpNameApplies(r) /\ r.tool # None,
                         mcpNameApplies(r))

missingRequiredMeta(r) == r.meta = None \/ ~r.capabilities

Refusals(r) ==
    LET at(status, code) == Reply(status, code, negotiatedVersion(r), None)
    IN  << [when |-> r.http = "OPTIONS",
            reply |-> Reply(204, 0, None, None)],
           [when |-> r.http # "POST", reply |-> Reply(405, 0, None, None)],
           [when |-> ~r.json, reply |-> Reply(200, -32700, None, None)],
           [when |-> ~r.jsonrpc, reply |-> Reply(200, -32600, None, None)],
           [when |-> assertedProtocolVersion(r)
                         \notin MCP_SUPPORTED_VERSIONS \cup {None},
            reply |-> Reply(400, -32022, MCP_PROTOCOL_VERSION, None)],
           [when |-> ~validateMcpHeaders(r), reply |-> at(400, -32020)],
           [when |-> modernEra(r) /\ missingRequiredMeta(r),
            reply |-> at(400, -32602)],
           [when |-> r.method = "notifications/initialized",
            reply |-> at(204, 0)],
           [when |-> r.method \in {"initialize", "server/discover",
                                   "tools/list"},
            reply |-> at(200, 0)],
           [when |-> r.method # "tools/call",
            reply |-> at(IF modernEra(r) THEN 404 ELSE 200, -32601)],
           [when |-> r.tool \notin Tool, reply |-> at(200, -32602)] >>

-----------------------------------------------------------------------------
(***************************************************************************)
(* The tools that ask nobody.                                              *)
(***************************************************************************)

\* toolVerifySignatureEnvelope: every signature must be over this document,
\* and the JAdES export is of the first that is good.
verifySignatureEnvelope(signatures) ==
    [outcome |-> "verified",
     valid |-> \A i \in DOMAIN signatures : signatures[i] = "good",
     jades |-> SelectInSeq(signatures, LAMBDA s : s = "good")]

\* toolVerifyEscalationClosure. The record's hash is recomputed in two orders
\* of its members, which may agree; the envelope's digest, and the signature
\* over it, must be of the one that matches.
verifyEscalationClosure(c) ==
    LET matches(h) == h = c.recordHash /\ c.ownHash \in {None, h}
        canonicalization == IF matches(c.rfc8785) THEN "rfc8785"
                            ELSE IF matches(c.legacy) THEN "legacy"
                            ELSE "none"
        matchedHash == IF canonicalization = "legacy" THEN c.legacy
                       ELSE c.rfc8785
        allChecksOk == /\ canonicalization # "none"
                       /\ c.digest = matchedHash
                       /\ c.signed = matchedHash
                       /\ c.decided
    IN  IF ~allChecksOk THEN "invalid"
        ELSE IF canonicalization = "rfc8785" THEN "valid"
        ELSE "valid-legacy-order"

\* toolVerifyAnchorBinding, once the endpoint has answered for every Solana
\* memo it was asked about.
verifyAnchorBinding(r, log) ==
    LET Got(n) == IF \E i \in DOMAIN log : log[i].n = n
                  THEN log[CHOOSE i \in DOMAIN log : log[i].n = n].got
                  ELSE "none"
    IN  [n \in DOMAIN r.bindings |-> Entry(r.bindings[n], r.rpc, Got(n))]

-----------------------------------------------------------------------------
(***************************************************************************)
(* Whom a call asks, in order: for each thing the request is about, in its *)
(* turn, one place after another.                                          *)
(***************************************************************************)
authorities(r) == IF r.tool = "create_signature_envelope" THEN <<"sigstore">>
                  ELSE r.authorities

\* Only the pinned calendars are ever asked, or other hosts of the operators
\* of the pinned ones, which stand here for the calendar they replace.
isAllowedOtsCalendarUrl(url) == url \in Range(Calendar)

Places(r) ==
    CASE r.route = "relay" -> << <<r.upstream>> >>
      [] r.route = "mcp" /\ r.tool \in Stamper ->
            [n \in DOMAIN authorities(r) |->
                IF authorities(r)[n] = "opentimestamps" THEN Calendar
                ELSE <<authorities(r)[n]>>]
      [] r.route = "mcp" /\ r.tool = "upgrade_ots_proof" ->
            [n \in DOMAIN r.pending |->
                IF isAllowedOtsCalendarUrl(r.pending[n])
                THEN <<r.pending[n]>> ELSE <<>>]
      [] r.route = "mcp" /\ r.tool = "verify_anchor_binding" ->
            [n \in DOMAIN r.bindings |->
                IF AsksRpc(r.bindings[n], r.rpc) THEN <<"rpc">> ELSE <<>>]
      [] r.route = "mcp" /\ r.tool = "list_anchor_authorities" ->
            << <<"assets">> >>
      [] OTHER -> <<>>

\* Two calendars make a stamp.
Needed(r, n) ==
    IF r.route = "mcp" /\ r.tool \in Stamper
       /\ authorities(r)[n] = "opentimestamps"
    THEN 2 ELSE 1

\* Arguments a tool refuses before it asks the limiter, and an upgrade that
\* has nothing to ask: of a proof Bitcoin has already, or without a branch.
Spared(r) ==
    CASE r.tool \in Stamper ->
            IF ~r.hashOk \/ authorities(r) = <<>>
               \/ ~(Range(authorities(r)) \subseteq Authority)
            THEN "error" ELSE None
      [] r.tool = "upgrade_ots_proof" ->
            IF ~r.parses THEN "error"
            ELSE IF r.attested THEN "completed"
            ELSE IF r.pending = <<>> THEN "error" ELSE None
      [] r.tool = "verify_anchor_binding" ->
            IF r.bindings = <<>> THEN "error" ELSE None
      [] r.tool = "verify_signature_envelope" ->
            IF ~r.hashOk \/ r.signatures = <<>> THEN "error" ELSE None
      [] r.tool = "verify_escalation_closure" ->
            IF ~r.complete THEN "error" ELSE None
      [] OTHER -> None

Limited(r) == r.route = "relay"
              \/ r.tool \in Stamper \cup {"upgrade_ots_proof"}

\* The relay's own gate.
RelayRefusals(r) ==
    LET with(status) == Reply(status, 0, None, None)
    IN  << [when |-> r.upstream \notin Upstream, reply |-> with(404)],
           [when |-> r.http = "OPTIONS", reply |-> with(204)],
           [when |-> r.http # "POST", reply |-> with(405)],
           [when |-> ~r.json, reply |-> with(415)],
           [when |-> r.size = "empty", reply |-> with(400)],
           [when |-> r.size = "large", reply |-> with(413)] >>

Gate(r) == IF r.route = "relay" THEN RelayRefusals(r) ELSE Refusals(r)

-----------------------------------------------------------------------------
(***************************************************************************)
(* Serving.                                                                *)
(***************************************************************************)
Idle == [at |-> "free"]

ServerInit == calls = [c \in Call |-> Idle] /\ tokens = Limit

\* n and k: the thing and the place that is asked about it.
Opened(r) == [at |-> "limiter", req |-> r, n |-> 0, k |-> 0, log |-> <<>>,
              paid |-> FALSE, bindings |-> <<>>, failures |-> <<>>,
              answer |-> None]

Answer(call, reply) == [call EXCEPT !.at = "done", !.answer = reply]

\* A tool's answer rides on a 200, whatever it says.
Say(call, body) ==
    Answer(call, Reply(200, 0, negotiatedVersion(call.req), body))

\* The answer. The relay passes on the status of an authority that refuses,
\* here a 502.
Told(call, got) ==
    LET r == call.req
        asked == call.log
        won == \E i \in DOMAIN asked : asked[i].got = "ok"
    IN  CASE r.route = "relay" ->
                Answer(call, Reply(CASE got = "ok" -> 200
                                     [] got = "refused" -> 502
                                     [] OTHER -> 504, 0, None, None))
          [] r.route = "mcp" /\ r.tool \in Stamper ->
                Say(call, Stamped(call.bindings, call.failures))
          [] r.route = "mcp" /\ r.tool = "upgrade_ots_proof" ->
                Say(call, Outcome(IF call.log = <<>> THEN "error"
                                  ELSE IF won THEN "completed"
                                  ELSE "pending"))
          [] r.route = "mcp" /\ r.tool = "verify_anchor_binding" ->
                Say(call, [outcome |-> "verified",
                           results |-> verifyAnchorBinding(r, call.log)])
          [] r.route = "mcp" /\ r.tool = "list_anchor_authorities" ->
                Say(call, Outcome(got))
          [] r.route = "mcp" /\ r.tool = "verify_signature_envelope" ->
                Say(call, verifySignatureEnvelope(r.signatures))
          [] r.route = "mcp" /\ r.tool = "verify_escalation_closure" ->
                Say(call, Outcome(verifyEscalationClosure(r.closure)))

\* On to the first of the things from n on that anybody is asked about; when
\* there is none, the answer.
Ahead(r, n) == {m \in DOMAIN Places(r) : m >= n /\ Places(r)[m] # <<>>}
Proceed(call, n, got) ==
    IF Ahead(call.req, n) = {} THEN Told(call, got)
    ELSE [call EXCEPT !.at = "out", !.n = Min(Ahead(call.req, n)), !.k = 1]

\* handleMcp, handleRelay up to their first wait.
Receive(c, r) ==
    LET call == Opened(r)
    IN  /\ calls[c] = Idle
        /\ calls' = [calls EXCEPT ![c] =
               IF Grounds(Gate(r)) # {} THEN Answer(call, Verdict(Gate(r)))
               ELSE IF r.route = "mcp" /\ Spared(r) # None
                    THEN Say(call, Outcome(Spared(r)))
               ELSE IF Limited(r) THEN call
               ELSE Proceed(call, 1, None)]
        /\ UNCHANGED tokens

(***************************************************************************)
(* The limiter lets a call go on, or not. An envelope that is refused is   *)
(* answered all the same, with neither a binding nor a failure.            *)
(***************************************************************************)
Admitted(c) ==
    /\ calls[c].at = "limiter" /\ tokens > 0
    /\ tokens' = tokens - 1
    /\ calls' = [calls EXCEPT ![c] = Proceed([@ EXCEPT !.paid = TRUE], 1, None)]

Refused(c) ==
    /\ calls[c].at = "limiter" /\ tokens = 0
    /\ calls' = [calls EXCEPT ![c] =
           IF @.req.route = "relay" THEN Answer(@, Reply(429, 0, None, None))
           ELSE IF @.req.tool = "create_signature_envelope"
                THEN Say(@, Nothing)
           ELSE Say(@, Outcome("error"))]
    /\ UNCHANGED tokens

\* The next minute.
Minute ==
    /\ tokens < Limit
    /\ tokens' = Limit
    /\ UNCHANGED calls

(***************************************************************************)
(* One answer from outside: what was asked for, a refusal or something     *)
(* that cannot be read, or nothing before the timeout.                     *)
(***************************************************************************)
Heard(log, n) == Cardinality({i \in DOMAIN log : log[i].n = n
                                               /\ log[i].got = "ok"})

\* Slip: every calendar is accounted for like an authority.
RecordedEach(call, log, through) ==
    IF Heard(log, call.n) > 0
    THEN [call EXCEPT !.log = log, !.bindings = Append(@, call.n)]
    ELSE [call EXCEPT !.log = log, !.failures = Append(@, call.n)]

\* An authority that is through gave a stamp, or goes among the failures.
Recorded(call, log, through) ==
    IF ~through THEN [call EXCEPT !.log = log]
    ELSE IF Heard(log, call.n) > 0
         THEN [call EXCEPT !.log = log, !.bindings = Append(@, call.n)]
         ELSE [call EXCEPT !.log = log, !.failures = Append(@, call.n)]

\* A thing is through when enough of its places have answered or all were
\* asked, and an upgrade with the first branch that is complete.
Outside(c, got) ==
    LET call == calls[c]
        places == Places(call.req)
        log == Append(call.log, [n |-> call.n,
                                 at |-> places[call.n][call.k], got |-> got])
        enough == Heard(log, call.n) >= Needed(call.req, call.n)
        through == enough \/ call.k = Len(places[call.n])
        upgraded == enough /\ call.req.route = "mcp"
                    /\ call.req.tool = "upgrade_ots_proof"
        after == Recorded(call, log, through)
    IN  /\ call.at = "out"
        /\ calls' = [calls EXCEPT ![c] =
               IF ~through THEN [after EXCEPT !.k = @ + 1]
               ELSE Proceed(after,
                            IF upgraded THEN Len(places) + 1 ELSE call.n + 1,
                            got)]
        /\ UNCHANGED tokens

ServerStep ==
    \/ \E c \in Call : Admitted(c) \/ Refused(c)
    \/ \E c \in Call, got \in {"ok", "refused", "none"} : Outside(c, got)
    \/ Minute

-----------------------------------------------------------------------------
(***************************************************************************)
(* Properties.                                                             *)
(***************************************************************************)

\* The endpoint serves two eras at once, told apart by a header, the body's
\* _meta and the method together. Whatever a client sends: a request that
\* names the modern revision anywhere is served only if header and body
\* agree on it, with every header and field the revision requires; a client
\* that knows nothing of them is never turned away for it, nor by a status
\* it would take for a missing endpoint; an opening offer never fails; and
\* only versions this Worker implements are ever named (handleMcp).
Modern(r) == /\ r.method # "initialize"
             /\ MCP_PROTOCOL_VERSION \in {r.header, r.meta}
Unaware(r) == r.header = None /\ r.meta = None
              /\ r.mcpMethod = "absent" /\ r.mcpName = "absent"
AnsweredUnderItsEra(r, a) ==
    LET served == \/ a.code \in {0, -32601}
                  \/ a.code = -32602 /\ a.status = 200
    IN  r.http = "POST" /\ r.json /\ r.jsonrpc =>
        /\ a.version \in MCP_SUPPORTED_VERSIONS
        /\ served /\ Modern(r) =>
               /\ r.header = r.meta /\ r.capabilities
               /\ r.mcpMethod = "agrees"
               /\ mcpNameApplies(r) => r.mcpName \notin {"absent", "garbled"}
        /\ served => /\ r.mcpMethod \in {"absent", "agrees"}
                     /\ mcpNameApplies(r) /\ r.tool # None =>
                            r.mcpName \in {"absent", "agrees"}
        /\ Unaware(r) => a.status \in {200, 204}
        /\ Unaware(r) /\ r.method = "initialize" =>
               /\ a.code = 0
               /\ r.offer \in MCP_SUPPORTED_VERSIONS => a.version = r.offer
ServedUnderItsEra ==
    \A c \in Call : calls[c].at = "done" /\ calls[c].req.route = "mcp" =>
        AnsweredUnderItsEra(calls[c].req, calls[c].answer)

\* What a tool says of the outside it has heard in that very call, and what
\* it has heard it says: the bindings are of the authorities that answered
\* and the failures of the others, none lost or told twice, in the order
\* asked; an upgrade is complete only when Bitcoin had the proof or a pinned
\* calendar gave it, and pending only when every pinned one was asked in
\* vain. Nobody is asked to stamp or to complete without a token of the
\* limiter, an error means nobody was, and only a refused envelope is
\* silent. A closure is valid over the RFC 8785 hash alone.
IsStrictlySorted(s) == \A i, j \in DOMAIN s : i < j => s[i] < s[j]
Outbound(call) == {call.log[i].at : i \in DOMAIN call.log}
AnswersWhatItHeard(call) ==
    LET r == call.req
        body == call.answer.body
        heard == {call.log[i].n : i \in
                     {j \in DOMAIN call.log : call.log[j].got = "ok"}}
        told == call.at = "done" /\ call.answer.body # None
    IN  /\ Outbound(call) \subseteq {"rpc", "assets"} \/ call.paid
        /\ told /\ body = Outcome("error") => call.log = <<>>
        /\ told /\ body.outcome = "stamped" /\ body # Nothing =>
               /\ IsStrictlySorted(body.bindings)
               /\ IsStrictlySorted(body.failures)
               /\ Range(body.bindings) = heard
               /\ Range(body.failures) = DOMAIN authorities(r) \ heard
        /\ told /\ body = Nothing =>
               r.tool = "create_signature_envelope" /\ ~call.paid
        /\ told /\ r.tool = "upgrade_ots_proof" =>
               /\ body.outcome = "completed" <=>
                      r.parses /\ (r.attested \/ heard # {})
               /\ body.outcome = "pending" =>
                      Outbound(call) = Range(r.pending) \cap Range(Calendar)
               /\ Outbound(call) \subseteq Range(Calendar)
        /\ told /\ r.tool = "verify_escalation_closure" =>
               LET k == r.closure
                   over == {k.recordHash, k.digest, k.signed}
                           \cup ({k.ownHash} \ {None})
               IN  body.outcome = "valid" <=>
                       r.complete /\ over = {k.rfc8785} /\ k.decided
ToolsAnswerWhatTheyHeard ==
    \A c \in Call : calls[c].at # "free" => AnswersWhatItHeard(calls[c])
=============================================================================
