---------------------------- MODULE MC_Surfaces -----------------------------
EXTENDS Surfaces

CONSTANTS c1, c2, w1, w2, w3, h1, h2, h3

Sound(type) == [type |-> type, flaws |-> {}, hash |-> h1,
                inclusion |-> "none", bitcoin |-> TRUE, lines |-> <<>>]
With(b, flaw) == [b EXCEPT !.flaws = {flaw}]
SignedBy(w) == [witness |-> w, valid |-> TRUE]
Proof(lines) == [Sound("c2sp-tlog-proof-v1") EXCEPT !.lines = lines]
Tst == Sound("rfc3161-tst")
Ots == Sound("opentimestamps")
Memo == Sound("solana-memo")
Leaf == Sound("c2sp-tlog-pending-v1")

\* w1 and w2 are of the policy, w3 is not.
MCUpgrade == Leaf :> Proof(<<SignedBy(w1), SignedBy(w3), SignedBy(w2)>>)

\* One binding of each kind, and of each way it can fail.
Various ==
    { <<Tst>>, <<With(Tst, "cms"), Tst>>,
      <<[Tst EXCEPT !.inclusion = "holds"]>>,
      <<[Tst EXCEPT !.inclusion = "fails"]>>,
      <<[Memo EXCEPT !.inclusion = "fails"],
        [Ots EXCEPT !.inclusion = "fails"]>>,
      <<With(Tst, "base64")>>,
      <<Ots>>, <<[Ots EXCEPT !.bitcoin = FALSE], Leaf>>,
      <<With(Ots, "parse")>>,
      <<Leaf, With(Ots, "base64")>>,
      <<Proof(<<SignedBy(w1), SignedBy(w2)>>), Leaf>>,
      <<Proof(<<SignedBy(w1), SignedBy(w1), SignedBy(w3)>>)>>,
      <<[Proof(<<SignedBy(w2), SignedBy(w1)>>) EXCEPT !.inclusion = "fails"]>>,
      <<Proof(<<[SignedBy(w1) EXCEPT !.valid = FALSE]>>)>>,
      <<With(Proof(<<SignedBy(w1), SignedBy(w2)>>), "inclusion")>>,
      <<With(Proof(<<>>), "malformed")>>,
      <<Memo, With(Memo, "slot")>>, <<With(Memo, "shape")>>,
      <<Sound("unknown")>> }

Blank == [kind |-> "anchors", bindings |-> <<>>, hash |-> "none",
          sig |-> "none", seal |-> "none", der |-> FALSE]
MCFile ==
    {[Blank EXCEPT !.bindings = bs] : bs \in Various}
    \cup {[Blank EXCEPT !.kind = "artifact", !.bindings = bs, !.hash = "fail",
                        !.sig = sig, !.seal = "ok"] :
              bs \in {<<>>, <<Tst>>, <<With(Ots, "base64")>>},
              sig \in {"none", "ok"}}
    \cup {[Blank EXCEPT !.kind = "ots", !.bindings = <<Ots>>],
          [Blank EXCEPT !.kind = "otherJson"], Blank,
          [Blank EXCEPT !.kind = "der"],
          [Blank EXCEPT !.kind = "der", !.der = TRUE]}

Plain == [route |-> "mcp", http |-> "POST", json |-> TRUE, jsonrpc |-> TRUE,
          method |-> "tools/call", header |-> None, meta |-> None,
          offer |-> None, capabilities |-> FALSE, mcpMethod |-> "absent",
          mcpName |-> "absent", tool |-> None, hashOk |-> TRUE]
Of(tool) == [Plain EXCEPT !.tool = tool]
Modernly(r) == [r EXCEPT !.header = MCP_PROTOCOL_VERSION,
                         !.meta = MCP_PROTOCOL_VERSION,
                         !.capabilities = TRUE,
                         !.mcpMethod = "agrees", !.mcpName = "agrees"]

Stamping ==
    {Of("anchor_hash") @@ [authorities |-> a] :
        a \in {<<"sigstore", "opentimestamps">>, <<"sectigo", "sectigo">>,
               <<"freetsa", "elsewhere">>, <<>>}}
    \cup {Modernly(Of("anchor_batch") @@ [authorities |-> <<"digicert">>]),
          Modernly(Of("create_signature_envelope")),
          [Of("create_signature_envelope") EXCEPT !.hashOk = FALSE]}

Upgrading ==
    {Of("upgrade_ots_proof") @@
        [parses |-> TRUE, attested |-> attested, pending |-> pending] :
            attested \in BOOLEAN,
            pending \in {<<"alice", "elsewhere", "bob">>, <<"elsewhere">>,
                         <<>>}}
    \cup {Of("upgrade_ots_proof") @@ [parses |-> FALSE, attested |-> FALSE,
                                      pending |-> <<>>]}

Verifying ==
    {Of("verify_anchor_binding") @@ [bindings |-> bs, rpc |-> rpc] :
        bs \in Various \cup {<<>>}, rpc \in BOOLEAN}

Relayed ==
    {[Plain EXCEPT !.route = "relay"] @@ [upstream |-> "freetsa",
                                          size |-> size] :
        size \in {"fits", "empty", "large"}}

MCRequest == Stamping \cup Upgrading \cup Verifying \cup Relayed
                 \cup {Of("list_anchor_authorities")}

Versions == {"2026-07-28", "2025-06-18", "off-list", None}
Forms ==
    {[Plain EXCEPT !.method = method, !.header = header, !.meta = meta,
                   !.offer = offer, !.capabilities = capabilities,
                   !.mcpMethod = mcpMethod, !.mcpName = mcpName,
                   !.tool = tool] :
        method \in Method, header \in Versions, meta \in Versions,
        offer \in Versions, capabilities \in BOOLEAN, mcpMethod \in Routed,
        mcpName \in Routed,
        tool \in {"list_anchor_authorities", "unknown", None}}

Closures == [rfc8785 : {h1}, legacy : {h1, h2}, recordHash : {h1, h2, h3},
             ownHash : {h1, h2, None}, digest : {h1, h2, None},
             signed : {h1, h2}, decided : BOOLEAN]

MCProbe ==
    Forms
    \cup {[Plain EXCEPT !.http = "GET"], [Plain EXCEPT !.http = "OPTIONS"],
          [Plain EXCEPT !.json = FALSE], [Plain EXCEPT !.jsonrpc = FALSE]}
    \cup {Of("verify_escalation_closure") @@
             [complete |-> TRUE, closure |-> k] : k \in Closures}
    \cup {Of("verify_escalation_closure") @@
             [complete |-> FALSE, closure |-> CHOOSE k \in Closures : TRUE]}
    \cup {Of("verify_signature_envelope") @@ [signatures |-> s] :
             s \in {<<>>, <<"good">>, <<"otherDocument", "good">>}}
    \cup {[r EXCEPT !.http = http] : r \in Relayed, http \in {"GET", "OPTIONS"}}
    \cup {[r EXCEPT !.json = FALSE] : r \in Relayed}
    \cup {[r EXCEPT !.upstream = "sigstore"] : r \in Relayed}
=============================================================================
