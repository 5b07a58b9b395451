------------------------------ MODULE Requests -------------------------------
(***************************************************************************)
(* From the arguments of a query or mutation to what its caller is told:   *)
(* the variables (operations/query.c, client_ops.c), the request, the body *)
(* that arrives in chunks (http.c), the response made of it (graphql.c)    *)
(* and the results of the operations. Texts are values of JsonTree or, as  *)
(* Garbage, texts that do not parse. libcurl and the validator are         *)
(* external.                                                               *)
(***************************************************************************)
EXTENDS Answers

CONSTANTS
    Garbage,        \* a text that is no JSON
    Room            \* the characters a variables buffer has for its values

ASSUME RequestAssumption == Room \in Nat

\* knishio_json_parse
Parsed(text) == IF text = Garbage THEN Missing ELSE text

-----------------------------------------------------------------------------
(* Variables. An argument is known by its length and by whether it needs  *)
(* escaping, which the formatting does not do.                             *)

Argument(length, plain) == [length |-> length, plain |-> plain]
Absent == Argument(0, FALSE)        \* NULL

\* snprintf into a buffer: what does not fit is cut off, and with it the closing brace.
FormattedVariables(args) ==
    LET given == {key \in DOMAIN args : args[key] # Absent} IN
    IF MapThenSumSet(LAMBDA key : args[key].length, given) > Room \/ \E key \in given : ~args[key].plain
    THEN Garbage
    ELSE FoldSet(LAMBDA key, o : With(o, key, Num(ToString(args[key].length))), Obj(<<>>), given)

\* knishio_client_query_meta, _query_batch and _query_batch_history, _query_active_session
MetaVariables(metaType, metaId) == FormattedVariables([metaType |-> metaType, metaId |-> metaId])
BatchVariables(batchId) == FormattedVariables([batchId |-> batchId])
SessionVariables(bundle, metaType, metaId) ==
    FormattedVariables([bundleHash |-> bundle, metaType |-> metaType, metaId |-> metaId])

\* The variables of knishio_client_query_atom: the lists and texts that are there, always
\* latest, a limit above zero. Its buffer is taken to be large enough.
AtomVariables(lists, texts, latest, limit) ==
    LET there == {key \in DOMAIN lists : lists[key] # <<>>}
        given == {key \in DOMAIN texts : texts[key] # Absent}
        listed == FoldSet(LAMBDA key, o : With(o, key, Arr([i \in DOMAIN lists[key] |-> Num(ToString(lists[key][i].length))])),
                          Obj(<<>>), there)
        named  == FoldSet(LAMBDA key, o : With(o, key, Num(ToString(texts[key].length))), listed, given)
        plain  == (\A key \in given : texts[key].plain)
                  /\ \A key \in there : \A i \in DOMAIN lists[key] : lists[key][i].plain
    IN IF ~plain THEN Garbage
       ELSE With(With(named, "latest", Bool(latest)), "limit", IF limit > 0 THEN Num(ToString(limit)) ELSE Missing)

\* The variables knishio_client_request_guest_auth_token and _active_session build: each
\* argument that was given, escaped. They are made a text by knishio_json_to_string.
BuiltVariables(args) ==
    LET given == {key \in DOMAIN args : args[key] # Absent} IN
    ToText(FoldSet(LAMBDA key, o : With(o, key, Num(ToString(args[key].length))), Obj(<<>>), given))

GuestVariables(cellSlug, pubkey) == BuiltVariables([cellSlug |-> cellSlug, pubkey |-> pubkey])
ActivityVariables(bundle, metaType, metaId, browser) ==
    BuiltVariables([bundleHash |-> bundle, metaType |-> metaType, metaId |-> metaId, browser |-> browser])

\* build_graphql_payload, which escapes nothing: a query that would need it, as a whole
\* request handed to it as the query does, is taken to make no JSON.
GraphqlPayload(query, variables) ==
    IF ~query.plain \/ variables = Garbage THEN Garbage
    ELSE Request(ToString(query.length), variables)

\* build_graphql_request_json: variables that do not parse are left out.
SentVariables(variables) == IF variables = Missing THEN Missing ELSE Parsed(variables)

-----------------------------------------------------------------------------
(* The answer. *)

\* knishio_curl_write_callback: each chunk goes behind the ones before it; one there is
\* no memory for ends the transfer.
Collected(chunks, full) ==
    IF full \in DOMAIN chunks THEN Missing ELSE FlattenSeq(chunks)

\* What the body is to its reader, of the parts the validator sent.
BodyOf(collected, parts, json) ==
    CASE collected = <<>>                          -> Missing
      [] collected # <<>> /\ collected = parts     -> json
      [] OTHER                                     -> Garbage

\* set_propose_status_error
StatusError(status, reason) ==
    Arr(<<Obj(<<Item("message", Str("ProposeMolecule " \o status \o ": "
                                    \o (IF reason = Missing THEN "no reason given" ELSE reason)))>>)>>)

\* extract_graphql_errors
ExtractErrors(json) == IF JsonHasErrors(json) THEN Child(json, "errors") ELSE Missing

\* knishio_graphql_response_apply_body
ApplyBody(status_code, body, is_mutation) ==
    LET json   == IF body = Missing THEN Missing ELSE Parsed(body)
        errors == ExtractErrors(json)
        said   == StringAt(json, <<"data", "ProposeMolecule", "status">>)
        refused == is_mutation /\ said \notin {Missing, "accepted"}
    IN [success |-> status_code \in 200..299 /\ errors = Missing /\ ~refused,
        data    |-> body,
        errors  |-> IF errors = Missing /\ refused
                    THEN StatusError(said, StringAt(json, <<"data", "ProposeMolecule", "reason">>))
                    ELSE errors,
        molecular_hash |-> IF is_mutation THEN StringAt(json, <<"data", "ProposeMolecule", "molecularHash">>)
                           ELSE Missing]

\* knishio_graphql_execute, with what the transport makes of the request.
Execute(op, token, transport) ==
    CASE op.requires_auth /\ token = Missing -> [error |-> "AUTH", response |-> Missing]
      [] ~(op.requires_auth /\ token = Missing) /\ transport.collected = Missing ->
            [error |-> "NETWORK", response |-> Missing]
      [] OTHER -> [error |-> "SUCCESS",
                   response |-> ApplyBody(transport.status_code,
                                          BodyOf(transport.collected, transport.parts, transport.json),
                                          op.is_mutation)]

-----------------------------------------------------------------------------
(* Results of the operations. *)

\* knishio_client_propose_molecule
ProposedMolecule(outcome) ==
    LET r == outcome.response IN
    CASE outcome.error # "SUCCESS" -> [error |-> outcome.error, hash |-> Missing]
      [] outcome.error = "SUCCESS" /\ r.success /\ r.molecular_hash # Missing ->
            [error |-> "SUCCESS", hash |-> r.molecular_hash]
      [] OTHER -> [error |-> "INVALID_RESPONSE", hash |-> Missing]

\* knishio_client_execute_query, _execute_mutation
RawResult(outcome) ==
    LET r == outcome.response IN
    CASE outcome.error # "SUCCESS" -> [error |-> outcome.error, data |-> Missing]
      [] outcome.error = "SUCCESS" /\ r.success /\ r.data # Missing -> [error |-> "SUCCESS", data |-> r.data]
      [] OTHER -> [error |-> "INVALID_RESPONSE", data |-> Missing]

\* knishio_client_query_atom, _query_active_session, _active_session
ResultOf(outcome) ==
    LET r == outcome.response IN
    CASE outcome.error # "SUCCESS" -> Missing
      [] outcome.error = "SUCCESS" /\ r.success /\ r.data # Missing ->
            [success |-> TRUE, response |-> r.data, error_message |-> Missing]
      [] OTHER ->
            [success |-> FALSE, response |-> Missing,
             error_message |-> IF r.errors # Missing THEN r.errors ELSE Str("Query failed")]

\* knishio_client_query_policy: the first policy, or an empty one.
QueriedPolicy(outcome) ==
    LET r == ResultOf(outcome)
        found == IF r = Missing THEN <<>> ELSE Elements(Walked(Parsed(r.response), <<"data", "Policy">>).at)
    IN CASE r = Missing -> Missing
         [] r # Missing /\ r.success /\ found # <<>> -> found[1]
         [] OTHER -> Obj(<<>>)

\* knishio_parse_profile_auth_response, knishio_extract_server_pubkey: two members of an
\* object that comes as a text.
FromPayload(data, texts, key) ==
    LET text == StringAt(Parsed(data), <<"data", "ProposeMolecule", "payload">>) IN
    IF text \notin DOMAIN texts THEN Missing ELSE StringAt(texts[text], <<key>>)

\* knishio_client_request_guest_auth_token
GuestResult(outcome) ==
    LET r == ResultOf(outcome) IN
    IF r = Missing \/ ~r.success THEN Missing
    ELSE StringAt(Parsed(r.response), <<"data", "AccessToken", "token">>)

\* parse_proposal_response and parse_balance_response; an answer that does not parse is
\* an error.
ParsedProposal(body) ==
    IF body = Garbage THEN [error |-> "INVALID_STATE", hash |-> Missing]
    ELSE [error |-> "SUCCESS", hash |-> StringAt(body, <<"data", "ProposeMolecule", "molecularHash">>)]

ParsedBalance(body) ==
    LET Said(key) == StringAt(body, <<"data", "Balance", key>>) IN
    IF body = Garbage THEN [error |-> "INVALID_STATE"]
    ELSE [error |-> "SUCCESS", value |-> Said("balance"), token |-> Said("token"), wallet_address |-> Said("address")]

\* knishio_graphql_propose_molecule: its success is the status of the exchange.
DirectProposal(transport) ==
    LET parsed == ParsedProposal(BodyOf(transport.collected, transport.parts, transport.json)) IN
    CASE transport.collected = Missing -> [error |-> "NETWORK", success |-> FALSE, hash |-> Missing]
      [] transport.collected # Missing /\ parsed.error # "SUCCESS" ->
            [error |-> parsed.error, success |-> FALSE, hash |-> Missing]
      [] OTHER -> [error |-> "SUCCESS", success |-> transport.status_code \in 200..299, hash |-> parsed.hash]

\* knishio_graphql_query_balance: an answer is read if its status is a success.
DirectBalance(transport) ==
    LET parsed == ParsedBalance(BodyOf(transport.collected, transport.parts, transport.json))
        success == transport.status_code \in 200..299
    IN CASE transport.collected = Missing -> [error |-> "NETWORK", success |-> FALSE, value |-> Missing]
         [] transport.collected # Missing /\ success /\ parsed.error # "SUCCESS" ->
               [error |-> parsed.error, success |-> FALSE, value |-> Missing]
         [] OTHER -> [error |-> "SUCCESS", success |-> success,
                      value |-> IF success THEN parsed.value ELSE Missing]

\* knishio_client_query_balance: the amount where it is a text that is not empty, "0.0"
\* in every other answer, one that does not parse included.
QueriedBalance(outcome) ==
    LET r == outcome.response
        amount == StringAt(Parsed(r.data), <<"data", "Balance", "amount">>)
    IN CASE outcome.error # "SUCCESS" -> [error |-> outcome.error, balance |-> Missing]
         [] outcome.error = "SUCCESS" /\ (~r.success \/ r.data = Missing) ->
               [error |-> "INVALID_RESPONSE", balance |-> Missing]
         [] OTHER -> [error |-> "SUCCESS", balance |-> IF amount \in {Missing, ""} THEN "0.0" ELSE amount]

\* knishio_client_query_balance_wallet_of_type: no wallet where there is no balance, and
\* none where the exchange failed.
QueriedWallet(outcome) ==
    LET r == outcome.response
        balance == Walked(Parsed(r.data), <<"data", "Balance">>).at
    IN IF outcome.error # "SUCCESS" \/ ~r.success \/ r.data = Missing THEN Missing
       ELSE IF balance = Missing \/ balance.type # "object" THEN Missing ELSE ClientWallet(balance)

\* strtod
Amount(text) == IF text \in Numerals THEN CHOOSE n \in 0..99 : ToString(n) = text ELSE 0

\* knishio_client_query_source_wallet
QueriedSource(outcome, amount) ==
    LET queried == QueriedBalance(outcome) IN
    CASE queried.error # "SUCCESS" -> queried.error
      [] queried.error = "SUCCESS" /\ Amount(queried.balance) < amount -> "BALANCE_INSUFFICIENT"
      [] OTHER -> "SUCCESS"

\* knishio_client_request_profile_auth_token reads both of an answer.
LoginResult(outcome, texts) ==
    LET r == ResultOf(outcome) IN
    IF r = Missing \/ ~r.success THEN [token |-> Missing, key |-> Missing]
    ELSE [token |-> FromPayload(r.response, texts, "token"), key |-> FromPayload(r.response, texts, "key")]

-----------------------------------------------------------------------------
(* Calls. *)

Payloads == [p \in {"token", "both"} |->
            IF p = "token" THEN Obj(<<Item("token", Str("t"))>>)
            ELSE Obj(<<Item("key", Str("k")), Item("token", Str("t"))>>)]

Arguments == {Absent} \cup {Argument(n, plain) : n \in {0, 1, Room \div 2, Room}, plain \in BOOLEAN}

ShortArguments == {Absent, Argument(1, TRUE), Argument(1, FALSE)}

Asked(args, variables) ==
    Made([fn |-> "ask", args |-> args, asked |-> Request("q", SentVariables(variables))])

\* The operations whose variables are formatted into a buffer.
AskFormatted ==
    Quiet /\ \/ \E id \in Arguments \ {Absent} : Asked([batchId |-> id], BatchVariables(id))
             \/ \E type \in Arguments \ {Absent}, id \in Arguments :
                   Asked([metaType |-> type, metaId |-> id], MetaVariables(type, id))
             \/ \E bundle, type, id \in Arguments \ {Absent} :
                   Asked([bundleHash |-> bundle, metaType |-> type, metaId |-> id],
                         SessionVariables(bundle, type, id))

\* Those whose variables are built; the query of knishio_http_post_graphql.
AskBuilt ==
    Quiet /\ \/ \E slug, pubkey \in ShortArguments \ {Absent} :
                   Asked([cellSlug |-> slug, pubkey |-> pubkey], GuestVariables(slug, pubkey))
             \/ \E bundle, type, id \in ShortArguments \ {Absent}, browser \in ShortArguments :
                   Asked([bundleHash |-> bundle, metaType |-> type, metaId |-> id, browser |-> browser],
                         ActivityVariables(bundle, type, id, browser))
             \/ \E query \in ShortArguments \ {Absent}, variables \in {Missing, Obj(<<>>), Garbage} :
                   Made([fn |-> "post", query |-> query, variables |-> variables,
                         payload |-> GraphqlPayload(query, variables)])

AskAtoms ==
    Quiet /\ \E hashes \in SeqOf(ShortArguments \ {Absent}, 2), hash, slug \in ShortArguments,
               latest \in BOOLEAN, limit \in {0, 1} :
        LET lists == [molecularHashes |-> hashes]
            texts == [molecularHash |-> hash, tokenSlug |-> slug]
        IN Made([fn |-> "atoms", lists |-> lists, texts |-> texts, latest |-> latest, limit |-> limit,
                 asked |-> Request("q", SentVariables(AtomVariables(lists, texts, latest, limit)))])

Proposals ==
    {With(With(With(With(Obj(<<>>), "molecularHash", hash), "status", status), "reason", reason), "payload", payload) :
        hash \in {Missing, Str("h")}, status \in {Missing, Null, Str("accepted"), Str("rejected")},
        reason \in {Missing, Str("r")}, payload \in {Missing, Null, Str("token"), Str("both"), Str("x")}}

AnswerBodies ==
    {With(With(Obj(<<>>), "data", With(Obj(<<>>), "ProposeMolecule", p)), "errors", errors) :
        p \in Proposals \cup {Missing, Null}, errors \in {Missing, Null, Arr(<<>>), Arr(<<Obj(<<>>)>>)}}
    \cup {Obj(<<Item("data", Obj(<<Item("Policy", Arr(<<Str("p"), Str("q")>>))>>))>>),
             Obj(<<Item("data", Obj(<<Item("AccessToken", Obj(<<Item("token", Str("t"))>>))>>))>>),
             Obj(<<>>), Garbage}
    \cup {With(Obj(<<Item("data", Obj(<<Item("Balance", With(Obj(<<Item("balance", Str("7"))>>), "amount", amount))>>))>>),
               "errors", errors) :
               amount \in {Missing, Null, Str(""), Str("7"), Num("7")}, errors \in {Missing, Arr(<<Obj(<<>>)>>)}}

\* What of the parts 1, 2, 3 arrives before the validator closes, in which chunks.
Deliveries == {<< <<1, 2, 3>> >>, << <<1>>, <<2, 3>> >>, << <<1>>, <<2>>, <<3>> >>, << <<1>>, <<2>> >>, <<>>}

Exchange ==
    Quiet /\ \E op \in [requires_auth : BOOLEAN, is_mutation : BOOLEAN], token \in {Missing, "T"},
               json \in AnswerBodies, status_code \in {200, 401}, chunks \in Deliveries, full \in {0, 2} :
        LET transport == [collected |-> Collected(chunks, full), parts |-> <<1, 2, 3>>,
                          json |-> json, status_code |-> status_code]
            outcome == Execute(op, token, transport)
        IN Made([fn |-> "exchange", mutation |-> op.is_mutation, body |-> json, status_code |-> status_code,
                 outcome |-> outcome,
                 told |-> [proposed |-> ProposedMolecule(outcome), raw |-> RawResult(outcome),
                           result |-> ResultOf(outcome), login |-> LoginResult(outcome, Payloads),
                           policy |-> QueriedPolicy(outcome), guest |-> GuestResult(outcome),
                           direct |-> DirectProposal(transport), balance |-> DirectBalance(transport),
                           queried |-> QueriedBalance(outcome), row |-> QueriedWallet(outcome),
                           source |-> [amount \in 0..8 |-> QueriedSource(outcome, amount)]]])

RequestsNext == AskFormatted \/ AskBuilt \/ AskAtoms \/ Exchange

-----------------------------------------------------------------------------
(* Properties. *)

\* A request carries all of the variables it was asked to or none of them, never a part:
\* all if they fit the buffer they are formatted in and need no escaping, none where
\* they are built. What was not given is not asked for. A payload that parses is the
\* request it was made of.
VariablesAreWhole ==
    LET variables == Child(call.asked, "variables") IN
    /\ call.fn = "post" /\ call.payload # Garbage =>
         /\ StringAt(call.payload, <<"query">>) = ToString(call.query.length)
         /\ Child(call.payload, "variables") = call.variables
    /\ call.fn = "ask" /\ variables # Obj(<<>>) =>
         LET given == {key \in DOMAIN call.args : call.args[key] # Absent} IN
         IF (\A key \in given : call.args[key].plain)
            /\ MapThenSumSet(LAMBDA key : call.args[key].length, given) <= Room
         THEN \A key \in DOMAIN call.args :
                  NumberAt(variables, <<key>>) =
                      IF key \in given THEN ToString(call.args[key].length) ELSE Missing
         ELSE variables = Missing
    /\ call.fn = "atoms" =>
         \/ variables = Missing
            /\ \E a \in Range(call.texts) \cup Range(call.lists.molecularHashes) : a # Absent /\ ~a.plain
         \/ /\ \A key \in DOMAIN call.texts :
                   NumberAt(variables, <<key>>) =
                       IF call.texts[key] # Absent THEN ToString(call.texts[key].length) ELSE Missing
            /\ Len(Elements(Child(variables, "molecularHashes"))) = Len(call.lists.molecularHashes)
            /\ Child(variables, "latest") = Bool(call.latest)
            /\ call.limit = 0 <=> Child(variables, "limit") = Missing

\* A proposal succeeds, with the hash the validator gave, only if all of an answer came
\* that tells of no error and no rejection. Every result that is no success has a
\* message, a success has the answer, and whatever arrived of a failed exchange, nobody
\* takes a token, a policy or a balance from it. What the one way of proposing tells as
\* accepted, the other tells so too, with the same hash.
OutcomesAreTold ==
    call.fn = "exchange" =>
        LET json == Parsed(call.body)  told == call.told  r == call.outcome.response
            status == StringAt(json, <<"data", "ProposeMolecule", "status">>)
            fine == call.status_code = 200 /\ ~JsonHasErrors(json)
                    /\ (call.mutation => status \in {Missing, "accepted"})
        IN /\ told.proposed.error = "SUCCESS" =>
                fine /\ told.proposed.hash = StringAt(json, <<"data", "ProposeMolecule", "molecularHash">>)
           /\ told.result # Missing =>
                /\ told.result.success => told.raw.error = "SUCCESS" /\ told.result.response = told.raw.data
                /\ ~told.result.success => told.result.error_message # Missing /\ told.raw.data = Missing
                /\ r.data = call.body /\ json # Missing => (told.result.success <=> fine)
           /\ r # Missing /\ call.mutation /\ call.status_code = 200 /\ ~r.success => r.errors # Missing
           /\ told.login.token # Missing \/ told.guest # Missing => fine
           /\ told.policy \notin {Missing, Obj(<<>>)} => fine /\ told.policy = Str("p")
           /\ told.balance.value # Missing => call.status_code = 200 /\ told.balance.success
           /\ told.proposed.error = "SUCCESS" => told.direct.success /\ told.direct.hash = told.proposed.hash
           /\ told.direct.error # "SUCCESS" => told.proposed.error # "SUCCESS"
           /\ told.login.key # Missing => told.login.token # Missing

\* A wallet is named as source of an amount only if the wallet read of the same answer
\* has that amount; and whatever arrived of a failed exchange, no balance is made of it,
\* also not one of nothing.
SourcesCover ==
    call.fn = "exchange" =>
        LET told == call.told  r == call.outcome.response IN
        /\ \A amount \in DOMAIN told.source :
             /\ told.source[amount] = "SUCCESS" /\ amount > 0 =>
                  told.row # Missing /\ amount <= Amount(told.row.balance)
             /\ told.source[amount] = "BALANCE_INSUFFICIENT" /\ told.row # Missing
                  /\ Walked(Parsed(call.body), <<"data", "Balance", "amount">>).at # Num("7")
                    => amount > Amount(told.row.balance)
        /\ told.queried.balance # Missing \/ told.row # Missing =>
             call.status_code = 200 /\ r.errors = Missing /\ told.raw.error = "SUCCESS"

RequestsAreTold == VariablesAreWhole /\ OutcomesAreTold /\ SourcesCover

=============================================================================
