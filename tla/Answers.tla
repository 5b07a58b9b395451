------------------------------- MODULE Answers -------------------------------
(***************************************************************************)
(* Requests and answers as the library builds and reads them               *)
(* (json/builder.c, json/parser.c, json/serializers.c, response/, and the  *)
(* operations of graphql.c), on the values of JsonTree. A text that is     *)
(* longer than the buffer it is formatted in, and the statistics of        *)
(* responses.c, are left out.                                              *)
(***************************************************************************)
EXTENDS JsonTree

CONSTANTS
    Unauthenticated,    \* messages strstr finds "Unauthenticated" in
    Numerals            \* texts strtod reads as a number

ASSUME AnswersAssumption == Unauthenticated \subseteq STRING /\ Numerals \subseteq STRING

Num(text) == [type |-> "number", text |-> text, items |-> <<>>]
Bool(b) == [type |-> "bool", text |-> IF b THEN "true" ELSE "false", items |-> <<>>]

-----------------------------------------------------------------------------
(* Reading. *)

\* knishio_json_get_string, _get_number; the text of a number is the number.
OfType(v, type) == IF v # Missing /\ v.type = type THEN v.text ELSE Missing
StringAt(v, path) == OfType(Walked(v, path).at, "string")
NumberAt(v, path) == OfType(Walked(v, path).at, "number")

\* knishio_json_array_get of every index, knishio_json_object_keys
Elements(v) == IF v # Missing /\ v.type = "array" THEN [i \in DOMAIN v.items |-> v.items[i].value] ELSE <<>>
MemberKeys(v) == IF v # Missing /\ v.type = "object" THEN [i \in DOMAIN v.items |-> v.items[i].key] ELSE <<>>
Has(v, key) == Child(v, key) # Missing

\* knishio_json_to_string, as it is built without HAVE_CJSON: of an array or object no
\* more than a placeholder, of anything else the value.
ToText(v) == IF IsContainer(v) THEN Obj(<<>>) ELSE v

-----------------------------------------------------------------------------
(* Building. *)

\* knishio_json_object_set and its variants; NULL is refused.
With(object, key, v) ==
    IF v = Missing THEN object ELSE [object EXCEPT !.items = Append(@, Item(key, v))]

\* knishio_json_object_set_string
WithString(object, key, text) == With(object, key, IF text = Missing THEN Missing ELSE Str(text))

\* knishio_json_builder_add_string, where NULL is the empty text
WithText(object, key, text) == With(object, key, Str(IF text = Missing THEN "" ELSE text))

\* knishio_json_create_array_from, which passes over NULL; knishio_json_array_add
ArrayOf(values) == Arr(SelectSeq(values, LAMBDA v : v # Missing))

\* knishio_json_create_object_from
ObjectOf(keys, values) ==
    FoldLeft(LAMBDA o, i : With(o, keys[i], values[i]), Obj(<<>>), [i \in DOMAIN keys |-> i])

\* knishio_json_graphql_query_with_variables, _mutation_with_variables
Request(query, variables) == With(WithString(Obj(<<>>), "query", query), "variables", variables)

\* knishio_json_build_wallet_query, _balance_query, _molecule_query and _propose_molecule
\* _mutation: what was given, under the names of the query.
RequestFor(op, args) ==
    LET Given2(a, b) == WithString(WithString(Obj(<<>>), a, args[1]), b, args[2])
    IN CASE op = "WalletBundle" -> Request(op, Given2("bundleHash", "token"))
         [] op = "Balance" -> Request(op, Given2("address", "token"))
         [] op = "Molecule" /\ args[1] # Missing ->
                Request(op, WithString(Obj(<<>>), "moleculeHash", args[1]))
         [] op = "ProposeMolecule" /\ args[1] # Missing ->
                Request(op, WithString(Obj(<<>>), "molecule", args[1]))
         [] OTHER -> Missing

\* knishio_graphql_build_balance_query, _build_propose_mutation: the document alone.
BalanceDocument(address, token) ==
    IF address = Missing THEN Missing ELSE StringAt(RequestFor("Balance", <<address, token>>), <<"query">>)
ProposeDocument(molecule) == StringAt(RequestFor("ProposeMolecule", <<molecule>>), <<"query">>)

\* build_graphql_request_json: variables that do not parse are left out.
BuildRequest(query, variables) == Request(query, variables)

-----------------------------------------------------------------------------
(* Responses. *)

ErrorFrom(v) ==
    [message |-> StringAt(v, <<"message">>), code |-> StringAt(v, <<"code">>),
     extensions |-> Child(v, "extensions")]

\* Mutant of ErrorsOf: an error without a message is passed over.
ErrorsOfSaid(json) ==
    LET elements == SelectSeq(Elements(Child(json, "errors")), LAMBDA v : StringAt(v, <<"message">>) # Missing)
    IN [i \in DOMAIN elements |-> ErrorFrom(elements[i])]

\* What knishio_response_init keeps of "errors", if it is an array.
ErrorsOf(json) ==
    LET elements == Elements(Child(json, "errors")) IN [i \in DOMAIN elements |-> ErrorFrom(elements[i])]

\* knishio_response_create: no response when the validator tells of an exception.
CreateResponse(json, data_key) ==
    IF json = Missing \/ StringAt(json, <<"exception">>) # Missing THEN Missing
    ELSE [response |-> json, data_key |-> data_key, errors |-> ErrorsOf(json),
          is_authenticated |->
            \A i \in DOMAIN ErrorsOf(json) : ErrorsOf(json)[i].message \notin Unauthenticated]

\* knishio_response_data, _has_errors, _error_message and _validate
ResponseData(r) == Walked(r.response, r.data_key).at
HasErrors(r) == r.errors # <<>>
ErrorMessage(r) == IF r.errors = <<>> THEN Missing ELSE r.errors[1].message
Validate(r) == ~HasErrors(r) \/ ResponseData(r) # Missing

\* knishio_json_is_graphql_response, _is_successful_response
IsGraphqlResponse(json) == json # Missing /\ json.type = "object" /\ (Has(json, "data") \/ Has(json, "errors"))
IsSuccessfulResponse(json) ==
    IsGraphqlResponse(json) /\ IF Has(json, "errors") THEN Elements(Child(json, "errors")) = <<>> ELSE Has(json, "data")

\* knishio_json_has_errors, _get_first_error_message; extract_graphql_errors is alike
JsonHasErrors(json) == Elements(Child(json, "errors")) # <<>>
FirstErrorMessage(json) ==
    IF JsonHasErrors(json) THEN StringAt(Elements(Child(json, "errors"))[1], <<"message">>) ELSE Missing

\* knishio_response_detect_type: the first of these that data has.
DataKeys == <<"Balance", "Wallet", "WalletBundle", "ProposeMolecule", "Atom", "ActiveSession", "ContinuId",
              "MetaType", "CreateMeta", "RequestTokens", "CreateIdentifier", "Policy">>
DetectType(json) ==
    LET at == SelectInSeq(DataKeys, LAMBDA key : Has(Child(json, "data"), key)) IN
    IF at = 0 THEN "Base" ELSE DataKeys[at]

\* Those knishio_response_types_init registers, all by their data key; the others are
\* made as a base response, whose data is all of it.
Registered == {"Balance", "Wallet", "ProposeMolecule", "Atom", "ContinuId"}
CreateByType(type, json) ==
    CreateResponse(json, IF type \in Registered THEN <<"data", type>> ELSE <<>>)

\* knishio_response_create_auto
CreateAuto(json) == CreateByType(DetectType(json), json)

-----------------------------------------------------------------------------
(* Wallets of an answer. *)

\* One of the tokenUnits; metas as the value their text stands for.
UnitFrom(v) ==
    LET metas == Child(v, "metas") IN
    [id |-> OfType(Child(v, "id"), "string"), name |-> OfType(Child(v, "name"), "string"),
     metas |-> IF metas = Missing THEN Obj(<<>>) ELSE metas]

\* knishio_response_wallet_list_to_client_wallet
ClientWallet(data) ==
    LET said == StringAt(data, <<"amount">>)
        number == NumberAt(data, <<"amount">>)
        batch == StringAt(data, <<"batchId">>)
        units == Elements(Child(data, "tokenUnits"))
    IN [bundle_hash |-> StringAt(data, <<"bundleHash">>), token |-> StringAt(data, <<"tokenSlug">>),
        batch_id |-> IF batch = "" THEN Missing ELSE batch,
        balance |-> CASE said # Missing -> IF said \in Numerals THEN said ELSE "0"
                      [] said = Missing /\ number # Missing -> number
                      [] OTHER -> "0",
        token_units |-> [i \in DOMAIN units |-> UnitFrom(units[i])]]

\* knishio_response_balance_has_data, _get_wallet
HasBalance(data) == StringAt(data, <<"bundleHash">>) # Missing /\ StringAt(data, <<"tokenSlug">>) # Missing
BalanceWallet(data) == IF HasBalance(data) THEN ClientWallet(data) ELSE Missing

\* knishio_response_balance_get_amount, which knows numbers only
BalanceAmount(data) == NumberAt(data, <<"amount">>)

-----------------------------------------------------------------------------
(* Calls. *)

SomeErrors == {Obj(<<>>), Str("x"), Obj(<<Item("message", Str("Unauthenticated"))>>),
               Obj(<<Item("code", Str("x")), Item("message", Str("y"))>>), Obj(<<Item("message", Null)>>)}
ErrorLists == {Missing, Null, Arr(<<>>)} \cup {Arr(<<a>>) : a \in SomeErrors}
              \cup {Arr(<<a, b>>) : a, b \in SomeErrors}
Datas == {Missing, Null, Obj(<<>>)} \cup {Obj(<<Item(key, Str(key))>>) : key \in ToSet(DataKeys)}
         \cup {Obj(<<Item("Atom", Null), Item("Wallet", Null)>>)}
Exceptions == {Missing, Null, Str("down")}

ReadAnswer ==
    Quiet /\ \E exception \in Exceptions, errors \in ErrorLists, data \in Datas :
        LET json == With(With(With(Obj(<<>>), "exception", exception), "errors", errors), "data", data) IN
        Made([fn |-> "answer", json |-> json, answer |-> CreateAuto(json)])

ServedUnits == {Obj(<<Item("id", Str("u"))>>), Null,
              Obj(<<Item("id", Str("v")), Item("name", Str("n")), Item("metas", Obj(<<Item("a", Null)>>))>>),
              Obj(<<Item("id", Num("1")), Item("metas", Str("{}"))>>)}
UnitLists == {Missing, Null, Str("u"), Arr(<<>>)} \cup {Arr(<<a>>) : a \in ServedUnits}
             \cup {Arr(<<a, b>>) : a, b \in ServedUnits}

ReadBalance ==
    Quiet /\ \E amount \in {Missing, Null} \cup {Num("7"), Str("7"), Str("x")},
               units \in UnitLists, batch \in {Missing, Str(""), Str("b")}, token \in {Missing, Str("T")} :
        LET data == With(With(With(With(WithString(Obj(<<>>), "bundleHash", "B"), "tokenSlug", token),
                                   "amount", amount), "tokenUnits", units), "batchId", batch) IN
        Made([fn |-> "balance", data |-> data, row |-> BalanceWallet(data)])

MakeRequest ==
    Quiet /\ \E op \in {"WalletBundle", "Balance", "Molecule", "ProposeMolecule"} :
        \E args \in [1..2 -> {Missing, "x", "y"}] :
            Made([fn |-> "request", query |-> op, args |-> args, request |-> RequestFor(op, args),
                  document |-> CASE op = "Balance" -> BalanceDocument(args[1], args[2])
                                 [] op = "ProposeMolecule" -> ProposeDocument(args[1])
                                 [] OTHER -> Missing])

\* A request of the client's own, and values put together.
BuildValues ==
    Quiet /\ \E values \in [1..3 -> {Missing, Null, Bool(TRUE), Num("7"), Str("x")}], body \in {Missing, Obj(<<>>)} :
        Made([fn |-> "values", values |-> values,
              listed |-> ArrayOf(values), object |-> ObjectOf(<<"k", "l", "k">>, values),
              printed |-> [i \in DOMAIN values |-> IF values[i] = Missing THEN Missing ELSE ToText(values[i])],
              streamed |-> WithText(WithText(Obj(<<>>), "s", OfType(values[1], "string")), "t", "x"),
              sent |-> BuildRequest("q", body)])

AnswersNext == ReadAnswer \/ ReadBalance \/ MakeRequest \/ BuildValues

-----------------------------------------------------------------------------
(* Properties. *)

\* Every way of asking an answer tells the same: whether it has errors, which is the
\* first and whether the client has to authenticate again; what succeeded is valid and
\* says nothing of errors; and the data of a response of a registered type is the member
\* it was recognised by. Behind an exception there is no response.
AnswersAgree ==
    call.fn = "answer" =>
        LET json == call.json  r == call.answer  type == DetectType(json) IN
        IF r = Missing THEN Child(json, "exception") # Missing
        ELSE /\ HasErrors(r) <=> JsonHasErrors(json)
             /\ ErrorMessage(r) = FirstErrorMessage(json)
             /\ ~r.is_authenticated <=>
                    \E v \in ToSet(Elements(Child(json, "errors"))) :
                        StringAt(v, <<"message">>) \in Unauthenticated
             /\ IsSuccessfulResponse(json) => Validate(r) /\ ErrorMessage(r) = Missing
             /\ type \in Registered => ResponseData(r) = Walked(json, <<"data", type>>).at
                                       /\ ResponseData(r) # Missing

\* A wallet has the balance the validator wrote, as text or as number, and as many token
\* units as it listed, in their order, each with metadata.
BalancesAreRead ==
    call.fn = "balance" /\ call.row # Missing =>
        LET data == call.data  listed == Elements(Child(data, "tokenUnits")) IN
        /\ Child(data, "amount") \in {Num("7"), Str("7")} <=> call.row.balance = "7"
        /\ BalanceAmount(data) # Missing => BalanceAmount(data) = call.row.balance
        /\ Len(call.row.token_units) = Len(listed)
        /\ \A i \in DOMAIN listed : call.row.token_units[i].id = OfType(Child(listed[i], "id"), "string")

\* A request carries what it was given where its query looks for it, and no more.
RequestsCarry ==
    call.fn = "request" /\ call.request # Missing =>
        LET variables == Child(call.request, "variables")
            given == {i \in 1..IF call.query \in {"Molecule", "ProposeMolecule"} THEN 1 ELSE 2 : call.args[i] # Missing}
        IN /\ StringAt(call.request, <<"query">>) = call.query
           /\ call.document \in {Missing, call.query}
           /\ variables # Missing /\ Len(MemberKeys(variables)) = Cardinality(given)
           /\ {StringAt(variables, <<key>>) : key \in ToSet(MemberKeys(variables))} = {call.args[i] : i \in given}

\* A builder keeps what it was given, in that order, and a reader finds the first of a
\* name; a value that is no container is printed as what it is; only NULL is passed over, or is the empty text while an object is streamed.
BuildersKeep ==
    call.fn = "values" =>
        LET v == call.values IN
        /\ Elements(call.listed) = SelectSeq(v, LAMBDA x : x # Missing)
        /\ Child(call.object, "k") = IF v[1] # Missing THEN v[1] ELSE v[3]
        /\ Child(call.object, "l") = v[2]
        /\ StringAt(call.streamed, <<"s">>) = IF v[1] = Str("x") THEN "x" ELSE ""
        /\ call.printed = v
        /\ StringAt(call.sent, <<"query">>) = "q"

AnswersAreRead == AnswersAgree /\ BalancesAreRead /\ RequestsCarry /\ BuildersKeep

=============================================================================
