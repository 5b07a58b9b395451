------------------------------ MODULE Policies -------------------------------
(***************************************************************************)
(* The access policies of policy_meta.c (normalised, filled up with        *)
(* defaults, merged, asked) and the rules of policy/rule.c (read from      *)
(* JSON, evaluated, written back). A permission list is the set of its     *)
(* strings. Keys differ in more than their case, which cJSON would not     *)
(* look at.                                                                *)
(***************************************************************************)
EXTENDS Calls, Integers, Sequences, SequencesExt

CONSTANTS
    PolicyKeys,     \* meta keys; "characters" and "pubkey" are special
    Addresses,      \* wallet addresses
    NotAList, NotAnObject   \* JSON of another type

Sections == {"read", "write"}

-----------------------------------------------------------------------------
(* Policies. *)

\* What a key may have: no array, or an array of strings.
Lists == {{who} : who \in Addresses \cup {"all", "self"}}
Grants == Lists \cup {NotAList}
SectionsOf == [PolicyKeys -> Grants \cup {Missing}]

\* JSON's types are told apart, and from NULL.
ASSUME PolicyAssumption ==
    /\ NotAList \notin Lists /\ Missing \notin Grants
    /\ Missing \notin SectionsOf /\ NotAnObject \notin SectionsOf \cup {Missing}

NoKeys == [k \in PolicyKeys |-> Missing]

\* knishio_policy_normalize_json: two sections; one that is no object has no keys.
NormalizedPolicy(policy) ==
    [s \in Sections |-> IF policy[s] = NotAnObject THEN NoKeys ELSE policy[s]]

DefaultGrant(s, k) ==
    IF s = "write" /\ k \notin {"characters", "pubkey"} THEN {"self"} ELSE {"all"}

\* Mutant of Filled: a default for every key.
FilledOver(policy, metaKeys) ==
    [s \in Sections |->
        LET section == IF policy[s] = Missing THEN NoKeys ELSE policy[s] IN
        [k \in PolicyKeys |->
            IF section # NoKeys /\ k \in metaKeys THEN DefaultGrant(s, k) ELSE section[k]]]

\* knishio_policy_fill_defaults: where a section has no key at all, array_diff has no
\* array to compare with and finds nothing missing.
Filled(policy, metaKeys) ==
    [s \in Sections |->
        LET section == IF policy[s] = Missing THEN NoKeys ELSE policy[s] IN
        [k \in PolicyKeys |->
            IF section # NoKeys /\ k \in metaKeys /\ section[k] = Missing
            THEN DefaultGrant(s, k) ELSE section[k]]]

\* knishio_policy_meta_create
CreatedPolicy(policy, metaKeys) ==
    IF metaKeys = {} THEN NormalizedPolicy(policy)
    ELSE Filled(NormalizedPolicy(policy), metaKeys)

\* knishio_policy_meta_merge_policies
MergedPolicies(base, override) ==
    [s \in Sections |->
        CASE override[s] = Missing -> base[s]
          [] base[s] = Missing -> override[s]
          [] OTHER -> [k \in PolicyKeys |-> IF override[s][k] # Missing THEN override[s][k]
                                            ELSE base[s][k]]]

IsList(policy, s, k) == policy[s] # Missing /\ policy[s][k] \notin {Missing, NotAList}

\* knishio_policy_meta_check_read_access, _check_write_access
ReadAccess(policy, k, who) ==
    ~IsList(policy, "read", k) \/ policy["read"][k] \cap {"all", who} # {}

WriteAccess(policy, k, who) ==
    IsList(policy, "write", k) /\ policy["write"][k] \cap {"all", "self", who} # {}

Access(policy, s, k, who) ==
    IF s = "read" THEN ReadAccess(policy, k, who) ELSE WriteAccess(policy, k, who)

-----------------------------------------------------------------------------
(* Rules. *)

Operators == {"==", "!=", "<", "<=", ">", ">=", "contains", "regex", "in", "not_in"}

\* A text is its place in strcmp's order and what sscanf("%lf") makes of its front.
NotANumber == -1    \* no number there
Nan == -2           \* "nan", which compares with nothing
Texts == {[text |-> 1, num |-> 10], [text |-> 2, num |-> 9], [text |-> 3, num |-> 9],
          [text |-> 4, num |-> NotANumber], [text |-> 5, num |-> NotANumber],
          [text |-> 6, num |-> Nan]}

\* strstr(x, y) # NULL, and the same for y as a pattern without special characters:
\* "10", "9", "9.0", "a", "ba", "nan".
Strstr(x, y) == <<x.text, y.text>> \in {<<i, i>> : i \in 1..6} \cup {<<3, 2>>, <<5, 4>>, <<6, 4>>}

BothNumbers(x, y) == x.num # NotANumber /\ y.num # NotANumber
Same(x, y) == IF BothNumbers(x, y) THEN x.num = y.num /\ x.num # Nan ELSE x.text = y.text
Less(x, y) ==
    IF BothNumbers(x, y) THEN x.num < y.num /\ Nan \notin {x.num, y.num} ELSE x.text < y.text

\* compare_values
CompareValues(left, right, operator) ==
    CASE operator = "=="       -> Same(left, right)
      [] operator = "!="       -> ~Same(left, right)
      [] operator = "<"        -> Less(left, right)
      [] operator = "<="       -> Less(left, right) \/ Same(left, right)
      [] operator = ">"        -> Less(right, left)
      [] operator = ">="       -> Less(right, left) \/ Same(left, right)
      [] operator = "contains" -> Strstr(left, right)
      [] operator = "regex"    -> Strstr(left, right)
      [] operator = "in"       -> Strstr(right, left)
      [] operator = "not_in"   -> ~Strstr(right, left)

\* get_context_value: a named field is the context's own or nothing; any other key is
\* looked up in the metadata, then in the transaction.
ContextValue(context, key) ==
    CASE key = "amount" -> context.amount
      [] key # "amount" /\ context.meta # Missing -> context.meta
      [] OTHER -> context.transaction

\* knishio_condition_evaluate
ConditionHolds(condition, context) ==
    LET value == ContextValue(context, condition.key) IN
    value # Missing /\ CompareValues(value, condition.value, condition.comparison)

\* knishio_rule_evaluate
Passes(rule, context) ==
    \A i \in DOMAIN rule.conditions : ConditionHolds(rule.conditions[i], context)

Actions == {"reject", "meta", "collect", "buffer", "remit", "burn"}
Fields == {"metaType", "metaId", "meta", "address", "token", "amount", "comparison"}

\* knishio_condition_from_json, knishio_callback_from_json: what is not understood is
\* NULL. An action is read in any case.
ConditionFromJson(json) == IF json.comparison \in Operators THEN json ELSE Missing
CallbackFromJson(json) ==
    IF json.action \in Actions THEN [action |-> json.action, fields |-> json.fields] ELSE Missing

Understood(seq) == Chosen(seq, ToSet(seq) \ {Missing})

\* knishio_rule_from_json leaves out what is NULL.
RuleFromJson(json) ==
    [conditions |-> Understood([i \in DOMAIN json.condition |-> ConditionFromJson(json.condition[i])]),
     callbacks  |-> Understood([i \in DOMAIN json.callback |-> CallbackFromJson(json.callback[i])])]

\* knishio_callback_is_meta and so on: what an action must come with.
Needs(action) ==
    CASE action = "reject" -> {}
      [] action = "meta" -> {"metaType", "metaId", "meta"}
      [] action \in {"collect", "buffer"} -> {"address", "token", "amount", "comparison"}
      [] action = "remit" -> {"token", "amount"}
      [] action = "burn" -> {"token", "amount", "comparison"}
IsAction(callback, action) == callback.action = action /\ Needs(action) \subseteq callback.fields

\* knishio_callback_to_json
CallbackToJson(callback) ==
    [action |-> callback.action, fields |-> callback.fields, upper |-> FALSE]

\* knishio_rule_to_json
RuleToJson(rule) ==
    [condition |-> rule.conditions,
     callback  |-> [i \in DOMAIN rule.callbacks |-> CallbackToJson(rule.callbacks[i])]]

-----------------------------------------------------------------------------
(* Calls. *)

GivenSections == SectionsOf \cup {Missing, NotAnObject}

CreatePolicy ==
    Quiet /\ \E read, write \in GivenSections, metaKeys \in SUBSET PolicyKeys :
        LET policy == [s \in Sections |-> IF s = "read" THEN read ELSE write] IN
        Made([fn |-> "policy", policy |-> NormalizedPolicy(policy), keys |-> metaKeys,
              created |-> CreatedPolicy(policy, metaKeys)])

MergePolicies ==
    Quiet /\ \E base, override \in SectionsOf \cup {Missing}, s \in Sections :
        LET of(section) == [r \in Sections |-> IF r = s THEN section ELSE Missing] IN
        Made([fn |-> "merge", base |-> of(base), override |-> of(override),
              merged |-> MergedPolicies(of(base), of(override))])

JsonConditions == [key : {"amount", "color"}, value : {[text |-> 1, num |-> 10]},
                   comparison : Operators \cup {"~"}]
JsonCallbacks == [action : Actions \cup {"forward"}, fields : SUBSET Fields, upper : BOOLEAN]

JsonRules == [condition : {<<c, d>> : c, d \in JsonConditions}, callback : {<<>>}]
             \cup [condition : {<<>>}, callback : {<<c>> : c \in JsonCallbacks}]

ReadRule ==
    Quiet /\ \E json \in JsonRules :
        Made([fn |-> "rule", json |-> json, rule |-> RuleFromJson(json)])

Contexts == [amount : Texts \cup {Missing}, meta : {Missing, [text |-> 2, num |-> 9]},
             transaction : Texts \cup {Missing}]

\* The rule of one condition, with every operator.
EvaluateRule ==
    Quiet /\ \E key \in {"amount", "color"}, value \in Texts, context \in Contexts :
        Made([fn |-> "evaluate", key |-> key, value |-> value, context |-> context,
              passes |-> [o \in Operators |->
                Passes([conditions |-> <<[key |-> key, value |-> value, comparison |-> o]>>,
                        callbacks |-> <<>>], context)]])

PoliciesNext == CreatePolicy \/ MergePolicies \/ ReadRule \/ EvaluateRule

PolicySpec == call = NoCall /\ [][PoliciesNext \/ Return]_call

-----------------------------------------------------------------------------
(* Properties. *)

\* Defaults take nothing away and leave what the application named: who could read
\* still can and nobody else, who could write still can, and a key with a list of its
\* own is for whom the list says; and defaults filled in twice are those of once.
DefaultsKeepAccess ==
    call.fn = "policy" =>
        /\ \A s \in Sections, k \in PolicyKeys, who \in Addresses :
            LET before == Access(call.policy, s, k, who)
                after  == Access(call.created, s, k, who)
            IN /\ before => after
               /\ s = "read" \/ IsList(call.policy, s, k) => (before <=> after)
        /\ CreatedPolicy(call.created, call.keys) = call.created

\* Of two merged policies the second decides about the keys it names, the first about
\* all others, in each section.
MergeIsPerKey ==
    call.fn = "merge" =>
        \A s \in Sections, k \in PolicyKeys, who \in Addresses :
            LET decides == IF call.override[s] # Missing /\ call.override[s][k] # Missing
                           THEN call.override ELSE call.base IN
            Access(call.merged, s, k, who) = Access(decides, s, k, who)

\* A rule written to JSON and read again is the same rule, with as much to trigger.
RuleSurvivesJson ==
    call.fn = "rule" =>
        LET again == RuleFromJson(RuleToJson(call.rule)) IN
        /\ again = call.rule
        /\ \A i \in DOMAIN again.callbacks, a \in Actions :
            IsAction(again.callbacks[i], a) = IsAction(call.rule.callbacks[i], a)

\* A rule and the rule with the opposite operator share the contexts out between them,
\* with numbers and texts mixed; a context without the key passes neither, and
\* "nan" neither orders nor equals anything.
OppositesDivide ==
    call.fn = "evaluate" =>
        LET value == ContextValue(call.context, call.key)
            Opposites(o, p) == call.passes[o] # call.passes[p]
        IN IF value = Missing THEN \A o \in Operators : ~call.passes[o]
           ELSE /\ Opposites("==", "!=") /\ Opposites("in", "not_in")
                /\ ~(BothNumbers(value, call.value) /\ Nan \in {value.num, call.value.num}) =>
                    /\ Opposites("<", ">=") /\ Opposites(">", "<=")
                    /\ ~(call.passes["<"] /\ call.passes[">"])

\* Who may read or write, and what a rule passes, is decided by what was written, not
\* by defaults, merging or the way through JSON.
AccessIsDecided == DefaultsKeepAccess /\ MergeIsPerKey /\ RuleSurvivesJson /\ OppositesDivide

=============================================================================
