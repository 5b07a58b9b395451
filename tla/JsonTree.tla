------------------------------ MODULE JsonTree -------------------------------
(***************************************************************************)
(* Who owns what in the JSON layer (json/parser.c, json/builder.c over     *)
(* cJSON): a parse gives the caller an owning wrapper of a tree; the       *)
(* getters give wrappers that borrow from it, and pointers to strings      *)
(* inside it, "valid until the ROOT json is freed". A caller frees what it *)
(* was given, and the root last. Paths and equality are here too. Keys     *)
(* differ in more than their case, which cJSON would not look at.          *)
(***************************************************************************)
EXTENDS Calls, Naturals, Sequences, FiniteSets, SequencesExt

CONSTANTS
    Wrappers,           \* knishio_json_t allocations
    Trees               \* cJSON allocations

VARIABLES
    tree,       \* tree[t]: the value allocated as t, or Missing
    held,       \* held[h]: what a wrapper the caller holds wraps, or Missing
    lent,       \* the strings the caller reads: their trees
    builder     \* the members of the object under construction, or Missing

jsonVars == <<tree, held, lent, builder>>

Str(text) == [type |-> "string", text |-> text, items |-> <<>>]
Null == [type |-> "null", text |-> "", items |-> <<>>]
Arr(values) == [type |-> "array", text |-> "",
                items |-> [i \in DOMAIN values |-> [key |-> "", value |-> values[i]]]]
Obj(items) == [type |-> "object", text |-> "", items |-> items]
Item(key, value) == [key |-> key, value |-> value]

IsContainer(v) == v.type \in {"array", "object"}

JsonInit ==
    /\ tree = [t \in Trees |-> Missing]
    /\ held = [h \in Wrappers |-> Missing]
    /\ lent = {}
    /\ builder = Missing

-----------------------------------------------------------------------------
(* Reading. A step of a path is a key or an index, counted from 1 here. *)

\* knishio_json_object_get, the first member of that name; knishio_json_array_get,
\* where a token that is no index leads nowhere.
Child(v, token) ==
    CASE v # Missing /\ v.type = "object" /\ (\E i \in DOMAIN v.items : v.items[i].key = token) ->
            v.items[SelectInSeq(v.items, LAMBDA item : item.key = token)].value
      [] v # Missing /\ v.type = "array" /\ token \in {ToString(i) : i \in DOMAIN v.items} ->
            v.items[CHOOSE i \in DOMAIN v.items : ToString(i) = token].value
      [] OTHER -> Missing

\* knishio_json_get_path: one wrapper after another, each freed for the next but the
\* one the caller came with.
Walked(v, path) ==
    FoldLeft(LAMBDA w, token :
                IF w.at = Missing THEN w
                ELSE [at |-> Child(w.at, token), steps |-> w.steps + 1,
                      freed |-> IF w.steps = 0 THEN w.freed ELSE w.freed + 1],
             [at |-> v, steps |-> 0, freed |-> 0], path)

\* knishio_json_equal
RECURSIVE Equal(_, _)
Equal(a, b) ==
    /\ a.type = b.type /\ a.text = b.text
    /\ Len(a.items) = Len(b.items)
    /\ IF a.type = "array"
       THEN \A i \in DOMAIN a.items : Equal(a.items[i].value, b.items[i].value)
       ELSE \A i \in DOMAIN a.items :
                /\ Child(b, a.items[i].key) # Missing
                /\ Equal(Child(a, a.items[i].key), Child(b, a.items[i].key))

-----------------------------------------------------------------------------
(* Wrappers. *)

\* wrap_cjson: only the wrapper of a container remembers whether it owns it.
Wrapped(t, v, owned) == [tree |-> t, value |-> v, owned |-> owned /\ IsContainer(v)]

\* What freeing the wrapper h leaves of the trees (knishio_json_free). A scalar that
\* is a tree of its own is never freed.
TreesWithout(h) == IF held[h].owned THEN [tree EXCEPT ![held[h].tree] = Missing] ELSE tree

\* A new tree with its wrapper.
Given(h, t, v) ==
    /\ held[h] = Missing /\ tree[t] = Missing
    /\ tree' = [tree EXCEPT ![t] = v]
    /\ held' = [held EXCEPT ![h] = Wrapped(t, v, TRUE)]

\* knishio_json_parse
Parse(h, t, v) == Given(h, t, v) /\ UNCHANGED <<lent, builder>>

\* knishio_json_clone, by way of the text.
Clone(h, g, t) ==
    /\ held[h] # Missing
    /\ Given(g, t, held[h].value)
    /\ UNCHANGED <<lent, builder>>

\* knishio_json_get_path, also for a single step. A path with no step in it, which
\* no caller has, would give the wrapper it is given.
GetPath(h, g, path) ==
    /\ held[h] # Missing /\ held[g] = Missing
    /\ LET w == Walked(held[h].value, path)
           walkedOn == IF w.freed = w.steps THEN [held EXCEPT ![h] = Missing] ELSE held
       IN /\ held' = IF w.at = Missing THEN walkedOn
                     ELSE [walkedOn EXCEPT ![g] = Wrapped(held[h].tree, w.at, FALSE)]
          /\ tree' = IF w.freed = w.steps THEN TreesWithout(h) ELSE tree
    /\ UNCHANGED <<lent, builder>>

\* knishio_json_get_string_path: the wrapper it walked to is freed, the string stays
\* where it is.
GetStringPath(h, path) ==
    /\ held[h] # Missing
    /\ LET w == Walked(held[h].value, path)
           last == Wrapped(held[h].tree, w.at, FALSE)
       IN /\ w.at # Missing
          /\ lent' = IF w.at.type = "string" THEN lent \cup {held[h].tree} ELSE lent
          /\ tree' = IF w.freed = w.steps THEN TreesWithout(h)
                     ELSE IF last.owned THEN [tree EXCEPT ![held[h].tree] = Missing] ELSE tree
          /\ held' = IF w.freed = w.steps THEN [held EXCEPT ![h] = Missing] ELSE held
    /\ UNCHANGED builder

\* The caller has copied what it wanted of the strings of a tree.
CopiedOut(t) ==
    /\ t \in lent
    /\ lent' = lent \ {t}
    /\ UNCHANGED <<tree, held, builder>>

\* A caller frees the wrapper that owns the tree when it is done with the rest.
IsLast(h) ==
    held[h].owned => /\ held[h].tree \notin lent
                     /\ \A g \in Wrappers \ {h} : held[g] # Missing => held[g].tree # held[h].tree

\* knishio_json_free
FreeJson(h) ==
    /\ held[h] # Missing /\ IsLast(h)
    /\ tree' = TreesWithout(h)
    /\ held' = [held EXCEPT ![h] = Missing]
    /\ UNCHANGED <<lent, builder>>

-----------------------------------------------------------------------------
(* Builders. *)

\* knishio_json_object_builder_create; knishio_json_builder_start_object, which drops
\* what was under construction.
StartObject ==
    /\ builder' = <<>>
    /\ UNCHANGED <<tree, held, lent>>

\* knishio_json_object_set: a copy is added, the value given is freed.
ObjectSet(h, key) ==
    /\ builder # Missing /\ held[h] # Missing /\ IsLast(h)
    /\ builder' = Append(builder, Item(key, held[h].value))
    /\ tree' = TreesWithout(h)
    /\ held' = [held EXCEPT ![h] = Missing]
    /\ UNCHANGED lent

\* knishio_json_object_build; the builder is freed after it.
BuildObject(h, t) ==
    /\ builder # Missing
    /\ Given(h, t, Obj(builder))
    /\ builder' = Missing
    /\ UNCHANGED lent

-----------------------------------------------------------------------------
(* The instance: values of depth three. *)

Inner == Obj(<<Item("a", Null), Item("b", Str("x"))>>)
Outer == Obj(<<Item("a", Str("x")), Item("b", Arr(<<Str("x"), Inner>>))>>)
Values == {Str("x"), Outer}
Paths == {<<"a">>, <<"b">>, <<"b", "2">>, <<"b", "a">>, <<"b", "2", "b">>}

JsonNext ==
    \/ \E h \in Wrappers, t \in Trees, v \in Values : Parse(h, t, v)
    \/ \E h, g \in Wrappers, t \in Trees : Clone(h, g, t)
    \/ \E h, g \in Wrappers, path \in Paths : GetPath(h, g, path)
    \/ \E h \in Wrappers, path \in Paths : GetStringPath(h, path)
    \/ \E t \in Trees : CopiedOut(t)
    \/ \E h \in Wrappers : FreeJson(h)
    \/ StartObject
    \/ \E h \in Wrappers : builder = <<>> /\ held[h] # Missing /\ held[h].value \in Values
                           /\ ObjectSet(h, "k")
    \/ \E h \in Wrappers, t \in Trees : BuildObject(h, t)

Comparable == {Null, Str("x"), Str("y"), Arr(<<>>), Arr(<<Null>>), Arr(<<Null, Null>>), Obj(<<>>),
               Obj(<<Item("a", Null)>>), Obj(<<Item("b", Null)>>),
               Obj(<<Item("a", Null), Item("b", Null)>>), Obj(<<Item("b", Null), Item("a", Null)>>),
               Obj(<<Item("a", Arr(<<Null>>))>>), Obj(<<Item("a", Arr(<<Str("x")>>))>>)}

Compare ==
    Quiet /\ \E a, b \in Comparable :
        Made([fn |-> "equal", left |-> a, right |-> b, equal |-> Equal(a, b)])

-----------------------------------------------------------------------------
(* Properties. *)

\* Nothing a careful caller still holds of a tree is freed under it, by a getter, a
\* builder or the free of another wrapper ("the borrowed-until-root-free contract
\* every caller assumes", json/parser.c:62).
NothingDangles ==
    /\ \A t \in lent : tree[t] # Missing
    /\ \A h \in Wrappers : held[h] # Missing => tree[held[h].tree] # Missing

\* And each tree of an array or object has one wrapper that will free it, no more.
TreesHaveOneOwner ==
    \A t \in Trees :
        tree[t] # Missing /\ IsContainer(tree[t]) =>
            Cardinality({h \in Wrappers : held[h] # Missing /\ held[h].tree = t /\ held[h].owned}) = 1

\* Two values are equal when they have the same members, in any order, and each is.
EqualIsStructural ==
    call.fn = "equal" =>
        (call.equal <=>
            /\ call.left.type = call.right.type /\ call.left.text = call.right.text
            /\ IF call.left.type = "object" THEN ToSet(call.left.items) = ToSet(call.right.items)
               ELSE call.left.items = call.right.items)

\* Trees are freed once, when nobody reads them, and compared by their members.
JsonIsOwned == NothingDangles /\ TreesHaveOneOwner /\ EqualIsStructural

=============================================================================
