---------------------------- MODULE StringBuffer -----------------------------
(***************************************************************************)
(* The growing strings of utils/string.c: content, capacity and who owns   *)
(* the bytes. An allocation may fail in any call. A character is a member  *)
(* of Alphabet; with NUL the content of a string made "with length" goes   *)
(* on where strlen, strstr and strcmp stop.                                *)
(***************************************************************************)
EXTENDS Calls, Integers, Sequences, SequencesExt

CONSTANTS
    Alphabet, NUL,      \* characters; NUL is the terminator's
    Space,              \* those is_whitespace knows
    Upper(_),           \* toupper
    Default,            \* DEFAULT_CAPACITY
    MinGrowth           \* MIN_GROWTH

ASSUME StringAssumption ==
    Default \in Nat \ {0} /\ MinGrowth \in Nat \ {0} /\ NUL \notin Alphabet /\ Space \subseteq Alphabet

\* knishio_string_t: data up to its length, with the terminator behind it.
Holding(data, capacity) == [data |-> data, capacity |-> capacity, is_static |-> FALSE]

\* What strlen and strstr see of the bytes from a place on.
CStr(data) ==
    LET end == SelectInSeq(data, LAMBDA c : c = NUL) IN
    IF end = 0 THEN data ELSE SubSeq(data, 1, end - 1)

-----------------------------------------------------------------------------
(* Capacity. *)

AtLeast(n) == IF n < Default THEN Default ELSE n

\* knishio_string_create_with_length, _with_cstr, _with_capacity, _create
CreatedWith(data, capacity) == Holding(data, AtLeast(capacity))

\* calculate_new_capacity; the loop ends within `needed` rounds.
NewCapacity(current, needed) ==
    FoldLeft(LAMBDA c, i : IF c >= needed THEN c
                           ELSE IF c < MinGrowth THEN c + MinGrowth ELSE c * 2,
             current, [i \in 1..needed |-> i])

\* ensure_capacity: the string with room, or as it is when there is none.
Ensured(s, needed, fails) ==
    CASE needed <= s.capacity -> [ok |-> TRUE, s |-> s]
      [] needed > s.capacity /\ fails -> [ok |-> FALSE, s |-> s]
      [] OTHER -> [ok |-> TRUE, s |-> [s EXCEPT !.capacity = NewCapacity(s.capacity, needed)]]

\* The new content, if there is room for it and its terminator.
Stored(s, data, fails) ==
    LET r == Ensured(s, Len(data) + 1, fails) IN
    IF r.ok THEN [ok |-> TRUE, s |-> [r.s EXCEPT !.data = data]] ELSE [ok |-> FALSE, s |-> s]

-----------------------------------------------------------------------------
(* Changing a string that is not static; one that is stays as it is. Each gives *)
(* whether the call returned true, or a count, and the string after it. *)

Clear(s) == [ok |-> TRUE, s |-> [s EXCEPT !.data = <<>>]]

\* knishio_string_append_length; nothing to append is refused.
AppendLength(s, data, fails) ==
    IF data = <<>> THEN [ok |-> FALSE, s |-> s] ELSE Stored(s, s.data \o data, fails)

\* knishio_string_insert at a place counted from 0, and knishio_string_prepend.
Insert(s, pos, data, fails) ==
    LET at == IF pos > Len(s.data) THEN Len(s.data) ELSE pos IN
    IF data = <<>> THEN [ok |-> TRUE, s |-> s]
    ELSE Stored(s, SubSeq(s.data, 1, at) \o data \o SubSeq(s.data, at + 1, Len(s.data)), fails)

ShrinkToFit(s, fails) ==
    CASE Len(s.data) + 1 >= s.capacity -> [ok |-> TRUE, s |-> s]
      [] Len(s.data) + 1 < s.capacity /\ fails -> [ok |-> FALSE, s |-> s]
      [] OTHER -> [ok |-> TRUE, s |-> [s EXCEPT !.capacity = Len(s.data) + 1]]

\* strstr: the first place from `start` on, counted from 1, or 0.
FirstAt(data, needle, start) ==
    LET places == {i \in start..Len(data) - Len(needle) + 1 :
                    SubSeq(data, i, i + Len(needle) - 1) = needle} IN
    IF places = {} THEN 0 ELSE CHOOSE i \in places : \A j \in places : i <= j

\* The places of `search`, from the left, each behind the one before it.
Pieces(data, search) ==
    FoldLeft(LAMBDA p, i :
                LET found == FirstAt(data, search, p.from) IN
                IF found = 0 \/ p.done THEN [p EXCEPT !.done = TRUE]
                ELSE [p EXCEPT !.cuts = Append(@, found), !.from = found + Len(search)],
             [cuts |-> <<>>, from |-> 1, done |-> FALSE], data).cuts

\* The pieces between them with the replacement.
Joined(data, cuts, size, replacement) ==
    LET Starts(k) == IF k = 0 THEN 1 ELSE cuts[k] + size
        Ends(k)   == IF k = Len(cuts) THEN Len(data) ELSE cuts[k + 1] - 1
    IN FoldLeft(LAMBDA r, k : r \o replacement \o SubSeq(data, Starts(k), Ends(k)),
                SubSeq(data, 1, Ends(0)), [k \in 1..Len(cuts) |-> k])

\* knishio_string_replace: another length makes a new string of what strstr sees, after
\* room has been made in the old one, and is refused if either allocation fails; the
\* same length replaces in place.
Replace(s, search, replacement, fails) ==
    LET seen   == CStr(s.data)
        cuts   == IF search = <<>> THEN <<>> ELSE Pieces(seen, search)
        length == Len(s.data) + Len(cuts) * (Len(replacement) - Len(search))
        result == Joined(seen, cuts, Len(search), replacement)
        room   == Ensured(s, length + 1, fails = "old")
    IN CASE cuts = <<>> -> [ok |-> FALSE, s |-> s]
         [] cuts # <<>> /\ Len(replacement) = Len(search) ->
                [ok |-> TRUE,
                 s |-> [s EXCEPT !.data = result \o SubSeq(@, Len(seen) + 1, Len(@))]]
         [] cuts # <<>> /\ Len(replacement) # Len(search) /\ fails = "old"
                /\ Len(replacement) > Len(search) /\ ~room.ok -> [ok |-> FALSE, s |-> s]
         [] cuts # <<>> /\ Len(replacement) # Len(search) /\ fails = "new" ->
                [ok |-> FALSE, s |-> IF Len(replacement) > Len(search) THEN room.s ELSE s]
         [] OTHER -> [ok |-> TRUE, s |-> CreatedWith(result, length + 1)]

\* knishio_string_ltrim, then _rtrim
TrimmedLeft(data) ==
    LET first == SelectInSeq(data, LAMBDA c : c \notin Space) IN
    IF first = 0 THEN <<>> ELSE SubSeq(data, first, Len(data))
TrimmedRight(data) ==
    LET last == SelectLastInSeq(data, LAMBDA c : c \notin Space) IN SubSeq(data, 1, last)

Trim(s) == [ok |-> TRUE, s |-> [s EXCEPT !.data = TrimmedRight(TrimmedLeft(@))]]
ToUpper(s) == [ok |-> TRUE, s |-> [s EXCEPT !.data = [i \in DOMAIN @ |-> Upper(@[i])]]]

-----------------------------------------------------------------------------
(* Asking. Places are counted from 1; 0 stands for SIZE_MAX. *)

Substr(s, start, length) ==
    IF start >= Len(s.data) THEN <<>>
    ELSE SubSeq(s.data, start + 1,
                IF length > Len(s.data) - start THEN Len(s.data) ELSE start + length)

\* knishio_string_find asks strstr, which stops at a NUL.
Find(s, needle, start) ==
    LET found == FirstAt(CStr(SubSeq(s.data, start + 1, Len(s.data))), needle, 1) IN
    IF start >= Len(s.data) \/ found = 0 THEN 0 ELSE start + found

\* knishio_string_rfind compares bytes.
RFind(s, needle) ==
    LET places == {i \in 1..Len(s.data) - Len(needle) + 1 :
                    SubSeq(s.data, i, i + Len(needle) - 1) = needle} IN
    IF s.data = <<>> \/ places = {} THEN 0 ELSE CHOOSE i \in places : \A j \in places : j <= i

Equals(s, data) == CStr(s.data) = CStr(data)
StartsWith(s, prefix) == IsPrefix(prefix, s.data)
EndsWith(s, suffix) == IsSuffix(suffix, s.data)

-----------------------------------------------------------------------------
(* Calls. *)

SmallTexts == UNION {[1..n -> Alphabet] : n \in 0..2}
Contents == UNION {[1..n -> Alphabet \cup {NUL}] : n \in 0..3} \cup [1..5 -> Alphabet \ Space]

\* Strings that were created, or grown, or shrunk to their content.
SomeStrings == {s \in {Holding(d, c) : d \in Contents, c \in {Default, 2 * Default}}
                      \cup {Holding(d, Len(d) + 1) : d \in Contents} : Len(s.data) < s.capacity}

\* What each operation makes of a string.
Changed(o, s, fails) ==
    CASE o.op = "set"     -> Stored(s, o.a, fails = "old")
      [] o.op = "append"  -> AppendLength(s, o.a, fails = "old")
      [] o.op = "insert"  -> Insert(s, o.pos, o.a, fails = "old")
      [] o.op = "clear"   -> Clear(s)
      [] o.op = "reserve" -> Ensured(s, o.pos, fails = "old")
      [] o.op = "shrink"  -> ShrinkToFit(s, fails = "old")
      [] o.op = "replace" -> Replace(s, o.a, o.b, fails)
      [] o.op = "trim"    -> Trim(s)
      [] o.op = "upper"   -> ToUpper(s)

\* The arguments each looks at.
Ops == [op : {"set", "append"}, a : SmallTexts, b : {<<>>}, pos : {0}]
       \cup [op : {"insert"}, a : SmallTexts, b : {<<>>}, pos : {0, 1, 4}]
       \cup [op : {"clear", "shrink", "trim", "upper"}, a : {<<>>}, b : {<<>>}, pos : {0}]
       \cup [op : {"reserve"}, a : {<<>>}, b : {<<>>}, pos : {0, 5, 9}]
       \cup [op : {"replace"}, a : SmallTexts, b : {<<>>, <<"b">>, <<"a", "a", "b">>}, pos : {0}]

ChangeString ==
    Quiet /\ \E s \in SomeStrings, o \in Ops, fails \in {"none", "old", "new"} :
        /\ fails = "new" => o.op = "replace"
        /\ Made([fn |-> "string", op |-> o, before |-> s, fails |-> fails,
                 string |-> Changed(o, s, fails)])

AskString ==
    Quiet /\ \E s \in SomeStrings, needle \in SmallTexts \ {<<>>} :
        Made([fn |-> "find", in |-> s.data, needle |-> needle,
              found |-> [first |-> Find(s, needle, 0), last |-> RFind(s, needle),
                         starts |-> StartsWith(s, needle), ends |-> EndsWith(s, needle),
                         equal |-> Equals(s, needle),
                         copy |-> IF Find(s, needle, 0) = 0 THEN <<>>
                                  ELSE Substr(s, Find(s, needle, 0) - 1, Len(needle))]])

StringsNext == ChangeString \/ AskString

-----------------------------------------------------------------------------
(* Properties. *)

\* Replacing by its definition: from the left, a match or a character at a time.
RECURSIVE Rewritten(_, _, _)
Rewritten(data, search, replacement) ==
    CASE data = <<>> -> <<>>
      [] data # <<>> /\ IsPrefix(search, data) ->
            replacement \o Rewritten(SubSeq(data, Len(search) + 1, Len(data)), search, replacement)
      [] OTHER -> <<Head(data)>> \o Rewritten(Tail(data), search, replacement)

\* There is always room for the terminator, a call that is refused has changed no
\* character, and one that is not has changed what it says: what was there before an
\* insertion is there around it, and a replacement is one of each match from the left.
\* (What stands behind a NUL is lost when the replacement is of another length.)
StringsAreWhole ==
    call.fn = "string" =>
        LET o == call.op  was == call.before.data  now == call.string.s.data
            at == IF o.pos > Len(was) THEN Len(was) ELSE o.pos
        IN /\ Len(now) < call.string.s.capacity
           /\ ~call.string.ok => now = was
           /\ call.string.ok /\ o.op = "insert" =>
                /\ SubSeq(now, at + 1, at + Len(o.a)) = o.a
                /\ SubSeq(now, 1, at) \o SubSeq(now, at + Len(o.a) + 1, Len(now)) = was
           /\ call.string.ok /\ o.op = "replace" =>
                CStr(now) = Rewritten(CStr(was), o.a, o.b)
           /\ call.fails = "none" /\ o.op \in {"set", "insert", "reserve", "shrink"} => call.string.ok

\* Without a NUL in it, the ways of looking for a text agree.
FindingAgrees ==
    call.fn = "find" /\ CStr(call.in) = call.in =>
        LET f == call.found IN
        /\ f.first = 0 <=> f.last = 0
        /\ f.first <= f.last
        /\ f.starts <=> f.first = 1
        /\ f.ends <=> f.last # 0 /\ f.last = Len(call.in) - Len(call.needle) + 1
        /\ f.equal <=> f.starts /\ f.ends /\ Len(call.in) = Len(call.needle)
        /\ f.first # 0 => f.copy = call.needle

=============================================================================
