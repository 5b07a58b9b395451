----------------------------- MODULE DurableMap -----------------------------
(***************************************************************************)
(* What "Persists key-value pairs atomically to disk" (storage/backend.h)  *)
(* promises: a durable map that changes only to a whole map, the one some  *)
(* open handle holds, and that an opened handle starts from unless it      *)
(* cannot read it. A handle may hold changes that are not durable (yet),   *)
(* and loses them when it goes.                                            *)
(***************************************************************************)
CONSTANTS Handles, Keys, Values, Missing, Closed

VARIABLES
    durable,    \* what a handle opened now would hold
    view        \* what each handle holds, or Closed

vars == <<durable, view>>

Maps     == [Keys -> Values \cup {Missing}]
EmptyMap == [k \in Keys |-> Missing]

Init == durable = EmptyMap /\ view = [h \in Handles |-> Closed]

Open(h) ==
    /\ view[h] = Closed
    /\ \E read \in {durable, EmptyMap} : view' = [view EXCEPT ![h] = read]
    /\ UNCHANGED durable

Edit(h) ==
    /\ view[h] # Closed
    /\ \E k \in Keys, v \in Values \cup {Missing} :
        view' = [view EXCEPT ![h] = [view[h] EXCEPT ![k] = v]]
    /\ UNCHANGED durable

Commit(h) ==
    /\ view[h] # Closed
    /\ durable' = view[h]
    /\ UNCHANGED view

\* One handle goes with its process, and others of the process with it.
Leave ==
    /\ \E gone \in SUBSET Handles :
        view' = [h \in Handles |-> IF h \in gone THEN Closed ELSE view[h]]
    /\ UNCHANGED durable

Next == Leave \/ \E h \in Handles : Open(h) \/ Edit(h) \/ Commit(h)

Spec == Init /\ [][Next]_vars

=============================================================================
