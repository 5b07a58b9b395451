----------------------------- MODULE HandlePool -----------------------------
(***************************************************************************)
(* The transport of http.c: threads share one client and its pool of idle  *)
(* libcurl handles. A request takes an idle handle or a new one, sets its  *)
(* options, performs, and gives the handle back; the pool keeps so many    *)
(* and closes the others. A critical section is two steps, so that the     *)
(* mutex has something to do. libcurl is external: a request ends, because *)
(* it has a timeout, and a handle keeps the options set on it.             *)
(***************************************************************************)
EXTENDS Naturals

CONSTANTS
    Threads, NoThread,
    Handles, NoHandle,      \* what curl_easy_init may return
    Limit                   \* KNISHIO_HTTP_IDLE_HANDLES

ASSUME LimitAssumption == Limit \in Nat
ASSUME NoneAssumption == NoThread \notin Threads /\ NoHandle \notin Handles

VARIABLES
    alive,      \* the client exists
    lock,       \* who holds pool->lock
    idle,       \* pool->idle
    count,      \* pool->count
    open,       \* handles libcurl has allocated
    options,    \* options[h][o]: unset, set by the request h serves, or left
                \* by an earlier one, whose locals it pointed to
    pc,         \* where a thread's request is
    kind,       \* knishio_http_post or knishio_http_get, while it runs
    curl,       \* its local: the handle
    seen        \* its local: the count it read under the lock

pool == <<lock, idle, count>>
vars == <<alive, pool, open, options, pc, kind, curl, seen>>

Kinds == {"post", "get"}
OptionNames == {"url", "body", "headers", "sink"}
Unset == [o \in OptionNames |-> "unset"]

Init ==
    /\ alive = FALSE
    /\ lock = NoThread
    /\ idle = [i \in 0..Limit-1 |-> NoHandle] /\ count = 0
    /\ open = {}
    /\ options = [h \in Handles |-> Unset]
    /\ pc = [t \in Threads |-> "idle"]
    /\ kind = [t \in Threads |-> "none"]
    /\ curl = [t \in Threads |-> NoHandle]
    /\ seen = [t \in Threads |-> 0]

Goes(t, to) == pc' = [pc EXCEPT ![t] = to]

\* What is read under the lock is of no use after it.
Unlock(t, to) ==
    /\ lock' = NoThread /\ Goes(t, to)
    /\ seen' = [seen EXCEPT ![t] = 0]

\* A request returns.
Ends(t) ==
    /\ curl' = [curl EXCEPT ![t] = NoHandle]
    /\ kind' = [kind EXCEPT ![t] = "none"]

-----------------------------------------------------------------------------
(* The client. Nobody uses it before it is made or after it is freed. *)

\* knishio_http_client_create, when it succeeds; a failure leaves nothing.
Create ==
    /\ ~alive
    /\ alive' = TRUE
    /\ UNCHANGED <<pool, open, options, pc, kind, curl, seen>>

\* knishio_http_client_free closes what is idle.
Free ==
    /\ alive /\ \A t \in Threads : pc[t] = "idle"
    /\ alive' = FALSE
    /\ open' = open \ {idle[i] : i \in 0..count-1}
    /\ options' = [h \in Handles |-> IF h \in open' THEN options[h] ELSE Unset]
    /\ count' = 0 /\ idle' = [i \in 0..Limit-1 |-> NoHandle]
    /\ UNCHANGED <<lock, pc, kind, curl, seen>>

-----------------------------------------------------------------------------
(* knishio_http_post and knishio_http_get *)

Begin(t, k) ==
    /\ alive /\ pc[t] = "idle"
    /\ kind' = [kind EXCEPT ![t] = k]
    /\ Goes(t, "acquire")
    /\ UNCHANGED <<alive, pool, open, options, curl, seen>>

\* pthread_mutex_lock, and the count.
Lock(t, from, to) ==
    /\ pc[t] = from /\ lock = NoThread
    /\ lock' = t /\ Goes(t, to)
    /\ seen' = [seen EXCEPT ![t] = count]

\* acquire_handle
Acquire(t) ==
    /\ Lock(t, "acquire", "take")
    /\ UNCHANGED <<alive, idle, count, open, options, kind, curl>>

TakeIdle(t) ==
    /\ pc[t] = "take" /\ seen[t] > 0
    /\ curl' = [curl EXCEPT ![t] = idle[seen[t] - 1]]
    /\ count' = seen[t] - 1
    /\ Unlock(t, "reset")
    /\ UNCHANGED <<alive, idle, open, options, kind>>

TakeNone(t) ==
    /\ pc[t] = "take" /\ seen[t] = 0
    /\ Unlock(t, "open")
    /\ UNCHANGED <<alive, idle, count, open, options, kind, curl>>

\* curl_easy_init
OpenHandle(t) ==
    /\ pc[t] = "open"
    /\ \E h \in Handles \ open :
        /\ open' = open \cup {h}
        /\ curl' = [curl EXCEPT ![t] = h]
    /\ Goes(t, "set")
    /\ UNCHANGED <<alive, pool, options, kind, seen>>

\* Mutant of OpenHandleFails: it tries again.
OpenHandleAgain(t) ==
    /\ pc[t] = "open"
    /\ Goes(t, "acquire")
    /\ UNCHANGED <<alive, pool, open, options, kind, curl, seen>>

OpenHandleFails(t) ==
    /\ pc[t] = "open"
    /\ Goes(t, "idle") /\ Ends(t)
    /\ UNCHANGED <<alive, pool, open, options, seen>>

\* Mutant of Reset: an idle handle is used as it is.
ResetNothing(t) ==
    /\ pc[t] = "reset"
    /\ Goes(t, "set")
    /\ UNCHANGED <<alive, pool, open, options, kind, curl, seen>>

\* curl_easy_reset of a handle from the pool.
Reset(t) ==
    /\ pc[t] = "reset"
    /\ options' = [options EXCEPT ![curl[t]] = Unset]
    /\ Goes(t, "set")
    /\ UNCHANGED <<alive, pool, open, kind, curl, seen>>

\* What a request sets: a GET no body and no headers, and a POST no headers if it
\* has no content type and its client neither token nor pubkey.
Sets(k) ==
    IF k = "get" THEN {{"url", "sink"}}
    ELSE {OptionNames, OptionNames \ {"headers"}}

SetOptions(t) ==
    /\ pc[t] = "set"
    /\ \E set \in Sets(kind[t]) :
        options' = [options EXCEPT ![curl[t]] =
                        [o \in OptionNames |-> IF o \in set THEN "set" ELSE @[o]]]
    /\ Goes(t, "perform")
    /\ UNCHANGED <<alive, pool, open, kind, curl, seen>>

\* No memory for the URL.
SetOptionsFails(t) ==
    /\ pc[t] = "set"
    /\ Goes(t, "release")
    /\ UNCHANGED <<alive, pool, open, options, kind, curl, seen>>

\* curl_easy_perform; what the options point to is freed.
Perform(t) ==
    /\ pc[t] = "perform"
    /\ options' = [options EXCEPT ![curl[t]] =
                    [o \in OptionNames |-> IF @[o] = "unset" THEN "unset" ELSE "left"]]
    /\ Goes(t, "release")
    /\ UNCHANGED <<alive, pool, open, kind, curl, seen>>

\* release_handle
Release(t) ==
    /\ Lock(t, "release", "store")
    /\ UNCHANGED <<alive, idle, count, open, options, kind, curl>>

Store(t) ==
    /\ pc[t] = "store" /\ seen[t] < Limit
    /\ idle' = [idle EXCEPT ![seen[t]] = curl[t]]
    /\ count' = seen[t] + 1
    /\ Unlock(t, "idle") /\ Ends(t)
    /\ UNCHANGED <<alive, open, options>>

StoreFull(t) ==
    /\ pc[t] = "store" /\ seen[t] >= Limit
    /\ Unlock(t, "close")
    /\ UNCHANGED <<alive, idle, count, open, options, kind, curl>>

\* curl_easy_cleanup
Close(t) ==
    /\ pc[t] = "close"
    /\ open' = open \ {curl[t]}
    /\ options' = [options EXCEPT ![curl[t]] = Unset]
    /\ Goes(t, "idle") /\ Ends(t)
    /\ UNCHANGED <<alive, pool, seen>>

Steps(t) ==
    \/ Acquire(t) \/ TakeIdle(t) \/ TakeNone(t)
    \/ OpenHandle(t) \/ OpenHandleFails(t) \/ Reset(t)
    \/ SetOptions(t) \/ SetOptionsFails(t) \/ Perform(t)
    \/ Release(t) \/ Store(t) \/ StoreFull(t) \/ Close(t)

Next ==
    \/ Create \/ Free
    \/ \E t \in Threads : Steps(t) \/ \E k \in Kinds : Begin(t, k)

\* A thread under way is scheduled, and libcurl's timeout ends its request.
Fairness == \A t \in Threads : WF_vars(Steps(t))

Spec == Init /\ [][Next]_vars /\ Fairness

-----------------------------------------------------------------------------
(* Properties. *)

PcValues == {"idle", "acquire", "take", "open", "reset", "set", "perform",
             "release", "store", "close"}

\* Types; the lock is held in the critical sections, and nowhere else.
TypeOK ==
    /\ \A t \in Threads : lock = t <=> pc[t] \in {"take", "store"}
    /\ alive \in BOOLEAN
    /\ lock \in Threads \cup {NoThread}
    /\ idle \in [0..Limit-1 -> Handles \cup {NoHandle}]
    /\ count \in 0..Limit
    /\ open \subseteq Handles
    /\ options \in [Handles -> [OptionNames -> {"unset", "set", "left"}]]
    /\ pc \in [Threads -> PcValues]
    /\ kind \in [Threads -> Kinds \cup {"none"}]
    /\ curl \in [Threads -> Handles \cup {NoHandle}]
    /\ seen \in [Threads -> 0..Limit]

\* "A handle serves one request at a time, so concurrent requests on one client
\* each take their own" (http.c:30): an open handle is one thread's or in one
\* place of the pool, and no thread has one that is closed.
OneHolder ==
    /\ \A t, u \in Threads : curl[t] # NoHandle /\ curl[t] = curl[u] => t = u
    /\ \A t \in Threads, i \in 0..count-1 : alive => curl[t] # idle[i]
    /\ \A i, j \in 0..count-1 : alive /\ idle[i] = idle[j] => i = j
    /\ \A t \in Threads : curl[t] # NoHandle => curl[t] \in open

\* Every open handle is somebody's: none is lost on an error path, at the limit
\* of the pool or with the client ("releases resources").
NothingLeaks ==
    open = {curl[t] : t \in {u \in Threads : curl[u] # NoHandle}}
           \cup IF alive THEN {idle[i] : i \in 0..count-1} ELSE {}

\* A request goes out with its own options only ("Clears every option the
\* previous request set", acquire_handle): a GET is not sent with an earlier
\* POST's body, nor anything with another request's headers, which are freed.
OwnOptions ==
    \A t \in Threads : pc[t] = "perform" =>
        {o \in OptionNames : options[curl[t]][o] = "set"} \in Sets(kind[t])
        /\ \A o \in OptionNames : options[curl[t]][o] # "left"

\* Requests are answered: as long as some are under way, some return, whatever
\* fails. (Not each: pthread mutexes promise no order among those that wait.)
SomeReturn ==
    \/ []<>(\A t \in Threads : pc[t] = "idle")
    \/ []<><<\E t \in Threads : pc[t] # "idle" /\ pc'[t] = "idle">>_vars

\* The four at once: the pool never gives a handle to two, never loses one, and never
\* sends what another request left on it.
PoolIsSound == TypeOK /\ OneHolder /\ NothingLeaks /\ OwnOptions

=============================================================================
