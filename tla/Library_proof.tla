---------------------------- MODULE Library_proof ----------------------------
(***************************************************************************)
(* Parts of the library that share no state: the pool of idle handles,     *)
(* memory pools, the sponge, token units, policies, and the memory that a  *)
(* molecule is made of.                                                     *)
(***************************************************************************)
EXTENDS HandlePool, MemoryPool, Shake256, TokenUnits, Policies, MoleculeParts, FoldTheorems

-----------------------------------------------------------------------------
(* The pool of idle handles, for any number of threads, any supply of      *)
(* handles and any limit: each handle has one holder, none is lost, and a  *)
(* request has its own options only.                                       *)

Empty == {"idle", "acquire", "take", "open"}

\* What a thread has, where it is.
Places ==
    /\ \A t \in Threads : curl[t] = NoHandle <=> pc[t] \in Empty
    /\ \A t \in Threads : pc[t] # "idle" => kind[t] \in Kinds
    /\ \A t \in Threads : pc[t] # "idle" => alive
    /\ \A t \in Threads : pc[t] \in {"take", "store"} => seen[t] = count
    /\ ~alive => count = 0

\* Who has a handle; NothingLeaks, handle by handle.
Holders ==
    /\ \A i \in 0..count-1 : idle[i] \in open
    /\ \A t \in Threads : curl[t] # NoHandle => curl[t] \in open
    /\ \A h \in open : (\E t \in Threads : curl[t] = h) \/ (\E i \in 0..count-1 : idle[i] = h)

Apart ==
    /\ \A t, u \in Threads : curl[t] # NoHandle /\ curl[t] = curl[u] => t = u
    /\ \A t \in Threads, i \in 0..count-1 : curl[t] # idle[i]
    /\ \A i, j \in 0..count-1 : idle[i] = idle[j] => i = j

\* A new handle and one that was reset have no options.
Fresh ==
    /\ \A h \in Handles \ open : options[h] = Unset
    /\ \A t \in Threads : pc[t] = "set" => options[curl[t]] = Unset

IInv == TypeOK /\ Places /\ Holders /\ Apart /\ Fresh /\ OwnOptions

LEMMA InitIInv == Init => IInv
<1> SUFFICES ASSUME Init PROVE IInv
  OBVIOUS
<1>1. TypeOK
  <2>1. \A t \in Threads : lock = t <=> pc[t] \in {"take", "store"}
    BY NoneAssumption DEF Init
  <2>2. options \in [Handles -> [OptionNames -> {"unset", "set", "left"}]]
    BY DEF Init, Unset
  <2>3. seen \in [Threads -> 0..Limit] /\ count \in 0..Limit
    BY LimitAssumption DEF Init
  <2> QED
    BY <2>1, <2>2, <2>3 DEF Init, TypeOK, PcValues
<1>2. Places /\ Holders /\ Apart /\ Fresh /\ OwnOptions
  BY DEF Init, Places, Holders, Apart, Fresh, OwnOptions, Empty
<1> QED
  BY <1>1, <1>2 DEF IInv

\* A handle of the pool is in no hand, so its number tells it.
LEMMA OneInCriticalSection ==
    ASSUME TypeOK, NEW t \in Threads, NEW u \in Threads,
           pc[t] \in {"take", "store"}, pc[u] \in {"take", "store"}
    PROVE  t = u
  BY DEF TypeOK

LEMMA CountIsNat == TypeOK => Limit \in Nat /\ count \in Nat /\ count <= Limit
  BY LimitAssumption DEF TypeOK

-----------------------------------------------------------------------------
(* One lemma per action. *)

LEMMA CreateStep == IInv /\ Create => IInv'
  BY DEF Create, pool, IInv, TypeOK, Places, Holders, Apart, Fresh, OwnOptions, PcValues

LEMMA FreeStep ==
    ASSUME IInv, Free
    PROVE  IInv'
<1>1. /\ alive' = FALSE /\ count' = 0 /\ lock' = lock
      /\ idle' = [i \in 0..Limit-1 |-> NoHandle]
      /\ pc' = pc /\ kind' = kind /\ curl' = curl /\ seen' = seen
      /\ \A t \in Threads : pc[t] = "idle" /\ curl[t] = NoHandle
      /\ open' = open \ {idle[i] : i \in 0..count-1}
      /\ options' = [h \in Handles |-> IF h \in open' THEN options[h] ELSE Unset]
  BY DEF Free, IInv, Places, Empty
<1>2. Unset \in [OptionNames -> {"unset", "set", "left"}]
  BY DEF Unset
<1>3. TypeOK'
  <2>1. count' \in 0..Limit /\ open' \subseteq Handles
    BY <1>1, LimitAssumption DEF IInv, TypeOK
  <2>2. options' \in [Handles -> [OptionNames -> {"unset", "set", "left"}]]
    BY <1>1, <1>2 DEF IInv, TypeOK
  <2>3. idle' \in [0..Limit-1 -> Handles \cup {NoHandle}]
    BY <1>1
  <2> QED
    BY <1>1, <2>1, <2>2, <2>3 DEF IInv, TypeOK
<1>4. open' = {}
  <2>1. \A h \in open : h # NoHandle
    BY NoneAssumption DEF IInv, TypeOK
  <2>2. \A h \in open : \E i \in 0..count-1 : idle[i] = h
    BY <1>1, <2>1 DEF IInv, Holders
  <2> QED
    BY <1>1, <2>2
<1>5. Places' /\ Holders' /\ Apart' /\ OwnOptions'
  BY <1>1, <1>4 DEF IInv, Places, Holders, Apart, OwnOptions, Empty
<1>6. Fresh'
  BY <1>1, <1>4 DEF Fresh
<1> QED
  BY <1>3, <1>5, <1>6 DEF IInv

LEMMA BeginStep ==
    ASSUME IInv, NEW t \in Threads, NEW k \in Kinds, Begin(t, k)
    PROVE  IInv'
<1>1. /\ alive /\ pc[t] = "idle" /\ pc' = [pc EXCEPT ![t] = "acquire"]
      /\ kind' = [kind EXCEPT ![t] = k]
      /\ UNCHANGED <<alive, lock, idle, count, open, options, curl, seen>>
  BY DEF Begin, Goes, pool
<1>2. TypeOK'
  BY <1>1 DEF IInv, TypeOK, PcValues
<1>3. Places'
  BY <1>1 DEF IInv, TypeOK, Places, Empty
<1>4. Holders' /\ Apart'
  BY <1>1 DEF IInv, Holders, Apart
<1>5. Fresh'
  BY <1>1 DEF IInv, TypeOK, Fresh
<1>6. OwnOptions'
  BY <1>1 DEF IInv, TypeOK, OwnOptions
<1> QED
  BY <1>2, <1>3, <1>4, <1>5, <1>6 DEF IInv

LEMMA LockStep ==
    ASSUME IInv, NEW t \in Threads, Acquire(t) \/ Release(t)
    PROVE  IInv'
<1>1. /\ lock = NoThread /\ lock' = t
      /\ seen' = [seen EXCEPT ![t] = count]
      /\ UNCHANGED <<alive, idle, count, open, options, kind, curl>>
      /\ \/ pc[t] = "acquire" /\ pc' = [pc EXCEPT ![t] = "take"]
         \/ pc[t] = "release" /\ pc' = [pc EXCEPT ![t] = "store"]
  BY DEF Acquire, Release, Lock, Goes
<1>2. TypeOK'
  BY <1>1, NoneAssumption, LimitAssumption DEF IInv, TypeOK, PcValues
<1>3. Places'
  BY <1>1 DEF IInv, TypeOK, Places, Empty
<1>4. Holders' /\ Apart'
  BY <1>1 DEF IInv, Holders, Apart
<1>5. Fresh'
  BY <1>1 DEF IInv, TypeOK, Fresh
<1>6. OwnOptions'
  BY <1>1 DEF IInv, TypeOK, OwnOptions
<1> QED
  BY <1>2, <1>3, <1>4, <1>5, <1>6 DEF IInv

LEMMA TakeIdleStep ==
    ASSUME IInv, NEW t \in Threads, TakeIdle(t)
    PROVE  IInv'
<1> DEFINE h == idle[count - 1]
<1>1. /\ pc[t] = "take" /\ seen[t] = count /\ count > 0 /\ alive
      /\ curl' = [curl EXCEPT ![t] = h]
      /\ count' = count - 1
      /\ lock' = NoThread
      /\ pc' = [pc EXCEPT ![t] = "reset"]
      /\ seen' = [seen EXCEPT ![t] = 0]
      /\ UNCHANGED <<alive, idle, open, options, kind>>
      /\ curl[t] = NoHandle
  BY DEF TakeIdle, Unlock, Goes, IInv, Places, Empty
<1>2. count \in Nat /\ count - 1 \in 0..count-1 /\ count - 1 \in 0..Limit
  BY <1>1, CountIsNat DEF IInv
<1>3. h \in Handles /\ h \in open /\ h # NoHandle
  BY <1>2, NoneAssumption DEF IInv, TypeOK, Holders
<1>4. \A i \in 0..count'-1 : i \in 0..count-1 /\ idle[i] # h
  BY <1>1, <1>2 DEF IInv, Apart
<1>5. TypeOK'
  BY <1>1, <1>2, <1>3, NoneAssumption, LimitAssumption, OneInCriticalSection
  DEF IInv, TypeOK, PcValues
<1>6. Places'
  BY <1>1, <1>3, OneInCriticalSection DEF IInv, TypeOK, Places, Empty
<1>7. Holders'
  <2>1. ASSUME NEW g \in open
        PROVE  (\E u \in Threads : curl'[u] = g) \/ (\E i \in 0..count'-1 : idle[i] = g)
    <3>1. CASE g = h
      BY <1>1, <3>1 DEF IInv, TypeOK
    <3>2. CASE \E u \in Threads : curl[u] = g
      <4>1. PICK u \in Threads : curl[u] = g
        BY <3>2
      <4>2. u # t
        BY <1>1, <2>1, <4>1, NoneAssumption DEF IInv, TypeOK
      <4> QED
        BY <1>1, <4>1, <4>2 DEF IInv, TypeOK
    <3>3. CASE g # h /\ \E i \in 0..count-1 : idle[i] = g
      <4>1. PICK i \in 0..count-1 : idle[i] = g
        BY <3>3
      <4>2. i # count - 1
        BY <3>3, <4>1
      <4>3. i \in 0..count'-1
        BY <1>1, <1>2, <4>1, <4>2
      <4> QED
        BY <4>1, <4>3
    <3> QED
      BY <2>1, <3>1, <3>2, <3>3 DEF IInv, Holders
  <2>2. \A i \in 0..count'-1 : idle[i] \in open
    BY <1>4 DEF IInv, Holders
  <2>3. \A u \in Threads : curl'[u] # NoHandle => curl'[u] \in open
    BY <1>1, <1>3 DEF IInv, TypeOK, Holders
  <2> QED
    BY <1>1, <2>1, <2>2, <2>3 DEF Holders
<1>8. Apart'
  BY <1>1, <1>2, <1>3, <1>4 DEF IInv, TypeOK, Apart
<1>9. Fresh' /\ OwnOptions'
  BY <1>1 DEF IInv, TypeOK, Fresh, OwnOptions
<1> QED
  BY <1>5, <1>6, <1>7, <1>8, <1>9 DEF IInv

LEMMA UnlockStep ==
    ASSUME IInv, NEW t \in Threads, TakeNone(t) \/ StoreFull(t)
    PROVE  IInv'
<1>1. /\ lock' = NoThread
      /\ seen' = [seen EXCEPT ![t] = 0]
      /\ UNCHANGED <<alive, idle, count, open, options, kind, curl>>
      /\ \/ pc[t] = "take" /\ pc' = [pc EXCEPT ![t] = "open"]
         \/ pc[t] = "store" /\ pc' = [pc EXCEPT ![t] = "close"]
  BY DEF TakeNone, StoreFull, Unlock, Goes
<1>2. TypeOK'
  <2>1. seen' \in [Threads -> 0..Limit] /\ pc' \in [Threads -> PcValues]
    BY <1>1, LimitAssumption DEF IInv, TypeOK, PcValues
  <2>2. \A u \in Threads : pc'[u] \notin {"take", "store"}
    BY <1>1, OneInCriticalSection DEF IInv, TypeOK
  <2> QED
    BY <1>1, <2>1, <2>2, NoneAssumption DEF IInv, TypeOK
<1>3. Places'
  <2>1. \A u \in Threads : pc'[u] # "idle" => pc[u] # "idle"
    BY <1>1 DEF IInv, TypeOK
  <2>2. \A u \in Threads : pc'[u] \in Empty <=> pc[u] \in Empty
    BY <1>1 DEF IInv, TypeOK, Empty
  <2>3. \A u \in Threads : pc'[u] \notin {"take", "store"}
    BY <1>1, OneInCriticalSection DEF IInv, TypeOK
  <2> QED
    BY <1>1, <2>1, <2>2, <2>3 DEF IInv, Places
<1>4. Holders' /\ Apart'
  BY <1>1 DEF IInv, Holders, Apart
<1>5. Fresh'
  BY <1>1 DEF IInv, TypeOK, Fresh
<1>6. OwnOptions'
  BY <1>1 DEF IInv, TypeOK, OwnOptions
<1> QED
  BY <1>2, <1>3, <1>4, <1>5, <1>6 DEF IInv

LEMMA OpenHandleStep ==
    ASSUME IInv, NEW t \in Threads, OpenHandle(t)
    PROVE  IInv'
<1>1. PICK h \in Handles \ open :
        /\ open' = open \cup {h}
        /\ curl' = [curl EXCEPT ![t] = h]
  BY DEF OpenHandle
<1>2. /\ pc[t] = "open" /\ pc' = [pc EXCEPT ![t] = "set"]
      /\ UNCHANGED <<alive, lock, idle, count, options, kind, seen>>
      /\ curl[t] = NoHandle /\ h # NoHandle
  BY NoneAssumption DEF OpenHandle, Goes, pool, IInv, Places, Empty
<1>3. /\ \A u \in Threads : curl[u] # h
      /\ \A i \in 0..count-1 : idle[i] # h
  BY <1>1, <1>2 DEF IInv, Holders
<1>4. TypeOK'
  BY <1>1, <1>2 DEF IInv, TypeOK, PcValues
<1>5. Places' /\ Apart'
  BY <1>1, <1>2, <1>3 DEF IInv, TypeOK, Places, Apart, Empty
<1>6. Holders'
  <2>1. ASSUME NEW g \in open'
        PROVE  (\E u \in Threads : curl'[u] = g) \/ (\E i \in 0..count'-1 : idle'[i] = g)
    <3>1. CASE g = h
      BY <1>1, <3>1 DEF IInv, TypeOK
    <3>2. CASE g # h
      <4>1. g \in open /\ g \in Handles
        BY <1>1, <2>1, <3>2 DEF IInv, TypeOK
      <4>2. ASSUME NEW u \in Threads, curl[u] = g PROVE curl'[u] = g
        BY <1>1, <1>2, <4>1, <4>2, NoneAssumption DEF IInv, TypeOK
      <4> QED
        BY <1>2, <4>1, <4>2 DEF IInv, Holders
    <3> QED
      BY <3>1, <3>2
  <2> QED
    BY <1>1, <1>2, <2>1 DEF IInv, TypeOK, Holders
<1>7. Fresh' /\ OwnOptions'
  BY <1>1, <1>2 DEF IInv, TypeOK, Fresh, OwnOptions
<1> QED
  BY <1>4, <1>5, <1>6, <1>7 DEF IInv

LEMMA OpenHandleFailsStep ==
    ASSUME IInv, NEW t \in Threads, OpenHandleFails(t)
    PROVE  IInv'
<1>1. /\ pc[t] = "open" /\ pc' = [pc EXCEPT ![t] = "idle"]
      /\ curl[t] = NoHandle /\ curl' = [curl EXCEPT ![t] = NoHandle]
      /\ kind' = [kind EXCEPT ![t] = "none"]
      /\ UNCHANGED <<alive, lock, idle, count, open, options, seen>>
  BY DEF OpenHandleFails, Goes, Ends, pool, IInv, Places, Empty
<1>2. curl' = curl
  BY <1>1 DEF IInv, TypeOK
<1>3. TypeOK'
  BY <1>1, <1>2 DEF IInv, TypeOK, PcValues
<1>4. Places'
  BY <1>1, <1>2 DEF IInv, TypeOK, Places, Empty
<1>5. Holders' /\ Apart'
  BY <1>1, <1>2 DEF IInv, Holders, Apart
<1>6. Fresh'
  BY <1>1, <1>2 DEF IInv, TypeOK, Fresh
<1>7. OwnOptions'
  <2>1. \A u \in Threads : pc'[u] = "perform" => pc[u] = "perform" /\ kind'[u] = kind[u]
    BY <1>1 DEF IInv, TypeOK
  <2> QED
    BY <1>1, <1>2, <2>1 DEF IInv, OwnOptions
<1> QED
  BY <1>3, <1>4, <1>5, <1>6, <1>7 DEF IInv

\* Reset, the options, the transfer and its failure: they touch the options of the
\* handle in hand only, which is no other thread's.
LEMMA OptionsStep ==
    ASSUME IInv, NEW t \in Threads,
           Reset(t) \/ SetOptions(t) \/ SetOptionsFails(t) \/ Perform(t)
    PROVE  IInv'
<1>1. /\ UNCHANGED <<alive, lock, idle, count, open, kind, curl, seen>>
      /\ pc[t] \in {"reset", "set", "perform"}
      /\ \E to \in {"set", "perform", "release"} : pc' = [pc EXCEPT ![t] = to]
  BY DEF Reset, SetOptions, SetOptionsFails, Perform, Goes, pool
<1>2. curl[t] \in Handles /\ curl[t] \in open /\ kind[t] \in Kinds
  BY <1>1 DEF IInv, TypeOK, Places, Holders, Empty
<1>3. Unset \in [OptionNames -> {"unset", "set", "left"}]
  BY DEF Unset
<1>4. PICK new \in [OptionNames -> {"unset", "set", "left"}] :
        options' = [options EXCEPT ![curl[t]] = new]
  <2>1. CASE Reset(t)
    BY <1>3, <2>1 DEF Reset
  <2>2. CASE SetOptions(t)
    <3>1. PICK set \in Sets(kind[t]) :
            options' = [options EXCEPT ![curl[t]] =
                [o \in OptionNames |-> IF o \in set THEN "set" ELSE options[curl[t]][o]]]
      BY <2>2 DEF SetOptions
    <3>2. options[curl[t]] \in [OptionNames -> {"unset", "set", "left"}]
      BY <1>2 DEF IInv, TypeOK
    <3> QED
      BY <3>1, <3>2
  <2>3. CASE SetOptionsFails(t)
    BY <1>2, <2>3 DEF SetOptionsFails, IInv, TypeOK
  <2>4. CASE Perform(t)
    BY <2>4 DEF Perform
  <2> QED
    BY <2>1, <2>2, <2>3, <2>4
<1>5. \A u \in Threads : u # t /\ curl[u] # NoHandle => curl[u] # curl[t]
  BY DEF IInv, Apart
<1>6. TypeOK'
  BY <1>1, <1>2, <1>4 DEF IInv, TypeOK, PcValues
<1>7. Places' /\ Holders' /\ Apart'
  <2>1. Places'
    BY <1>1 DEF IInv, TypeOK, Places, Empty
  <2>2. Holders' /\ Apart'
    BY <1>1 DEF IInv, Holders, Apart
  <2> QED
    BY <2>1, <2>2
<1>8. pc'[t] = "set" => options'[curl[t]] = Unset
  BY <1>1, <1>2 DEF IInv, TypeOK, Reset, SetOptions, SetOptionsFails, Perform, Goes
<1>9. Fresh'
  <2>1. ASSUME NEW u \in Threads, pc'[u] = "set" PROVE options'[curl'[u]] = Unset
    <3>1. CASE u = t
      BY <1>1, <1>8, <2>1, <3>1
    <3>2. CASE u # t
      <4>1. pc[u] = "set" /\ curl[u] # NoHandle /\ curl[u] \in Handles
        BY <1>1, <2>1, <3>2 DEF IInv, TypeOK, Places, Empty
      <4> QED
        BY <1>1, <1>4, <1>5, <3>2, <4>1 DEF IInv, TypeOK, Fresh
    <3> QED
      BY <3>1, <3>2
  <2>2. ASSUME NEW h \in Handles \ open PROVE options'[h] = Unset
    BY <1>2, <1>4, <2>2 DEF IInv, TypeOK, Fresh
  <2> QED
    BY <1>1, <2>1, <2>2 DEF Fresh
<1>10. OwnOptions'
  <2>1. ASSUME NEW u \in Threads, pc'[u] = "perform"
        PROVE  /\ {o \in OptionNames : options'[curl'[u]][o] = "set"} \in Sets(kind'[u])
               /\ \A o \in OptionNames : options'[curl'[u]][o] # "left"
    <3>1. CASE u = t
      <4>1. SetOptions(t)
        BY <1>1, <2>1, <3>1
        DEF IInv, TypeOK, Reset, SetOptions, SetOptionsFails, Perform, Goes
      <4>2. options[curl[t]] = Unset
        BY <4>1 DEF SetOptions, IInv, Fresh
      <4>3. PICK set \in Sets(kind[t]) :
            options' = [options EXCEPT ![curl[t]] =
                [o \in OptionNames |-> IF o \in set THEN "set" ELSE options[curl[t]][o]]]
        BY <4>1 DEF SetOptions
      <4>4. set \subseteq OptionNames
        BY DEF Sets, OptionNames
      <4>5. \A o \in OptionNames :
                options'[curl[t]][o] = IF o \in set THEN "set" ELSE "unset"
        BY <1>2, <4>2, <4>3 DEF IInv, TypeOK, Unset
      <4>6. {o \in OptionNames : options'[curl[t]][o] = "set"} = set
        BY <4>4, <4>5
      <4> QED
        BY <1>1, <3>1, <4>5, <4>6
    <3>2. CASE u # t
      <4>1. pc[u] = "perform" /\ curl[u] # NoHandle /\ curl[u] \in Handles
        BY <1>1, <2>1, <3>2 DEF IInv, TypeOK, Places, Empty
      <4>2. options'[curl[u]] = options[curl[u]]
        BY <1>4, <1>5, <3>2, <4>1 DEF IInv, TypeOK
      <4> QED
        BY <1>1, <4>1, <4>2 DEF IInv, OwnOptions
    <3> QED
      BY <3>1, <3>2
  <2> QED
    BY <2>1 DEF OwnOptions
<1> QED
  BY <1>6, <1>7, <1>9, <1>10 DEF IInv

LEMMA StoreStep ==
    ASSUME IInv, NEW t \in Threads, Store(t)
    PROVE  IInv'
<1> DEFINE h == curl[t]
<1>1. /\ pc[t] = "store" /\ seen[t] = count /\ count < Limit
      /\ idle' = [idle EXCEPT ![count] = h]
      /\ count' = count + 1
      /\ lock' = NoThread
      /\ pc' = [pc EXCEPT ![t] = "idle"]
      /\ seen' = [seen EXCEPT ![t] = 0]
      /\ curl' = [curl EXCEPT ![t] = NoHandle]
      /\ kind' = [kind EXCEPT ![t] = "none"]
      /\ UNCHANGED <<alive, open, options>>
      /\ alive
  BY DEF Store, Unlock, Ends, Goes, IInv, Places
<1>2. count \in 0..Limit-1 /\ count + 1 \in 0..Limit
  BY <1>1, CountIsNat DEF IInv
<1>3. h \in Handles /\ h # NoHandle /\ h \in open
  BY <1>1 DEF IInv, TypeOK, Places, Holders, Empty
<1>4. idle'[count] = h /\ \A i \in 0..count-1 : idle'[i] = idle[i]
  BY <1>1, <1>2 DEF IInv, TypeOK
<1>5. \A i \in 0..count'-1 : i = count \/ i \in 0..count-1
  BY <1>1, <1>2
<1>6. TypeOK'
  BY <1>1, <1>2, <1>3, NoneAssumption, LimitAssumption, OneInCriticalSection
  DEF IInv, TypeOK, PcValues
<1>7. Places'
  BY <1>1, OneInCriticalSection DEF IInv, TypeOK, Places, Empty
<1>8. \A u \in Threads : curl'[u] = IF u = t THEN NoHandle ELSE curl[u]
  BY <1>1 DEF IInv, TypeOK
<1>9. Holders'
  <2>1. ASSUME NEW g \in open
        PROVE  (\E u \in Threads : curl'[u] = g) \/ (\E i \in 0..count'-1 : idle'[i] = g)
    <3>1. CASE g = h
      BY <1>1, <1>2, <1>4, <3>1
    <3>2. CASE g # h
      BY <1>1, <1>2, <1>4, <1>8, <3>2 DEF IInv, Holders
    <3> QED
      BY <3>1, <3>2
  <2>2. \A i \in 0..count'-1 : idle'[i] \in open
    BY <1>3, <1>4, <1>5 DEF IInv, Holders
  <2>3. \A u \in Threads : curl'[u] # NoHandle => curl'[u] \in open
    BY <1>8 DEF IInv, Holders
  <2> QED
    BY <1>1, <2>1, <2>2, <2>3 DEF Holders
<1>10. Apart'
  <2>1. \A u \in Threads, i \in 0..count'-1 : curl'[u] # idle'[i]
    <3>1. ASSUME NEW u \in Threads, NEW i \in 0..count'-1 PROVE curl'[u] # idle'[i]
      <4>1. idle'[i] \in open /\ NoHandle \notin open
        BY <1>3, <1>4, <1>5, NoneAssumption DEF IInv, TypeOK, Holders
      <4>2. CASE i = count
        BY <1>3, <1>4, <1>8, <4>2 DEF IInv, Apart
      <4>3. CASE i \in 0..count-1
        BY <1>4, <1>8, <4>1, <4>3 DEF IInv, Apart
      <4> QED
        BY <1>5, <4>2, <4>3
    <3> QED
      BY <3>1
  <2>2. \A i, j \in 0..count'-1 : idle'[i] = idle'[j] => i = j
    <3>1. \A i \in 0..count-1 : idle[i] # h
      BY DEF IInv, Apart
    <3> QED
      BY <1>4, <1>5, <3>1 DEF IInv, Apart
  <2> QED
    BY <1>8, <2>1, <2>2 DEF IInv, Apart
<1>11. Fresh' /\ OwnOptions'
  BY <1>1, <1>8 DEF IInv, TypeOK, Fresh, OwnOptions
<1> QED
  BY <1>6, <1>7, <1>9, <1>10, <1>11 DEF IInv

LEMMA CloseStep ==
    ASSUME IInv, NEW t \in Threads, Close(t)
    PROVE  IInv'
<1> DEFINE h == curl[t]
<1>1. /\ pc[t] = "close" /\ pc' = [pc EXCEPT ![t] = "idle"]
      /\ open' = open \ {h}
      /\ options' = [options EXCEPT ![h] = Unset]
      /\ curl' = [curl EXCEPT ![t] = NoHandle]
      /\ kind' = [kind EXCEPT ![t] = "none"]
      /\ UNCHANGED <<alive, lock, idle, count, seen>>
  BY DEF Close, Ends, Goes, pool
<1>2. h \in Handles /\ h # NoHandle
  BY <1>1 DEF IInv, TypeOK, Places, Empty
<1>3. /\ \A u \in Threads : u # t => curl[u] # h
      /\ \A i \in 0..count-1 : idle[i] # h
  BY <1>2 DEF IInv, Apart
<1>4. \A u \in Threads : curl'[u] = IF u = t THEN NoHandle ELSE curl[u]
  BY <1>1 DEF IInv, TypeOK
<1>5. Unset \in [OptionNames -> {"unset", "set", "left"}]
  BY DEF Unset
<1>6. TypeOK'
  BY <1>1, <1>2, <1>5 DEF IInv, TypeOK, PcValues
<1>7. Places' /\ Holders' /\ Apart'
  <2>1. Places'
    BY <1>1, <1>4 DEF IInv, TypeOK, Places, Empty
  <2>2. Holders'
    <3>1. \A i \in 0..count'-1 : idle'[i] \in open'
      BY <1>1, <1>3 DEF IInv, Holders
    <3>2. \A u \in Threads : curl'[u] # NoHandle => curl'[u] \in open'
      BY <1>1, <1>3, <1>4 DEF IInv, Holders
    <3>3. \A g \in open' : (\E u \in Threads : curl'[u] = g)
                           \/ (\E i \in 0..count'-1 : idle'[i] = g)
      BY <1>1, <1>4 DEF IInv, Holders
    <3> QED
      BY <3>1, <3>2, <3>3 DEF Holders
  <2>3. Apart'
    <3>1. \A i \in 0..count-1 : idle[i] # NoHandle
      BY NoneAssumption DEF IInv, TypeOK, Holders
    <3> QED
      BY <1>1, <1>4, <3>1 DEF IInv, Apart
  <2> QED
    BY <2>1, <2>2, <2>3
<1>8. \A g \in Handles : options'[g] = IF g = h THEN Unset ELSE options[g]
  BY <1>1 DEF IInv, TypeOK
<1>9. Fresh'
  BY <1>1, <1>2, <1>3, <1>4, <1>8 DEF IInv, TypeOK, Places, Fresh, Empty
<1>10. OwnOptions'
  <2>1. ASSUME NEW u \in Threads, pc'[u] = "perform"
        PROVE  pc[u] = "perform" /\ curl'[u] = curl[u] /\ kind'[u] = kind[u]
               /\ options'[curl[u]] = options[curl[u]]
    <3>1. u # t /\ pc[u] = "perform"
      BY <1>1, <2>1 DEF IInv, TypeOK
    <3>2. curl[u] \in Handles /\ curl[u] # h
      BY <1>3, <3>1 DEF IInv, TypeOK, Places, Empty
    <3> QED
      BY <1>1, <1>4, <1>8, <3>1, <3>2 DEF IInv, TypeOK
  <2> QED
    BY <2>1 DEF IInv, OwnOptions
<1> QED
  BY <1>6, <1>7, <1>9, <1>10 DEF IInv

LEMMA EveryStep == IInv /\ [Next]_vars => IInv'
<1> SUFFICES ASSUME IInv, [Next]_vars PROVE IInv'
  OBVIOUS
<1>1. CASE UNCHANGED vars
  <2>1. UNCHANGED <<alive, lock, idle, count, open, options, pc, kind, curl, seen>>
    BY <1>1 DEF vars, pool
  <2>2. TypeOK' /\ Places'
    BY <2>1 DEF IInv, TypeOK, Places
  <2>3. Holders' /\ Apart'
    BY <2>1 DEF IInv, Holders, Apart
  <2>4. Fresh' /\ OwnOptions'
    BY <2>1 DEF IInv, Fresh, OwnOptions
  <2> QED
    BY <2>2, <2>3, <2>4 DEF IInv
<1>2. ASSUME NEW t \in Threads, Steps(t) PROVE IInv'
  BY <1>2, LockStep, TakeIdleStep, UnlockStep, OpenHandleStep, OpenHandleFailsStep,
     OptionsStep, StoreStep, CloseStep DEF Steps
<1> QED
  BY <1>1, <1>2, CreateStep, FreeStep, BeginStep DEF Next

-----------------------------------------------------------------------------
(* The theorems. *)

LEMMA AlwaysIInv == Spec => []IInv
  BY InitIInv, EveryStep, PTL DEF Spec

\* A handle serves one request at a time, none is lost, at the limit, on an error path
\* or with the client, and no request goes out with anything of an earlier one.
THEOREM PoolIsAlwaysSound == Spec => []PoolIsSound
<1>1. ASSUME IInv PROVE OneHolder
  BY <1>1 DEF IInv, Apart, Holders, OneHolder
<1>2. ASSUME IInv PROVE NothingLeaks
  <2>1. \A h \in open : h # NoHandle
    BY <1>2, NoneAssumption DEF IInv, TypeOK
  <2>2. ~alive => 0..count-1 = {}
    BY <1>2 DEF IInv, Places
  <2> QED
    BY <1>2, <2>1, <2>2 DEF IInv, Holders, NothingLeaks
<1>3. IInv => PoolIsSound
  BY <1>1, <1>2 DEF IInv, PoolIsSound
<1> QED
  BY <1>3, AlwaysIInv, PTL

-----------------------------------------------------------------------------
(* Memory pools. Every pool is used up to a multiple of the alignment,     *)
(* pieces end where the used part does or before, and the next piece       *)
(* begins there.                                                           *)

Pools == [size : Nat, used : Nat]

MemTypeOK ==
    /\ chain \in Seq(Pools)
    /\ pieces \subseteq [pool : 1..Len(chain), at : Nat, size : Nat \ {0}]

\* What is used of a pool is whole blocks, and not more than there is.
UsedInv == \A p \in 1..Len(chain) : chain[p].used % Alignment = 0 /\ chain[p].used <= chain[p].size

\* A piece is aligned and lies in the used part.
InsideInv == \A a \in pieces : a.at % Alignment = 0 /\ a.at + a.size <= chain[a.pool].used

ApartInv == \A a, b \in pieces : a # b /\ a.pool = b.pool =>
                a.at + a.size <= b.at \/ b.at + b.size <= a.at

MemInv == MemTypeOK /\ UsedInv /\ InsideInv /\ ApartInv

Sizes(set) == [a \in set |-> a.size]
Used(pools) == [p \in DOMAIN pools |-> pools[p].used]

\* What is dealt out is counted as used.
CountInv ==
    /\ IsFiniteSet(pieces)
    /\ SumFunctionOnSet(Sizes(pieces), pieces) <= SumFunctionOnSet(Used(chain), DOMAIN chain)

-----------------------------------------------------------------------------
(* Arithmetic of blocks. *)

LEMMA Division ==
    ASSUME NEW a \in Nat, NEW b \in Nat, b > 0
    PROVE  /\ a \div b \in Nat
           /\ (a % b) \in 0..b-1
           /\ a = b * (a \div b) + (a % b)
BY Z3

LEMMA Multiple ==
    ASSUME NEW k \in Nat, NEW b \in Nat, b > 0
    PROVE  (k * b) % b = 0
BY Z3

\* align_size rounds up, and to a whole number of blocks.
LEMMA AlignedRoundsUp ==
    ASSUME NEW size \in Nat
    PROVE  /\ Aligned(size) \in Nat
           /\ size <= Aligned(size)
           /\ Aligned(size) % Alignment = 0
<1> DEFINE n == size + Alignment - 1
           q == n \div Alignment
           r == n % Alignment
<1>1. Alignment \in Nat /\ Alignment > 0 /\ n \in Nat
  BY PoolAssumption
<1>2. q \in Nat /\ r \in 0..Alignment-1 /\ n = Alignment * q + r
  <2> HIDE DEF n
  <2> QED BY <1>1, Division
<1>3. Aligned(size) = q * Alignment
  BY DEF Aligned
<1> HIDE DEF q, r
<1>4. q * Alignment \in Nat /\ q * Alignment = Alignment * q
  BY <1>1, <1>2
<1>5. size <= q * Alignment
  BY <1>1, <1>2, <1>4
<1>6. (q * Alignment) % Alignment = 0
  BY <1>1, <1>2, Multiple
<1> QED BY <1>3, <1>4, <1>5, <1>6

\* Blocks and blocks are blocks.
LEMMA BlocksAdd ==
    ASSUME NEW a \in Nat, NEW b \in Nat, a % Alignment = 0, b % Alignment = 0
    PROVE  (a + b) % Alignment = 0
<1> DEFINE x == a \div Alignment
           y == b \div Alignment
<1>1. Alignment \in Nat /\ Alignment > 0
  BY PoolAssumption
<1>2. x \in Nat /\ a = Alignment * x
  BY <1>1, Division
<1>3. y \in Nat /\ b = Alignment * y
  BY <1>1, Division
<1> HIDE DEF x, y
<1>4. a + b = (x + y) * Alignment
  BY <1>1, <1>2, <1>3
<1>5. ((x + y) * Alignment) % Alignment = 0
  <2>1. x + y \in Nat
    BY <1>2, <1>3
  <2> QED BY <1>1, <2>1, Multiple
<1> QED BY <1>4, <1>5

LEMMA NoneIsBlocks == 0 % Alignment = 0
<1>1. Alignment \in Nat /\ Alignment > 0
  BY PoolAssumption
<1> QED BY <1>1, Multiple

-----------------------------------------------------------------------------
(* Taking a piece. *)

\* The rest of a pool that has room takes the piece.
LEMMA TakeKeepsInv ==
    ASSUME MemInv, NEW p \in 1..Len(chain), NEW size \in Nat \ {0},
           HasRoom(p, size), TakesFrom(p, size)
    PROVE  MemInv'
<1> DEFINE block == Aligned(size)
           piece == [pool |-> p, at |-> chain[p].used, size |-> size]
           taken == [chain[p] EXCEPT !.used = @ + block]
<1>1. /\ chain \in Seq(Pools) /\ chain[p] \in Pools
      /\ pieces \subseteq [pool : 1..Len(chain), at : Nat, size : Nat \ {0}]
  BY DEF MemInv, MemTypeOK
<1>2. block \in Nat /\ size <= block /\ block % Alignment = 0
  BY AlignedRoundsUp
<1> HIDE DEF block
<1>3. taken \in Pools /\ taken.used = chain[p].used + block /\ taken.size = chain[p].size
  BY <1>1, <1>2 DEF Pools
<1>4. chain' = [chain EXCEPT ![p] = taken] /\ pieces' = pieces \cup {piece}
  BY DEF TakesFrom, block
<1>5. /\ chain' \in Seq(Pools) /\ Len(chain') = Len(chain) /\ chain'[p] = taken
      /\ \A q \in 1..Len(chain) : q # p => chain'[q] = chain[q]
  BY <1>1, <1>3, <1>4
<1>6. piece \in [pool : 1..Len(chain), at : Nat, size : Nat \ {0}]
  BY <1>1 DEF Pools
<1>7. MemTypeOK'
  BY <1>1, <1>4, <1>5, <1>6 DEF MemTypeOK
<1>8. UsedInv'
  <2>1. taken.used % Alignment = 0
    BY <1>1, <1>2, <1>3, BlocksAdd DEF MemInv, UsedInv, Pools
  <2>2. taken.used <= taken.size
    BY <1>3 DEF HasRoom, block
  <2> QED BY <1>5, <2>1, <2>2 DEF MemInv, UsedInv
<1>9. \A a \in pieces : /\ a.pool \in 1..Len(chain) /\ a.at \in Nat /\ a.size \in Nat
                        /\ a.at % Alignment = 0 /\ a.at + a.size <= chain[a.pool].used
  BY <1>1 DEF MemInv, InsideInv
<1>10. /\ piece.pool = p /\ piece.at = chain[p].used /\ piece.size = size
       /\ piece.at \in Nat /\ piece.at % Alignment = 0
       /\ piece.at + piece.size <= chain'[p].used
  BY <1>1, <1>2, <1>3, <1>5 DEF MemInv, UsedInv, Pools
<1> HIDE DEF piece, taken
<1>11. InsideInv'
  <2> SUFFICES ASSUME NEW a \in pieces'
               PROVE  a.at % Alignment = 0 /\ a.at + a.size <= chain'[a.pool].used
    BY DEF InsideInv
  <2>1. CASE a = piece
    BY <2>1, <1>10
  <2>2. CASE a \in pieces /\ a.pool = p
    <3>1. /\ a.at \in Nat /\ a.size \in Nat /\ chain[p].used \in Nat
          /\ a.at % Alignment = 0 /\ a.at + a.size <= chain[p].used
      BY <2>2, <1>1, <1>9 DEF Pools
    <3>2. chain'[a.pool].used = chain[p].used + block
      BY <2>2, <1>3, <1>5
    <3> QED BY <1>2, <3>1, <3>2
  <2>3. CASE a \in pieces /\ a.pool # p
    BY <2>3, <1>5, <1>9
  <2> QED BY <1>4, <2>1, <2>2, <2>3
<1>12. ApartInv'
  BY <1>4, <1>9, <1>10 DEF MemInv, ApartInv
<1> QED BY <1>7, <1>8, <1>11, <1>12 DEF MemInv

\* A pool that is put behind the others begins with the piece.
LEMMA NewPoolKeepsInv ==
    ASSUME MemInv, NEW size \in Nat \ {0}, AllocInNewPool(size)
    PROVE  MemInv'
<1> DEFINE block == Aligned(size)
           n == Len(chain)
           piece == [pool |-> n + 1, at |-> 0, size |-> size]
           last == chain[n]
           fresh == [size |-> IF last.size > block THEN last.size ELSE block * 2, used |-> block]
<1>1. /\ chain \in Seq(Pools) /\ n \in Nat /\ n > 0 /\ last \in Pools
      /\ pieces \subseteq [pool : 1..n, at : Nat, size : Nat \ {0}]
  BY DEF MemInv, MemTypeOK, AllocInNewPool
<1>2. block \in Nat /\ size <= block /\ block % Alignment = 0
  BY AlignedRoundsUp
<1>3. chain' = Append(chain, fresh) /\ pieces' = pieces \cup {piece}
  BY DEF AllocInNewPool
<1> HIDE DEF block, n
<1>4. fresh \in Pools /\ fresh.used = block /\ fresh.used <= fresh.size
  BY <1>1, <1>2 DEF Pools
<1> HIDE DEF fresh
<1>5. /\ chain' \in Seq(Pools) /\ Len(chain') = n + 1 /\ chain'[n + 1] = fresh
      /\ \A q \in 1..n : chain'[q] = chain[q]
  BY <1>1, <1>3, <1>4 DEF n
<1>6. piece.pool = n + 1 /\ piece.at = 0 /\ piece.size = size
      /\ piece \in [pool : 1..n+1, at : Nat, size : Nat \ {0}]
  BY <1>1
<1> HIDE DEF piece
<1>7. \A a \in pieces : /\ a.pool \in 1..n /\ a.at \in Nat /\ a.size \in Nat \ {0}
                        /\ a.at % Alignment = 0 /\ a.at + a.size <= chain[a.pool].used
  BY <1>1 DEF MemInv, InsideInv
<1>8. MemTypeOK'
  <2>1. pieces \subseteq [pool : 1..n+1, at : Nat, size : Nat \ {0}]
    BY <1>1
  <2> QED BY <1>3, <1>5, <1>6, <2>1 DEF MemTypeOK
<1>9. UsedInv'
  BY <1>1, <1>2, <1>4, <1>5 DEF MemInv, UsedInv, n
<1>10. InsideInv'
  BY <1>1, <1>2, <1>3, <1>4, <1>5, <1>6, <1>7, NoneIsBlocks DEF InsideInv
<1>11. ApartInv'
  BY <1>1, <1>3, <1>6, <1>7 DEF MemInv, ApartInv
<1> QED BY <1>8, <1>9, <1>10, <1>11 DEF MemInv

-----------------------------------------------------------------------------
(* The steps. *)

LEMMA MemInitInv == MemInit => MemInv
BY DEF MemInit, MemInv, MemTypeOK, UsedInv, InsideInv, ApartInv

LEMMA MemStepInv == MemInv /\ [MemNext]_memVars => MemInv'
<1> SUFFICES ASSUME MemInv, [MemNext]_memVars PROVE MemInv'
  OBVIOUS
<1>1. ASSUME NEW size \in PoolSizes, CreatePool(size) PROVE MemInv'
  <2>1. size \in Nat /\ chain = <<>> /\ pieces = {}
    BY <1>1, PoolAssumption DEF CreatePool, MemInv, MemTypeOK
  <2>2. [size |-> size, used |-> 0] \in Pools
    BY <2>1 DEF Pools
  <2>3. /\ chain' \in Seq(Pools) /\ Len(chain') = 1 /\ pieces' = {}
        /\ chain'[1] = [size |-> size, used |-> 0]
    BY <1>1, <2>1, <2>2 DEF CreatePool
  <2> QED BY <2>1, <2>3, NoneIsBlocks DEF MemInv, MemTypeOK, UsedInv, InsideInv, ApartInv
<1>2. ASSUME NEW size \in PieceSizes, AllocInChain(size) PROVE MemInv'
  <2>1. PICK p \in DOMAIN chain : HasRoom(p, size) /\ TakesFrom(p, size)
    BY <1>2 DEF AllocInChain
  <2>2. p \in 1..Len(chain) /\ size \in Nat \ {0}
    BY PoolAssumption DEF MemInv, MemTypeOK
  <2> QED BY <2>1, <2>2, TakeKeepsInv
<1>3. ASSUME NEW size \in PieceSizes, AllocInNewPool(size) PROVE MemInv'
  BY <1>3, NewPoolKeepsInv, PoolAssumption
<1>4. CASE ResetPool
  <2>1. \A p \in 1..Len(chain) :
            /\ [chain[p] EXCEPT !.used = 0] \in Pools
            /\ [chain[p] EXCEPT !.used = 0].used = 0
            /\ [chain[p] EXCEPT !.used = 0].size \in Nat
    <3> TAKE p \in 1..Len(chain)
    <3>1. chain[p] \in Pools
      BY DEF MemInv, MemTypeOK
    <3> QED BY <3>1 DEF Pools
  <2>2. chain' = [p \in 1..Len(chain) |-> [chain[p] EXCEPT !.used = 0]] /\ pieces' = {}
    BY <1>4 DEF ResetPool, MemInv, MemTypeOK
  <2>3. chain' \in Seq(Pools) /\ Len(chain') = Len(chain)
    BY <2>1, <2>2 DEF MemInv, MemTypeOK
  <2> QED BY <2>1, <2>2, <2>3, NoneIsBlocks DEF MemInv, MemTypeOK, UsedInv, InsideInv, ApartInv
<1>5. CASE DestroyPool
  BY <1>5 DEF DestroyPool, MemInv, MemTypeOK, UsedInv, InsideInv, ApartInv
<1>6. CASE UNCHANGED memVars
  BY <1>6 DEF memVars, MemInv, MemTypeOK, UsedInv, InsideInv, ApartInv
<1> QED BY <1>1, <1>2, <1>3, <1>4, <1>5, <1>6 DEF MemNext

LEMMA MemInvIsApart == MemInv => PiecesLieApart
<1> SUFFICES ASSUME MemInv PROVE PiecesLieApart
  OBVIOUS
<1>1. \A a \in pieces : a.at + a.size <= chain[a.pool].size
  <2> TAKE a \in pieces
  <2>1. a.pool \in 1..Len(chain) /\ a.at \in Nat /\ a.size \in Nat /\ chain[a.pool] \in Pools
    BY DEF MemInv, MemTypeOK
  <2>2. a.at + a.size <= chain[a.pool].used /\ chain[a.pool].used <= chain[a.pool].size
    BY <2>1 DEF MemInv, InsideInv, UsedInv
  <2> QED BY <2>1, <2>2 DEF Pools
<1> QED BY <1>1 DEF MemInv, InsideInv, ApartInv, PiecesLieApart

-----------------------------------------------------------------------------
(* What is counted. *)

LEMMA NotMore ==
    ASSUME NEW n \in Nat, NEW f, NEW g,
           \A p \in 1..n : f[p] \in Int /\ g[p] \in Int /\ f[p] <= g[p]
    PROVE  SumFunctionOnSet(f, 1..n) <= SumFunctionOnSet(g, 1..n)
<1> DEFINE h == [p \in 1..n |-> g[p] - f[p]]
<1>1. \A p \in 1..n : f[p] \in Int /\ h[p] \in Int /\ h[p] \in Nat /\ g[p] = f[p] + h[p]
  OBVIOUS
<1>2. IsFiniteSet(1..n)
  BY FS_Interval
<1> HIDE DEF h
<1>3. SumFunctionOnSet(h, 1..n) \in Nat
  BY <1>1, <1>2, SumNat
<1>4. SumFunctionOnSet(f, 1..n) \in Int
  BY <1>1, <1>2, SumInt
<1>5. SumFunctionOnSet(g, 1..n) = SumFunctionOnSet(f, 1..n) + SumFunctionOnSet(h, 1..n)
  BY <1>1, <1>2, SumOfBoth
<1> QED BY <1>3, <1>4, <1>5

LEMMA CountsAre ==
    ASSUME MemTypeOK, IsFiniteSet(pieces)
    PROVE  /\ DOMAIN chain = 1..Len(chain) /\ IsFiniteSet(DOMAIN chain)
           /\ \A p \in DOMAIN chain : Used(chain)[p] \in Int /\ Used(chain)[p] = chain[p].used
           /\ \A a \in pieces : Sizes(pieces)[a] \in Int /\ Sizes(pieces)[a] = a.size
           /\ SumFunctionOnSet(Used(chain), DOMAIN chain) \in Int
           /\ SumFunctionOnSet(Sizes(pieces), pieces) \in Int
<1>1. DOMAIN chain = 1..Len(chain) /\ Len(chain) \in Nat /\ \A p \in 1..Len(chain) : chain[p] \in Pools
  BY DEF MemTypeOK
<1>2. IsFiniteSet(DOMAIN chain)
  BY <1>1, FS_Interval
<1>3. \A p \in DOMAIN chain : Used(chain)[p] \in Int /\ Used(chain)[p] = chain[p].used
  BY <1>1 DEF Used, Pools
<1>4. \A a \in pieces : Sizes(pieces)[a] \in Int /\ Sizes(pieces)[a] = a.size
  BY DEF MemTypeOK, Sizes
<1>5. SumFunctionOnSet(Used(chain), DOMAIN chain) \in Int
  BY <1>2, <1>3, SumInt
<1>6. SumFunctionOnSet(Sizes(pieces), pieces) \in Int
  BY <1>4, SumInt
<1> QED BY <1>1, <1>2, <1>3, <1>4, <1>5, <1>6

\* A piece more counts what it is, if it is new; it is never counted twice.
LEMMA OnePieceMore ==
    ASSUME MemTypeOK, IsFiniteSet(pieces), NEW piece, piece.size \in Nat,
           pieces' = pieces \cup {piece}
    PROVE  /\ IsFiniteSet(pieces')
           /\ SumFunctionOnSet(Sizes(pieces'), pieces') \in Int
           /\ SumFunctionOnSet(Sizes(pieces'), pieces')
                <= SumFunctionOnSet(Sizes(pieces), pieces) + piece.size
<1>1. IsFiniteSet(pieces')
  BY FS_AddElement
<1> DEFINE f == Sizes(pieces)
           g == Sizes(pieces')
           S == pieces
           n == piece.size
<1>2. (\A a \in S : f[a] \in Int /\ g[a] = f[a]) /\ g[piece] = n /\ g[piece] \in Int /\ IsFiniteSet(S)
      /\ SumFunctionOnSet(f, S) \in Int
  <2>1. \A a \in S : f[a] \in Int /\ f[a] = a.size
    BY CountsAre
  <2>2. \A a \in pieces' : g[a] = a.size
    BY DEF Sizes
  <2>3. SumFunctionOnSet(f, S) \in Int
    BY CountsAre
  <2>4. (\A a \in S : a \in pieces') /\ piece \in pieces' /\ IsFiniteSet(S)
    OBVIOUS
  <2>5. n \in Int /\ piece.size = n
    OBVIOUS
  <2> HIDE DEF f, g, S, n
  <2>6. g[piece] = n
    BY <2>2, <2>4, <2>5
  <2>7. \A a \in S : f[a] \in Int /\ g[a] = f[a]
    BY <2>1, <2>2, <2>4
  <2> QED BY <2>3, <2>4, <2>5, <2>6, <2>7
<1>3. pieces' = S \cup {piece} /\ n \in Nat
  OBVIOUS
<1> HIDE DEF f, g, S, n
<1>4. CASE piece \in S
  <2>1. pieces' = S /\ SumFunctionOnSet(g, S) = SumFunctionOnSet(f, S)
    <3>1. \A a \in S : g[a] = f[a]
      BY <1>2
    <3> QED BY <1>2, <1>3, <1>4, <3>1, SumSame
  <2> QED BY <1>1, <1>2, <1>3, <2>1 DEF f, g, S, n
<1>5. CASE piece \notin S
  <2>1. SumFunctionOnSet(g, S \cup {piece}) = SumFunctionOnSet(f, S) + g[piece]
    BY <1>2, <1>5, SumGrown
  <2>2. SumFunctionOnSet(g, pieces') = SumFunctionOnSet(f, S) + n
    BY <1>2, <1>3, <2>1
  <2> QED BY <1>1, <1>2, <1>3, <2>2 DEF f, g, S, n
<1> QED BY <1>4, <1>5

LEMMA TakeCounts ==
    ASSUME MemInv, CountInv, NEW p \in 1..Len(chain), NEW size \in Nat \ {0}, TakesFrom(p, size)
    PROVE  CountInv'
<1> DEFINE piece == [pool |-> p, at |-> chain[p].used, size |-> size]
           block == Aligned(size)
           f == Used(chain)
           g == Used(chain')
           S == DOMAIN chain
           s == SumFunctionOnSet(Sizes(pieces), pieces)
           t == SumFunctionOnSet(Sizes(pieces'), pieces')
<1>1. MemTypeOK /\ IsFiniteSet(pieces) /\ chain[p] \in Pools /\ p \in S
  BY DEF MemInv, MemTypeOK, CountInv
<1>2. block \in Nat /\ size <= block
  BY AlignedRoundsUp
<1>3. pieces' = pieces \cup {piece} /\ piece.size = size
  BY DEF TakesFrom
<1>4. IsFiniteSet(pieces') /\ t \in Int /\ t <= s + size
  <2> HIDE DEF piece
  <2> QED BY <1>1, <1>3, OnePieceMore
<1>5. (\A q \in S : f[q] \in Int) /\ IsFiniteSet(S) /\ SumFunctionOnSet(f, S) \in Int /\ s \in Int
      /\ f[p] = chain[p].used
  BY <1>1, CountsAre
<1>6. DOMAIN chain' = S /\ (\A q \in S \ {p} : g[q] = f[q]) /\ g[p] = f[p] + block
  <2>1. chain' = [chain EXCEPT ![p] = [chain[p] EXCEPT !.used = @ + block]]
    BY DEF TakesFrom
  <2>2. DOMAIN chain' = S /\ (\A q \in S \ {p} : chain'[q] = chain[q])
        /\ chain'[p].used = chain[p].used + block
    BY <1>1, <2>1 DEF Pools
  <2> QED BY <1>1, <1>5, <2>2 DEF Used
<1> HIDE DEF f, g, S, s, t, block
<1>7. SumFunctionOnSet(g, S) = SumFunctionOnSet(f, S) - f[p] + g[p]
  <2>1. g[p] \in Int
    BY <1>1, <1>2, <1>5, <1>6
  <2>2. \A q \in S \ {p} : g[q] = f[q]
    BY <1>6
  <2>3. \A q \in S : f[q] \in Int
    BY <1>5
  <2>4. IsFiniteSet(S)
    BY <1>5
  <2>5. p \in S
    BY <1>1
  <2> DEFINE e == p
  <2>6. (\A q \in S \ {e} : g[q] = f[q]) /\ e \in S /\ g[e] \in Int
    BY <2>1, <2>2, <2>5
  <2> HIDE DEF e
  <2>7. SumFunctionOnSet(g, S) = SumFunctionOnSet(f, S) - f[e] + g[e]
    BY <2>3, <2>4, <2>6, SumSwapped
  <2> QED BY <2>7 DEF e
<1>8. s <= SumFunctionOnSet(f, S)
  BY DEF CountInv, s, f, S
<1>9. t <= SumFunctionOnSet(g, S)
  <2>1. f[p] \in Int
    BY <1>1, <1>5
  <2> QED BY <1>2, <1>4, <1>5, <1>6, <1>7, <1>8, <2>1
<1> QED BY <1>4, <1>6, <1>9 DEF CountInv, t, g, S

LEMMA NewPoolCounts ==
    ASSUME MemInv, CountInv, NEW size \in Nat \ {0}, AllocInNewPool(size)
    PROVE  CountInv'
<1> DEFINE n == Len(chain)
           piece == [pool |-> n + 1, at |-> 0, size |-> size]
           block == Aligned(size)
           last == chain[n]
           fresh == [size |-> IF last.size > block THEN last.size ELSE block * 2, used |-> block]
           f == Used(chain)
           g == Used(chain')
           s == SumFunctionOnSet(Sizes(pieces), pieces)
           t == SumFunctionOnSet(Sizes(pieces'), pieces')
<1>1. MemTypeOK /\ IsFiniteSet(pieces) /\ chain \in Seq(Pools) /\ n \in Nat /\ DOMAIN chain = 1..n
  BY DEF MemInv, MemTypeOK, CountInv
<1>2. block \in Nat /\ size <= block
  BY AlignedRoundsUp
<1>3. pieces' = pieces \cup {piece} /\ piece.size = size
  BY DEF AllocInNewPool
<1>4. IsFiniteSet(pieces') /\ t \in Int /\ t <= s + size
  <2> HIDE DEF piece
  <2> QED BY <1>1, <1>3, OnePieceMore
<1>5. (\A q \in 1..n : f[q] \in Int /\ f[q] = chain[q].used) /\ IsFiniteSet(1..n)
      /\ SumFunctionOnSet(f, 1..n) \in Int /\ s \in Int
  BY <1>1, CountsAre
<1>6. DOMAIN chain' = 1..n+1 /\ (\A q \in 1..n : g[q] = f[q]) /\ g[n + 1] = block
  <2>1. chain' = Append(chain, fresh) /\ fresh.used = block
    BY DEF AllocInNewPool
  <2> HIDE DEF fresh, n
  <2>2. DOMAIN chain' = 1..n+1 /\ (\A q \in 1..n : chain'[q] = chain[q]) /\ chain'[n + 1] = fresh
    BY <1>1, <2>1 DEF n
  <2>3. \A q \in 1..n+1 : g[q] = chain'[q].used
    BY <2>2 DEF Used
  <2>4. (1..n \subseteq 1..n+1) /\ n + 1 \in 1..n+1
    BY <1>1
  <2> QED BY <1>5, <2>1, <2>2, <2>3, <2>4
<1> HIDE DEF f, g, s, t, block, n
<1> DEFINE R == 1..n
<1>7. SumFunctionOnSet(g, R \cup {n + 1}) = SumFunctionOnSet(f, R) + g[n + 1]
  <2>1. n + 1 \notin R /\ g[n + 1] \in Int
    BY <1>1, <1>2, <1>6
  <2>2. \A q \in R : f[q] \in Int /\ g[q] = f[q]
    BY <1>5, <1>6
  <2>3. IsFiniteSet(R)
    BY <1>5
  <2> HIDE DEF R
  <2> DEFINE e == n + 1
  <2>4. e \notin R /\ g[e] \in Int
    BY <2>1
  <2> HIDE DEF e
  <2>5. SumFunctionOnSet(g, R \cup {e}) = SumFunctionOnSet(f, R) + g[e]
    BY <2>2, <2>3, <2>4, SumGrown
  <2> QED BY <2>5 DEF e
<1>8. R \cup {n + 1} = 1..n+1
  BY <1>1
<1>9. s <= SumFunctionOnSet(f, R)
  BY <1>1 DEF CountInv, s, f
<1>10. t <= SumFunctionOnSet(g, 1..n+1)
  <2> DEFINE sf == SumFunctionOnSet(f, R)
             sg == SumFunctionOnSet(g, 1..n+1)
  <2>1. sg = sf + block
    BY <1>6, <1>7, <1>8
  <2>2. sf \in Int /\ s \in Int /\ s <= sf
    BY <1>5, <1>9
  <2>3. t \in Int /\ t <= s + size
    BY <1>4
  <2> HIDE DEF sf, sg, R
  <2>4. t <= sg
    BY <1>2, <2>1, <2>2, <2>3
  <2> QED BY <2>4 DEF sg
<1> QED BY <1>4, <1>6, <1>10 DEF CountInv, t, g

\* With nothing dealt out, nothing is missing from the count.
LEMMA NoneCounts ==
    ASSUME MemTypeOK, pieces = {}
    PROVE  CountInv
<1>1. IsFiniteSet(pieces) /\ SumFunctionOnSet(Sizes(pieces), pieces) = 0
  BY FS_EmptySet, SumEmpty
<1>2. IsFiniteSet(DOMAIN chain) /\ \A p \in DOMAIN chain : Used(chain)[p] \in Nat
  <2>1. \A p \in DOMAIN chain : chain[p] \in Pools
    BY DEF MemTypeOK
  <2> QED BY <1>1, <2>1, CountsAre DEF Used, Pools
<1>3. SumFunctionOnSet(Used(chain), DOMAIN chain) \in Nat
  BY <1>2, SumNat
<1> QED BY <1>1, <1>3 DEF CountInv

LEMMA CountStep == MemInv /\ CountInv /\ [MemNext]_memVars => CountInv'
<1> SUFFICES ASSUME MemInv, CountInv, [MemNext]_memVars PROVE CountInv'
  OBVIOUS
<1>1. MemInv'
  BY MemStepInv
<1>2. ASSUME NEW size \in PieceSizes, AllocInChain(size) PROVE CountInv'
  <2>1. PICK p \in DOMAIN chain : TakesFrom(p, size)
    BY <1>2 DEF AllocInChain
  <2>2. p \in 1..Len(chain) /\ size \in Nat \ {0}
    BY PoolAssumption DEF MemInv, MemTypeOK
  <2> QED BY <2>1, <2>2, TakeCounts
<1>3. ASSUME NEW size \in PieceSizes, AllocInNewPool(size) PROVE CountInv'
  BY <1>3, NewPoolCounts, PoolAssumption
<1>4. ASSUME pieces' = {} PROVE CountInv'
  <2>1. MemTypeOK'
    BY <1>1 DEF MemInv
  <2>2. SumFunctionOnSet(Sizes(pieces'), pieces') = 0 /\ IsFiniteSet(pieces')
    BY <1>4, FS_EmptySet, SumEmpty
  <2>3. DOMAIN chain' = 1..Len(chain') /\ Len(chain') \in Nat /\ \A p \in DOMAIN chain' : chain'[p] \in Pools
    BY <2>1 DEF MemTypeOK
  <2>4. IsFiniteSet(DOMAIN chain') /\ \A p \in DOMAIN chain' : Used(chain')[p] \in Nat
    BY <2>3, FS_Interval DEF Used, Pools
  <2>5. SumFunctionOnSet(Used(chain'), DOMAIN chain') \in Nat
    BY <2>4, SumNat
  <2> QED BY <2>2, <2>5 DEF CountInv
<1>5. ASSUME NEW size \in PoolSizes, CreatePool(size) PROVE CountInv'
  <2>1. pieces = {}
    BY <1>5 DEF MemInv, MemTypeOK, CreatePool
  <2> QED BY <1>4, <1>5, <2>1 DEF CreatePool
<1>6. CASE ResetPool \/ DestroyPool
  BY <1>4, <1>6 DEF ResetPool, DestroyPool
<1>7. CASE UNCHANGED memVars
  BY <1>7 DEF memVars, CountInv
<1> QED BY <1>2, <1>3, <1>5, <1>6, <1>7 DEF MemNext

LEMMA CountInvIsCounted == MemInv /\ CountInv => StatsCountPieces
<1> SUFFICES ASSUME MemInv, CountInv PROVE StatsCountPieces
  OBVIOUS
<1> DEFINE n == Len(chain)
           f == Used(chain)
           g == [p \in DOMAIN chain |-> chain[p].size]
<1>1. DOMAIN chain = 1..n /\ n \in Nat /\ \A p \in 1..n : chain[p] \in Pools
  BY DEF MemInv, MemTypeOK
<1>2. \A p \in 1..n : f[p] \in Int /\ g[p] \in Int /\ f[p] <= g[p]
  BY <1>1 DEF MemInv, UsedInv, Used, Pools
<1> HIDE DEF n, f, g
<1>3. SumFunctionOnSet(f, 1..n) <= SumFunctionOnSet(g, 1..n)
  BY <1>1, <1>2, NotMore
<1>4. Stats.used = SumFunctionOnSet(f, 1..n) /\ Stats.total = SumFunctionOnSet(g, 1..n)
  BY <1>1 DEF Stats, Used, f, g
<1>5. SumFunctionOnSet([a \in pieces |-> a.size], pieces) <= SumFunctionOnSet(f, 1..n)
  BY <1>1 DEF CountInv, Sizes, f
<1> QED BY <1>3, <1>4, <1>5 DEF StatsCountPieces

-----------------------------------------------------------------------------
(* References and wrappers. *)

\* A reference counts its holders, and its destructor runs when there are none.
RefInv ==
    /\ ref \in [count : Nat, holders : Nat, destroyed : {0, 1}]
    /\ ref.count = ref.holders /\ (ref.holders > 0 => ref.destroyed = 0)

LEMMA RefStep == RefInv /\ [RefNext]_ref => RefInv'
<1> SUFFICES ASSUME RefInv, [RefNext]_ref PROVE RefInv'
  OBVIOUS
<1>1. CASE RefCreate
  BY <1>1 DEF RefCreate, RefInv
<1>2. CASE RefRetain
  <2>1. ref = [count |-> ref.count, holders |-> ref.holders, destroyed |-> ref.destroyed]
    BY DEF RefInv
  <2> DEFINE r == [ref EXCEPT !.count = ref.count + 1]
  <2>2. r = [count |-> ref.count + 1, holders |-> ref.holders, destroyed |-> ref.destroyed]
    BY <2>1
  <2>3. ref' = [r EXCEPT !.holders = ref.holders + 1]
    BY <1>2, <2>1 DEF RefRetain
  <2> HIDE DEF r
  <2>4. ref' = [count |-> ref.count + 1, holders |-> ref.holders + 1, destroyed |-> ref.destroyed]
    BY <2>2, <2>3
  <2> QED BY <1>2, <2>4 DEF RefInv, RefRetain
<1>3. CASE RefRelease
  BY <1>3 DEF RefRelease, RefInv
<1>4. CASE UNCHANGED ref
  BY <1>4 DEF RefInv
<1> QED BY <1>1, <1>2, <1>3, <1>4 DEF RefNext

\* The product of a size with one that divides the largest into at least as many fits.
LEMMA CallocIsWhole ==
    ASSUME NEW n \in Nat, NEW m \in Nat, Calloc(n, m) # Missing
    PROVE  Calloc(n, m) = n * m
<1>1. m > 0 /\ n <= SizeMax \div m /\ Calloc(n, m) = (n * m) % (SizeMax + 1) /\ SizeMax \in Nat
      /\ SizeMax \div m \in Nat
  <2>1. ~(n = 0 \/ m = 0 \/ n > SizeMax \div m)
    BY DEF Calloc
  <2>2. SizeMax \in Nat /\ m > 0
    BY <2>1, PoolAssumption
  <2>3. SizeMax \div m \in Nat
    BY <2>2, Division
  <2> QED BY <2>1, <2>2, <2>3 DEF Calloc
<1>2. n * m \in Nat /\ n * m <= SizeMax
  <2> DEFINE q == SizeMax \div m
             r == SizeMax % m
  <2>1. q \in Nat /\ r \in Nat /\ SizeMax = m * q + r
    BY <1>1, Division
  <2> HIDE DEF q, r
  <2>2. n <= q
    BY <1>1 DEF q
  <2>3. n * m <= m * q /\ n * m \in Nat /\ m * q \in Nat
    BY <1>1, <2>1, <2>2, Z3
  <2> QED BY <1>1, <2>1, <2>3
<1> DEFINE x == n * m
<1>3. x \in Nat /\ x <= SizeMax
  BY <1>2
<1> HIDE DEF x
<1>4. x % (SizeMax + 1) = x
  BY <1>1, <1>3
<1> QED BY <1>1, <1>4 DEF x

\* A call of the wrappers is made with two sizes and its outcomes.
BytesInv ==
    call.fn = "allocate" =>
        call.n \in Nat /\ call.m \in Nat /\ call.bytes.calloc = Calloc(call.n, call.m)

LEMMA BytesStep == BytesInv /\ (AllocateBytes \/ Return) => BytesInv'
<1> SUFFICES ASSUME BytesInv, AllocateBytes \/ Return PROVE BytesInv'
  OBVIOUS
<1>1. CASE AllocateBytes
  <2>1. PICK n, m \in 0..SizeMax :
          call' = [fn |-> "allocate", n |-> n, m |-> m,
                   bytes |-> [calloc |-> Calloc(n, m), realloc |-> Realloc(n), strndup |-> Strndup(n, m)]]
    BY <1>1 DEF AllocateBytes, Made
  <2>2. call'.n = n /\ call'.m = m /\ call'.bytes.calloc = Calloc(n, m) /\ n \in Nat /\ m \in Nat
    BY <2>1
  <2> QED BY <2>2 DEF BytesInv
<1>2. CASE Return
  <2>1. call'.fn = "none"
    BY <1>2 DEF Return, NoCall
  <2> QED BY <2>1 DEF BytesInv
<1> QED BY <1>1, <1>2

-----------------------------------------------------------------------------
\* For every alignment and all sizes, the pieces knishio_pool_alloc deals out between two
\* resets lie apart, are aligned and are counted; a destructor runs once, after the last
\* release; and an allocation of a product has room for all of it.
THEOREM MemoryIsAlwaysSound == MemorySpec => []MemoryIsSound
<1> DEFINE MInv == MemInv /\ CountInv /\ RefInv /\ BytesInv
           Step == \/ MemNext /\ UNCHANGED <<ref, call>>
                   \/ RefNext /\ UNCHANGED <<memVars, call>>
                   \/ (AllocateBytes \/ Return) /\ UNCHANGED <<memVars, ref>>
<1>1. MemInit /\ RefInit /\ call = NoCall => MInv
  <2> SUFFICES ASSUME MemInit, RefInit, call = NoCall PROVE MInv
    OBVIOUS
  <2>1. MemInv
    BY MemInitInv
  <2>2. CountInv
    BY <2>1, NoneCounts DEF MemInv, MemInit
  <2>3. RefInv
    BY DEF RefInit, NoRef, RefInv
  <2>4. BytesInv
    <3>1. call.fn = "none"
      BY DEF NoCall
    <3> QED BY <3>1 DEF BytesInv
  <2> QED BY <2>1, <2>2, <2>3, <2>4
<1>2. MInv /\ [Step]_<<memVars, ref, call>> => MInv'
  <2> SUFFICES ASSUME MInv, [Step]_<<memVars, ref, call>> PROVE MInv'
    OBVIOUS
  <2>1. [MemNext]_memVars /\ [RefNext]_ref
    OBVIOUS
  <2>2. (AllocateBytes \/ Return) \/ UNCHANGED call
    OBVIOUS
  <2>3. MemInv' /\ CountInv' /\ RefInv'
    BY <2>1, MemStepInv, CountStep, RefStep
  <2>4. BytesInv'
    <3>1. CASE AllocateBytes \/ Return
      BY <3>1, BytesStep
    <3>2. CASE UNCHANGED call
      BY <3>2 DEF BytesInv
    <3> QED BY <2>2, <3>1, <3>2
  <2> QED BY <2>3, <2>4
<1>3. MInv => MemoryIsSound
  <2> SUFFICES ASSUME MInv PROVE MemoryIsSound
    OBVIOUS
  <2>1. PiecesAreApart
    BY MemInvIsApart, CountInvIsCounted DEF PiecesAreApart
  <2>2. DestroyedOnce
    BY DEF RefInv, DestroyedOnce
  <2>3. NeverShort
    BY CallocIsWhole DEF BytesInv, NeverShort
  <2> QED BY <2>1, <2>2, <2>3 DEF MemoryIsSound
<1> QED BY <1>1, <1>2, <1>3, PTL DEF MemorySpec

-----------------------------------------------------------------------------
LEMMA Quotient ==
    ASSUME NEW b \in Nat, b > 0, NEW q \in Nat, NEW r \in 0 .. b-1
    PROVE  (b * q + r) \div b = q /\ (b * q + r) % b = r
BY Z3

LEMMA Start ==
    ASSUME NEW b \in Nat, NEW n \in Nat, NEW k \in 1 .. n
    PROVE  /\ (k - 1) * b \in Nat
           /\ (k - 1) * b + b = k * b
           /\ k * b <= b * n
           /\ k * b \in Nat
BY Z3

Symbols == Bytes \cup {0, 31, 128, 31 + 128}

Ctx == [initialized : BOOLEAN, finalized : BOOLEAN, buffer : Seq(Symbols),
        absorbed : Seq(Seq(Symbols)), permuted : Nat, squeeze_offset : Nat]

LEMMA AbsorbByteType ==
    ASSUME NEW c \in Ctx, NEW b \in Symbols
    PROVE  AbsorbByte(c, b) \in Ctx
<1>1. Append(c.buffer, b) \in Seq(Symbols)
  BY DEF Ctx
<1>2. Append(c.absorbed, Append(c.buffer, b)) \in Seq(Seq(Symbols))
  BY <1>1 DEF Ctx
<1>3. <<>> \in Seq(Symbols)
  OBVIOUS
<1> DEFINE buffer == Append(c.buffer, b)
           full == [c EXCEPT !.buffer = <<>>, !.absorbed = Append(@, buffer)]
           part == [c EXCEPT !.buffer = buffer]
<1>4. full \in Ctx
  <2> DEFINE empty == [c EXCEPT !.buffer = <<>>]
  <2>1. empty \in Ctx /\ empty.absorbed = c.absorbed
    BY <1>3 DEF Ctx
  <2>2. full = [empty EXCEPT !.absorbed = Append(c.absorbed, buffer)]
    BY DEF Ctx
  <2> HIDE DEF empty, full, buffer, Symbols
  <2> QED BY <1>2, <2>1, <2>2 DEF Ctx, buffer
<1>5. part \in Ctx
  BY <1>1 DEF Ctx
<1>6. AbsorbByte(c, b) = IF Len(buffer) >= Rate THEN full ELSE part
  BY DEF AbsorbByte
<1> QED
  BY <1>4, <1>5, <1>6

\* update has a context after each byte.
LEMMA AbsorbRuns ==
    ASSUME NEW c \in Ctx, NEW data \in Seq(Symbols)
    PROVE  \E path : /\ path[0] = c /\ Absorb(c, data) = path[Len(data)]
                     /\ \A k \in 0 .. Len(data)-1 : path[k + 1] = AbsorbByte(path[k], data[k + 1])
<1> DEFINE n == Len(data)
           step == [p \in Ctx \X (1 .. n) |-> AbsorbByte(p[1], data[p[2]])]
           Iter(g) == g = [s \in SUBSET (1 .. n) |->
                            IF s = {} THEN c ELSE AbsorbByte(g[s \ {Max(s)}], data[Max(s)])]
<1>1. n \in Nat /\ DOMAIN data = 1 .. n /\ \A i \in 1 .. n : data[i] \in Symbols
  OBVIOUS
<1>2. step \in [Ctx \X (1 .. n) -> Ctx]
  BY <1>1, AbsorbByteType
<1>3. PICK h : Iterates(h, step, c, 1 .. n) /\ \A s \in SUBSET (1 .. n) : h[s] \in Ctx
  <2> HIDE DEF n, step
  <2> QED BY <1>1, <1>2, FoldExists
<1>4. Iter(h)
  <2> HIDE DEF n
  <2>1. ASSUME NEW s \in SUBSET (1 .. n), s # {}
        PROVE  h[s] = AbsorbByte(h[s \ {Max(s)}], data[Max(s)])
    <3>1. Max(s) \in 1 .. n /\ h[s \ {Max(s)}] \in Ctx
      BY <1>1, <1>3, <2>1, MaxIsIn
    <3>2. h[s] = step[<<h[s \ {Max(s)}], Max(s)>>]
      BY <1>3, <2>1 DEF Iterates
    <3> QED BY <3>1, <3>2
  <2>2. h[{}] = c /\ h = [s \in SUBSET (1 .. n) |-> h[s]]
    BY <1>3 DEF Iterates
  <2> QED BY <2>1, <2>2
<1> DEFINE g == CHOOSE g : Iter(g)
<1>5. Iter(g)
  <2> HIDE DEF Iter
  <2> QED BY <1>4
<1>6. Absorb(c, data) = g[1 .. n]
  <2>1. Absorb(c, data) = g[DOMAIN data]
    <3> HIDE DEF n
    <3> QED BY <1>1, Zenon DEF Absorb, FoldLeft, MapThenFoldSet
  <2> QED BY <1>1, <2>1
<1> HIDE DEF g, n
<1> DEFINE path == [k \in 0 .. n |-> g[1 .. k]]
<1>7. path[0] = c
  BY <1>1, <1>5
<1>8. path[n] = g[1 .. n]
  BY <1>1
<1>9. ASSUME NEW k \in 0 .. n-1 PROVE path[k + 1] = AbsorbByte(path[k], data[k + 1])
  <2>1. k \in 0 .. n /\ k + 1 \in 0 .. n /\ k + 1 \in Nat /\ k + 1 # 0
    BY <1>1
  <2>2. 1 .. k+1 \in SUBSET (1 .. n) /\ 1 .. k+1 # {} /\ (1 .. k+1) \ {k + 1} = 1 .. k
    <3>1. 1 .. k+1 \subseteq 1 .. n
      BY <1>1
    <3>2. k + 1 \in 1 .. k+1
      BY <1>1
    <3>3. (1 .. k+1) \ {k + 1} = 1 .. k
      BY <1>1
    <3> QED BY <3>1, <3>2, <3>3
  <2>3. Max(1 .. k+1) = k + 1
    BY <2>1, MaxOfFirst
  <2>4. g[1 .. k+1] = AbsorbByte(g[(1 .. k+1) \ {Max(1 .. k+1)}], data[Max(1 .. k+1)])
    BY <1>5, <2>2
  <2> QED BY <2>1, <2>2, <2>3, <2>4
<1> HIDE DEF path
<1> QED
  BY <1>6, <1>7, <1>8, <1>9 DEF n

\* c has absorbed the whole blocks of message m and holds the rest.
Holds(c, m) ==
    /\ Len(c.buffer) < Rate
    /\ Len(m) = Rate * Len(c.absorbed) + Len(c.buffer)
    /\ \A k \in 1 .. Len(c.absorbed) :
        /\ Len(c.absorbed[k]) = Rate
        /\ \A i \in 1 .. Rate : c.absorbed[k][i] = m[(k - 1) * Rate + i]
    /\ \A i \in 1 .. Len(c.buffer) : c.buffer[i] = m[Rate * Len(c.absorbed) + i]

LEMMA AbsorbByteHolds ==
    ASSUME NEW c \in Ctx, NEW b \in Symbols, NEW m \in Seq(Symbols), Holds(c, m)
    PROVE  Holds(AbsorbByte(c, b), Append(m, b))
<1> DEFINE a == Len(c.absorbed)
           o == Len(c.buffer)
           buffer == Append(c.buffer, b)
           m2 == Append(m, b)
<1>1. /\ c.buffer \in Seq(Symbols) /\ c.absorbed \in Seq(Seq(Symbols))
      /\ a \in Nat /\ o \in Nat /\ Len(m) \in Nat
  BY DEF Ctx
<1>2. /\ Rate \in Nat /\ Rate > 0 /\ o < Rate /\ Len(m) = Rate * a + o
      /\ Rate * a \in Nat
  BY <1>1, RateAssumption DEF Holds
<1>3. /\ Len(buffer) = o + 1 /\ buffer[o + 1] = b
      /\ \A i \in 1 .. o : buffer[i] = c.buffer[i]
  BY <1>1
<1>4. /\ Len(m2) = Len(m) + 1 /\ m2[Len(m) + 1] = b
      /\ \A i \in 1 .. Len(m) : m2[i] = m[i]
  OBVIOUS
<1> HIDE DEF m2, buffer
<1>5. ASSUME NEW k \in 1 .. a, NEW i \in 1 .. Rate
      PROVE  m2[(k - 1) * Rate + i] = m[(k - 1) * Rate + i]
  <2>1. /\ (k - 1) * Rate \in Nat /\ (k - 1) * Rate + Rate = k * Rate
        /\ k * Rate <= Rate * a /\ k * Rate \in Nat
    BY <1>1, <1>2, Start
  <2>2. (k - 1) * Rate + i \in 1 .. Len(m)
    <3> DEFINE s == (k - 1) * Rate
               e == k * Rate
               p == Rate * a
    <3>1. s \in Nat /\ e \in Nat /\ p \in Nat /\ s + Rate = e /\ e <= p
      BY <1>2, <2>1
    <3>2. Len(m) = p + o
      BY <1>2
    <3> HIDE DEF s, e, p, a, o
    <3>3. s + i \in 1 .. Len(m)
      BY <1>1, <1>2, <3>1, <3>2
    <3> QED BY <3>3 DEF s
  <2> QED BY <1>4, <2>2
<1>6. ASSUME NEW i \in 1 .. o + 1 PROVE buffer[i] = m2[Rate * a + i]
  <2> DEFINE p == Rate * a
  <2>0. p \in Nat /\ Len(m) = p + o
    BY <1>2
  <2>1. CASE i = o + 1
    <3> HIDE DEF p, a, o
    <3>1. p + i = Len(m) + 1
      BY <1>1, <2>0, <2>1
    <3>2. buffer[i] = m2[p + i]
      BY <1>3, <1>4, <2>1, <3>1
    <3> QED BY <3>2 DEF p
  <2>2. CASE i # o + 1
    <3>1. i \in 1 .. o /\ Rate * a + i \in 1 .. Len(m)
      <4> HIDE DEF p, a, o
      <4>1. i \in 1 .. o /\ p + i \in 1 .. Len(m)
        BY <1>1, <2>0, <2>2
      <4> QED BY <4>1 DEF p
    <3>2. c.buffer[i] = m[Rate * a + i]
      BY <3>1 DEF Holds
    <3> QED BY <1>3, <1>4, <3>1, <3>2
  <2> QED BY <2>1, <2>2
<1>7. \A k \in 1 .. a : /\ Len(c.absorbed[k]) = Rate
                        /\ \A i \in 1 .. Rate : c.absorbed[k][i] = m2[(k - 1) * Rate + i]
  BY <1>5 DEF Holds
<1> HIDE DEF a, o
<1>8. CASE o + 1 >= Rate
  <2> DEFINE d == AbsorbByte(c, b)
  <2>1. d.buffer = <<>> /\ d.absorbed = Append(c.absorbed, buffer)
    BY <1>3, <1>8 DEF AbsorbByte, buffer, Ctx
  <2>2. buffer \in Seq(Symbols)
    BY <1>1 DEF buffer
  <2>3. /\ Len(d.absorbed) = a + 1 /\ d.absorbed[a + 1] = buffer
        /\ \A k \in 1 .. a : d.absorbed[k] = c.absorbed[k]
    BY <1>1, <2>1, <2>2 DEF a
  <2>4. o + 1 = Rate
    BY <1>1, <1>2, <1>8
  <2>5. Rate * (a + 1) = Rate * a + Rate /\ ((a + 1) - 1) * Rate = Rate * a
    BY <1>1, <1>2
  <2>6. Len(m2) = Rate * Len(d.absorbed) + Len(d.buffer) /\ Len(d.buffer) = 0
    BY <1>1, <1>2, <1>4, <2>1, <2>3, <2>4, <2>5
  <2>7. ASSUME NEW k \in 1 .. Len(d.absorbed)
        PROVE  /\ Len(d.absorbed[k]) = Rate
               /\ \A i \in 1 .. Rate : d.absorbed[k][i] = m2[(k - 1) * Rate + i]
    <3>1. CASE k = a + 1
      BY <1>3, <1>6, <2>3, <2>4, <2>5, <3>1
    <3>2. CASE k # a + 1
      <4>1. k \in 1 .. a
        BY <1>1, <2>3, <3>2
      <4> QED BY <1>7, <2>3, <4>1
    <3> QED BY <3>1, <3>2
  <2>8. Holds(d, m2)
    <3> HIDE DEF d
    <3>1. \A i \in 1 .. Len(d.buffer) : d.buffer[i] = m2[Rate * Len(d.absorbed) + i]
      BY <2>6
    <3> QED BY <1>2, <2>6, <2>7, <3>1 DEF Holds
  <2> QED BY <2>8 DEF m2
<1>9. CASE ~(o + 1 >= Rate)
  <2> DEFINE d == AbsorbByte(c, b)
  <2>1. d.buffer = buffer /\ d.absorbed = c.absorbed
    BY <1>3, <1>9 DEF AbsorbByte, buffer, Ctx
  <2> HIDE DEF d
  <2>2. Len(d.absorbed) = a /\ Len(d.buffer) = o + 1
    BY <1>3, <2>1 DEF a
  <2>3. Len(m2) = Rate * a + (o + 1) /\ o + 1 < Rate
    BY <1>1, <1>2, <1>4, <1>9
  <2>4. Holds(d, m2)
    BY <1>6, <1>7, <2>1, <2>2, <2>3 DEF Holds
  <2> QED BY <2>4 DEF m2, d
<1> QED
  BY <1>1, <1>2, <1>8, <1>9

\* What update leaves alone.
LEMMA AbsorbByteKeeps ==
    ASSUME NEW c \in Ctx, NEW b
    PROVE  LET d == AbsorbByte(c, b) IN
           /\ d.initialized = c.initialized /\ d.finalized = c.finalized
           /\ d.permuted = c.permuted /\ d.squeeze_offset = c.squeeze_offset
BY DEF AbsorbByte, Ctx

LEMMA UpdateHolds ==
    ASSUME NEW c \in Ctx, NEW m \in Seq(Symbols), NEW data \in Seq(Symbols), Holds(c, m)
    PROVE  LET d == Absorb(c, data) IN
           /\ d \in Ctx /\ Holds(d, m \o data)
           /\ d.initialized = c.initialized /\ d.finalized = c.finalized
           /\ d.permuted = c.permuted /\ d.squeeze_offset = c.squeeze_offset
<1> DEFINE n == Len(data)
           fedTo(k) == m \o SubSeq(data, 1, k)
           Good(k, d) == /\ d \in Ctx /\ Holds(d, fedTo(k))
                         /\ d.initialized = c.initialized /\ d.finalized = c.finalized
                         /\ d.permuted = c.permuted /\ d.squeeze_offset = c.squeeze_offset
<1>1. PICK path : /\ path[0] = c /\ Absorb(c, data) = path[n]
                  /\ \A k \in 0 .. n-1 : path[k + 1] = AbsorbByte(path[k], data[k + 1])
  BY AbsorbRuns
<1> DEFINE T == {k \in 0 .. n : Good(k, path[k])}
<1>2. n \in Nat /\ \A i \in 1 .. n : data[i] \in Symbols
  OBVIOUS
<1>3. fedTo(0) = m /\ fedTo(n) = m \o data
  <2>1. SubSeq(data, 1, 0) = <<>>
    OBVIOUS
  <2>2. SubSeq(data, 1, n) = data
    OBVIOUS
  <2> QED BY <2>1, <2>2
<1>4. ASSUME NEW k \in 0 .. n-1
      PROVE  fedTo(k) \in Seq(Symbols) /\ fedTo(k + 1) = Append(fedTo(k), data[k + 1])
  <2>1. SubSeq(data, 1, k) \in Seq(Symbols)
    BY <1>2
  <2>2. SubSeq(data, 1, k + 1) = Append(SubSeq(data, 1, k), data[k + 1])
    BY <1>2
  <2>3. m \o Append(SubSeq(data, 1, k), data[k + 1]) = Append(m \o SubSeq(data, 1, k), data[k + 1])
    <3>1. data[k + 1] \in Symbols
      BY <1>2
    <3> HIDE DEF Symbols
    <3> QED BY <2>1, <3>1
  <2> QED BY <2>1, <2>2, <2>3
<1> HIDE DEF fedTo
<1>5. 0 \in T
  BY <1>1, <1>2, <1>3
<1>6. ASSUME NEW k \in 0 .. n-1, k \in T PROVE k + 1 \in T
  <2>1. k + 1 \in 0 .. n /\ data[k + 1] \in Symbols /\ Good(k, path[k])
    BY <1>2, <1>6
  <2> DEFINE d == AbsorbByte(path[k], data[k + 1])
  <2>2. path[k + 1] = d
    BY <1>1
  <2>3. d \in Ctx
    BY <2>1, AbsorbByteType
  <2>4. Holds(d, fedTo(k + 1))
    BY <1>4, <2>1, AbsorbByteHolds
  <2>5. /\ d.initialized = c.initialized /\ d.finalized = c.finalized
        /\ d.permuted = c.permuted /\ d.squeeze_offset = c.squeeze_offset
    BY <2>1, AbsorbByteKeeps
  <2> HIDE DEF d
  <2> QED BY <2>1, <2>2, <2>3, <2>4, <2>5
<1>7. n \in T
  <2> HIDE DEF T, n
  <2>1. \A k \in 0 .. n : k \in T
    BY <1>2, <1>5, <1>6, CountUp
  <2> QED BY <1>2, <2>1
<1> QED
  BY <1>1, <1>3, <1>7

-----------------------------------------------------------------------------
(* The end of a message. *)

LEMMA PaddingFits ==
    ASSUME NEW n \in Nat, n > 0
    PROVE  Padding(n) \in Seq(Symbols) /\ Len(Padding(n)) = n
<1>1. CASE n = 1
  <2>1. 31 + 128 \in Symbols
    BY DEF Symbols
  <2>2. Padding(n) = <<31 + 128>>
    BY <1>1 DEF Padding
  <2>3. <<31 + 128>> \in Seq(Symbols) /\ Len(<<31 + 128>>) = 1
    <3> DEFINE z == 31 + 128
    <3>1. z \in Symbols
      BY <2>1
    <3> HIDE DEF z
    <3>2. <<z>> \in Seq(Symbols) /\ Len(<<z>>) = 1
      BY <3>1
    <3> QED BY <3>2 DEF z
  <2> QED BY <1>1, <2>2, <2>3
<1>2. CASE n # 1
  <2> DEFINE pad == [i \in 1 .. n |-> CASE i = 1 -> 31 [] i = n -> 128 [] OTHER -> 0]
  <2>1. pad \in Seq({0, 31, 128}) /\ Len(pad) = n
    <3>1. \A i \in 1 .. n : pad[i] \in {0, 31, 128}
      OBVIOUS
    <3>2. pad \in [1 .. n -> {0, 31, 128}]
      <4> DEFINE at(i) == CASE i = 1 -> 31 [] i = n -> 128 [] OTHER -> 0
      <4>1. pad = [i \in 1 .. n |-> at(i)]
        OBVIOUS
      <4>2. \A i \in 1 .. n : at(i) \in {0, 31, 128}
        OBVIOUS
      <4> HIDE DEF pad, at
      <4> QED BY <4>1, <4>2
    <3> HIDE DEF pad
    <3> QED BY <3>2
  <2>2. Padding(n) = pad
    BY <1>2, Zenon DEF Padding
  <2>3. {0, 31, 128} \subseteq Symbols
    BY DEF Symbols
  <2> HIDE DEF pad, Symbols
  <2> QED BY <2>1, <2>2, <2>3
<1> QED
  BY <1>1, <1>2

\* What is held, padded to a block, is the last block of the padded message.
LEMMA FinalBlocks ==
    ASSUME NEW c \in Ctx, NEW m \in Seq(Symbols), Holds(c, m)
    PROVE  LET last == c.buffer \o Padding(Rate - Len(c.buffer)) IN
           /\ last \in Seq(Symbols) /\ Len(last) = Rate
           /\ Append(c.absorbed, last) = Blocks(m)
<1> DEFINE a == Len(c.absorbed)
           o == Len(c.buffer)
           pad == Padding(Rate - o)
           last == c.buffer \o pad
           padded == m \o pad
<1>1. /\ c.buffer \in Seq(Symbols) /\ c.absorbed \in Seq(Seq(Symbols))
      /\ a \in Nat /\ o \in Nat /\ Len(m) \in Nat
  BY DEF Ctx
<1>2. /\ Rate \in Nat /\ Rate > 0 /\ o < Rate /\ Len(m) = Rate * a + o
      /\ Rate * a \in Nat
  BY <1>1, RateAssumption DEF Holds
<1>3. Rate - o \in Nat /\ Rate - o > 0
  <2> HIDE DEF o
  <2> QED BY <1>1, <1>2
<1>4. pad \in Seq(Symbols) /\ Len(pad) = Rate - o
  BY <1>3, PaddingFits
<1> HIDE DEF pad, Symbols
<1>5. /\ last \in Seq(Symbols) /\ Len(last) = Rate
      /\ \A i \in 1 .. Rate : last[i] = IF i <= o THEN c.buffer[i] ELSE pad[i - o]
  BY <1>1, <1>2, <1>4
<1>6. /\ padded \in Seq(Symbols) /\ Len(padded) = Rate * a + Rate
      /\ \A i \in 1 .. Rate * a + Rate :
            padded[i] = IF i <= Rate * a + o THEN m[i] ELSE pad[i - (Rate * a + o)]
  <2> DEFINE p == Rate * a
  <2>1. p \in Nat /\ Len(m) = p + o
    BY <1>2
  <2> HIDE DEF p, o
  <2>2. padded \in Seq(Symbols) /\ Len(padded) = p + Rate
    <3>1. padded \in Seq(Symbols) /\ Len(padded) = Len(m) + Len(pad)
      BY <1>4
    <3>2. (p + o) + (Rate - o) = p + Rate
      BY <1>1, <1>2, <2>1
    <3> QED BY <1>4, <2>1, <3>1, <3>2
  <2>3. ASSUME NEW i \in 1 .. p + Rate
        PROVE  padded[i] = IF i <= p + o THEN m[i] ELSE pad[i - (p + o)]
    <3>1. i \in 1 .. Len(m) + Len(pad)
      BY <1>1, <1>2, <1>4, <2>1
    <3>2. padded[i] = IF i <= Len(m) THEN m[i] ELSE pad[i - Len(m)]
      BY <1>4, <3>1
    <3> QED BY <2>1, <3>2
  <2> QED BY <2>2, <2>3 DEF p
<1>7. Len(m) % Rate = o
  <2> HIDE DEF a, o
  <2>1. o \in 0 .. Rate-1
    BY <1>1, <1>2
  <2> QED BY <1>1, <1>2, <2>1, Quotient
<1>8. Len(padded) \div Rate = a + 1
  <2> HIDE DEF a, padded
  <2>1. a + 1 \in Nat /\ 0 \in 0 .. Rate-1 /\ Rate * (a + 1) + 0 = Rate * a + Rate
    BY <1>1, <1>2
  <2>2. (Rate * (a + 1) + 0) \div Rate = a + 1
    BY <1>2, <2>1, Quotient
  <2> QED BY <1>6, <2>1, <2>2
<1> HIDE DEF last, padded, a, o
<1>9. Blocks(m) = [k \in 1 .. a+1 |-> SubSeq(padded, (k - 1) * Rate + 1, k * Rate)]
  BY <1>7, <1>8 DEF Blocks, padded, pad
<1> DEFINE all == Append(c.absorbed, last)
<1>10. /\ all = [k \in 1 .. a+1 |-> all[k]] /\ all[a + 1] = last
       /\ \A k \in 1 .. a : all[k] = c.absorbed[k] /\ c.absorbed[k] \in Seq(Symbols)
  BY <1>1, <1>5 DEF a
<1>11. ASSUME NEW k \in 1 .. a+1
       PROVE  all[k] = SubSeq(padded, (k - 1) * Rate + 1, k * Rate)
  <2> DEFINE s == (k - 1) * Rate
             e == k * Rate
             p == Rate * a
             x == all[k]
             y == SubSeq(padded, s + 1, e)
  <2>1. a + 1 \in Nat /\ Rate * (a + 1) = p + Rate
    BY <1>1, <1>2
  <2>2. s \in Nat /\ s + Rate = e /\ e \in Nat /\ e <= Rate * (a + 1)
    BY <1>2, <2>1, Start
  <2>3. p \in Nat /\ e <= p + Rate
    BY <1>2, <2>1, <2>2
  <2>4. k = a + 1 => s = p
    BY <1>1, <1>2
  <2>5. k # a + 1 => e <= p
    <3> SUFFICES ASSUME k # a + 1 PROVE e <= p
      OBVIOUS
    <3>1. k \in 1 .. a
      BY <1>1
    <3> QED BY <1>1, <1>2, <3>1, Start
  <2>6. /\ padded \in Seq(Symbols) /\ Len(padded) = p + Rate
        /\ \A i \in 1 .. p + Rate : padded[i] = IF i <= p + o THEN m[i] ELSE pad[i - (p + o)]
    BY <1>6
  <2>7. x \in Seq(Symbols) /\ Len(x) = Rate
    <3>1. CASE k = a + 1
      BY <1>5, <1>10, <3>1
    <3>2. CASE k # a + 1
      <4>1. k \in 1 .. a
        BY <1>1, <3>2
      <4> QED BY <1>10, <4>1 DEF Holds, a
    <3> QED BY <3>1, <3>2
  <2>8. \A i \in 1 .. Rate : x[i] = padded[s + i]
    <3> TAKE i \in 1 .. Rate
    <3>1. CASE k = a + 1
      <4>1. s = p
        BY <2>4, <3>1
      <4>2. x[i] = IF i <= o THEN c.buffer[i] ELSE pad[i - o]
        BY <1>5, <1>10, <3>1
      <4>3. i <= o => c.buffer[i] = m[p + i]
        BY <1>1 DEF Holds, a, o
      <4>4. padded[p + i] = IF i <= o THEN m[p + i] ELSE pad[i - o]
        <5> HIDE DEF p
        <5>1. p + i \in 1 .. p + Rate /\ (p + i <= p + o <=> i <= o) /\ (p + i) - (p + o) = i - o
          BY <1>1, <1>2, <2>3
        <5> QED BY <2>6, <5>1
      <4> QED BY <4>1, <4>2, <4>3, <4>4
    <3>2. CASE k # a + 1
      <4>1. k \in 1 .. a
        BY <1>1, <3>2
      <4>2. x[i] = m[s + i]
        BY <1>10, <4>1 DEF Holds, a
      <4>3. e <= p
        BY <2>5, <3>2
      <4>4. padded[s + i] = m[s + i]
        <5> HIDE DEF s, e, p
        <5>1. s + i \in 1 .. p + Rate /\ s + i <= p + o
          BY <1>1, <1>2, <2>2, <2>3, <4>3
        <5> QED BY <2>6, <5>1
      <4> QED BY <4>2, <4>4
    <3> QED BY <3>1, <3>2
  <2>9. y \in Seq(Symbols) /\ Len(y) = Rate /\ \A i \in 1 .. Rate : y[i] = padded[s + i]
    <3> HIDE DEF s, e, p
    <3> QED BY <1>2, <2>2, <2>3, <2>6
  <2>10. x = y
    <3> HIDE DEF x, y, s
    <3>1. x = [i \in 1 .. Rate |-> x[i]] /\ y = [i \in 1 .. Rate |-> y[i]]
      BY <2>7, <2>9
    <3> QED BY <2>8, <2>9, <3>1
  <2> QED BY <2>10
<1>12. all = Blocks(m)
  <2> HIDE DEF all
  <2> QED BY <1>9, <1>10, <1>11
<1> QED
  BY <1>5, <1>12 DEF last, pad, o

-----------------------------------------------------------------------------
(* The output. *)

Pieces == [absorbed : Seq(Seq(Symbols)), permuted : Nat, at : Nat]
Squeezing == [ctx : Ctx, out : Seq(Pieces)]

LEMMA Permuted ==
    ASSUME NEW c \in Ctx
    PROVE  LET d == [c EXCEPT !.permuted = @ + 1, !.squeeze_offset = 0] IN
           /\ d \in Ctx /\ d.permuted = c.permuted + 1 /\ d.squeeze_offset = 0
           /\ d.initialized = c.initialized /\ d.finalized = c.finalized
           /\ d.buffer = c.buffer /\ d.absorbed = c.absorbed
<1> DEFINE v == c.permuted + 1
           next == [c EXCEPT !.permuted = v]
           d == [next EXCEPT !.squeeze_offset = 0]
<1>1. v \in Nat
  BY DEF Ctx
<1>2. [c EXCEPT !.permuted = @ + 1, !.squeeze_offset = 0] = d
  BY DEF Ctx
<1> HIDE DEF v
<1>3. /\ next \in Ctx /\ next.permuted = v /\ next.initialized = c.initialized
      /\ next.finalized = c.finalized /\ next.buffer = c.buffer /\ next.absorbed = c.absorbed
  BY <1>1 DEF Ctx
<1> HIDE DEF next
<1>4. /\ d \in Ctx /\ d.permuted = v /\ d.squeeze_offset = 0 /\ d.initialized = c.initialized
      /\ d.finalized = c.finalized /\ d.buffer = c.buffer /\ d.absorbed = c.absorbed
  BY <1>3 DEF Ctx
<1> HIDE DEF d
<1> QED
  BY <1>2, <1>4 DEF v

LEMMA Counted ==
    ASSUME NEW c \in Ctx
    PROVE  LET d == [c EXCEPT !.squeeze_offset = @ + 1] IN
           /\ d \in Ctx /\ d.squeeze_offset = c.squeeze_offset + 1 /\ d.permuted = c.permuted
           /\ d.initialized = c.initialized /\ d.finalized = c.finalized
           /\ d.buffer = c.buffer /\ d.absorbed = c.absorbed
<1> DEFINE v == c.squeeze_offset + 1
           d == [c EXCEPT !.squeeze_offset = v]
<1>1. v \in Nat
  BY DEF Ctx
<1> HIDE DEF v
<1>2. /\ d \in Ctx /\ d.squeeze_offset = v /\ d.permuted = c.permuted
      /\ d.initialized = c.initialized /\ d.finalized = c.finalized
      /\ d.buffer = c.buffer /\ d.absorbed = c.absorbed
  BY <1>1 DEF Ctx
<1>3. [c EXCEPT !.squeeze_offset = @ + 1] = d
  BY DEF v
<1> HIDE DEF d
<1> QED
  BY <1>2, <1>3 DEF v

LEMMA OutByteType ==
    ASSUME NEW r \in Squeezing, NEW i
    PROVE  OutByte(r, i) \in Squeezing
<1> DEFINE inBlocks == Seq(Seq(Symbols))
           c == IF r.ctx.squeeze_offset >= Rate
                THEN [r.ctx EXCEPT !.permuted = @ + 1, !.squeeze_offset = 0] ELSE r.ctx
<1>1. r.ctx \in Ctx /\ r.out \in Seq(Pieces)
  BY DEF Squeezing
<1>2. c \in Ctx
  BY <1>1, Permuted
<1> HIDE DEF c
<1>3. [c EXCEPT !.squeeze_offset = @ + 1] \in Ctx
  BY <1>2, Counted
<1>4. Squeezed(c, c.squeeze_offset) \in Pieces
  BY <1>2 DEF Squeezed, Pieces, Ctx
<1>5. Append(r.out, Squeezed(c, c.squeeze_offset)) \in Seq(Pieces)
  BY <1>1, <1>4
<1>6. OutByte(r, i) = [ctx |-> [c EXCEPT !.squeeze_offset = @ + 1],
                       out |-> Append(r.out, Squeezed(c, c.squeeze_offset))]
  BY DEF OutByte, c
<1> QED
  BY <1>3, <1>5, <1>6 DEF Squeezing

\* shake_out has a context and an output after each byte.
LEMMA OutRuns ==
    ASSUME NEW c \in Ctx, NEW n \in Nat
    PROVE  \E path : /\ path[0] = [ctx |-> c, out |-> <<>>] /\ Out(c, n) = path[n]
                     /\ \A k \in 0 .. n-1 : path[k + 1] = OutByte(path[k], k + 1)
<1> DEFINE data == [i \in 1 .. n |-> i]
           base == [ctx |-> c, out |-> <<>>]
           step == [p \in Squeezing \X (1 .. n) |-> OutByte(p[1], data[p[2]])]
           Iter(g) == g = [s \in SUBSET (1 .. n) |->
                            IF s = {} THEN base ELSE OutByte(g[s \ {Max(s)}], data[Max(s)])]
<1>1. DOMAIN data = 1 .. n /\ \A i \in 1 .. n : data[i] = i
  OBVIOUS
<1>2. step \in [Squeezing \X (1 .. n) -> Squeezing]
  BY OutByteType
<1>3. base \in Squeezing
  BY DEF Squeezing
<1>4. PICK h : /\ Iterates(h, step, base, 1 .. n)
               /\ \A s \in SUBSET (1 .. n) : h[s] \in Squeezing
  <2> HIDE DEF step, base
  <2> QED BY <1>2, <1>3, FoldExists
<1> HIDE DEF data, base
<1>5. Iter(h)
  <2>1. ASSUME NEW s \in SUBSET (1 .. n), s # {}
        PROVE  h[s] = OutByte(h[s \ {Max(s)}], data[Max(s)])
    <3>1. Max(s) \in 1 .. n /\ h[s \ {Max(s)}] \in Squeezing
      BY <1>4, <2>1, MaxIsIn
    <3>2. h[s] = step[<<h[s \ {Max(s)}], Max(s)>>]
      BY <1>4, <2>1 DEF Iterates
    <3> QED BY <3>1, <3>2
  <2>2. h[{}] = base /\ h = [s \in SUBSET (1 .. n) |-> h[s]]
    BY <1>4 DEF Iterates
  <2> QED BY <2>1, <2>2
<1> DEFINE g == CHOOSE g : Iter(g)
<1>6. Iter(g)
  <2> HIDE DEF Iter
  <2> QED BY <1>5
<1>7. Out(c, n) = g[1 .. n]
  <2>1. Out(c, n) = g[DOMAIN data]
    BY <1>1, Zenon DEF Out, FoldLeft, MapThenFoldSet, data, base
  <2> QED BY <1>1, <2>1
<1> HIDE DEF g
<1> DEFINE path == [k \in 0 .. n |-> g[1 .. k]]
<1>8. path[0] = base
  BY <1>6
<1>9. path[n] = g[1 .. n]
  OBVIOUS
<1>10. ASSUME NEW k \in 0 .. n-1 PROVE path[k + 1] = OutByte(path[k], k + 1)
  <2>1. k \in 0 .. n /\ k + 1 \in 1 .. n /\ k + 1 \in 0 .. n /\ k + 1 \in Nat /\ k + 1 # 0
    OBVIOUS
  <2>2. 1 .. k+1 \in SUBSET (1 .. n) /\ 1 .. k+1 # {} /\ (1 .. k+1) \ {k + 1} = 1 .. k
    <3>1. 1 .. k+1 \subseteq 1 .. n
      OBVIOUS
    <3>2. k + 1 \in 1 .. k+1
      OBVIOUS
    <3>3. (1 .. k+1) \ {k + 1} = 1 .. k
      OBVIOUS
    <3> QED BY <3>1, <3>2, <3>3
  <2>3. Max(1 .. k+1) = k + 1
    BY <2>1, MaxOfFirst
  <2>4. g[1 .. k+1] = OutByte(g[(1 .. k+1) \ {Max(1 .. k+1)}], data[Max(1 .. k+1)])
    BY <1>6, <2>2
  <2> QED BY <1>1, <2>1, <2>2, <2>3, <2>4
<1> HIDE DEF path
<1> QED
  BY <1>7, <1>8, <1>9, <1>10 DEF base

\* s is what the state c has given out of the blocks of a message.
Streams(c, s, inBlocks) ==
    /\ c.absorbed = inBlocks
    /\ s \in Seq(Pieces)
    /\ c.squeeze_offset <= Rate
    /\ Len(s) = Rate * c.permuted + c.squeeze_offset
    /\ \A i \in 1 .. Len(s) :
        s[i] = [absorbed |-> inBlocks, permuted |-> (i - 1) \div Rate, at |-> (i - 1) % Rate]

LEMMA OutByteStreams ==
    ASSUME NEW r \in Squeezing, NEW i, NEW s \in Seq(Pieces), NEW inBlocks,
           Streams(r.ctx, s \o r.out, inBlocks)
    PROVE  LET q == OutByte(r, i) IN
           /\ Streams(q.ctx, s \o q.out, inBlocks)
           /\ q.ctx.initialized = r.ctx.initialized /\ q.ctx.finalized = r.ctx.finalized
           /\ q.ctx.buffer = r.ctx.buffer
<1> DEFINE c == IF r.ctx.squeeze_offset >= Rate
                THEN [r.ctx EXCEPT !.permuted = @ + 1, !.squeeze_offset = 0] ELSE r.ctx
           d == [c EXCEPT !.squeeze_offset = @ + 1]
           p == c.permuted
           o == c.squeeze_offset
           piece == Squeezed(c, o)
           before == s \o r.out
           q == OutByte(r, i)
<1>1. r.ctx \in Ctx /\ r.out \in Seq(Pieces) /\ before \in Seq(Pieces)
  BY DEF Squeezing
<1>2. Rate \in Nat /\ Rate > 0
  BY RateAssumption
<1>3. /\ c \in Ctx /\ c.absorbed = inBlocks
      /\ c.initialized = r.ctx.initialized /\ c.finalized = r.ctx.finalized /\ c.buffer = r.ctx.buffer
  BY <1>1, Permuted DEF Streams
<1>4. p \in Nat /\ o \in Nat /\ o < Rate /\ Len(before) = Rate * p + o
  <2>1. CASE r.ctx.squeeze_offset >= Rate
    <3>1. o = 0 /\ p = r.ctx.permuted + 1
      BY <1>1, <2>1 DEF Ctx
    <3>2. r.ctx.permuted \in Nat /\ r.ctx.squeeze_offset = Rate
      BY <1>1, <1>2, <2>1 DEF Ctx, Streams
    <3>3. Rate * (r.ctx.permuted + 1) = Rate * r.ctx.permuted + Rate
      BY <1>2, <3>2
    <3> HIDE DEF p, o, c
    <3>4. Len(before) = Rate * r.ctx.permuted + Rate
      BY <3>2 DEF Streams
    <3> QED BY <1>2, <3>1, <3>2, <3>3, <3>4
  <2>2. CASE ~(r.ctx.squeeze_offset >= Rate)
    <3>1. c = r.ctx
      BY <2>2
    <3> HIDE DEF c
    <3> QED BY <1>1, <1>2, <2>2, <3>1 DEF Ctx, Streams
  <2> QED BY <2>1, <2>2
<1>5. OutByte(r, i) = [ctx |-> d, out |-> Append(r.out, piece)]
  BY DEF OutByte
<1>6. piece = [absorbed |-> inBlocks, permuted |-> p, at |-> o] /\ piece \in Pieces
  <2> HIDE DEF c
  <2> QED BY <1>3, <1>4 DEF Squeezed, Pieces, Ctx
<1>7. /\ d.absorbed = inBlocks /\ d.permuted = p /\ d.squeeze_offset = o + 1
      /\ d.initialized = c.initialized /\ d.finalized = c.finalized /\ d.buffer = c.buffer
  <2> HIDE DEF c
  <2> QED BY <1>3, Counted
<1> HIDE DEF c, d, piece, p, o
<1>8. s \o Append(r.out, piece) = Append(before, piece)
  BY <1>1, <1>6
<1> HIDE DEF before
<1> DEFINE after == Append(before, piece)
<1>9. /\ after \in Seq(Pieces) /\ Len(after) = Len(before) + 1 /\ after[Len(before) + 1] = piece
      /\ \A j \in 1 .. Len(before) : after[j] = before[j]
  BY <1>1, <1>6
<1>10. (Rate * p + o) \div Rate = p /\ (Rate * p + o) % Rate = o
  <2>1. o \in 0 .. Rate-1
    BY <1>2, <1>4
  <2> QED BY <1>2, <1>4, <2>1, Quotient
<1> HIDE DEF after
<1>11. ASSUME NEW j \in 1 .. Len(after)
       PROVE  after[j] = [absorbed |-> inBlocks, permuted |-> (j - 1) \div Rate, at |-> (j - 1) % Rate]
  <2>1. CASE j = Len(before) + 1
    <3>1. j - 1 = Rate * p + o
      BY <1>1, <1>4, <2>1
    <3> QED BY <1>6, <1>9, <1>10, <2>1, <3>1
  <2>2. CASE j # Len(before) + 1
    <3>1. j \in 1 .. Len(before)
      BY <1>1, <1>9, <2>2
    <3> QED BY <1>9, <3>1 DEF Streams, before
  <2> QED BY <2>1, <2>2
<1>12. Len(after) = Rate * p + (o + 1)
  <2> DEFINE x == Rate * p
  <2>1. x \in Nat /\ Len(before) = x + o
    BY <1>2, <1>4
  <2> HIDE DEF x
  <2>2. Len(after) = x + (o + 1)
    BY <1>4, <1>9, <2>1
  <2> QED BY <2>2 DEF x
<1>13. Streams(d, after, inBlocks)
  <2>1. o + 1 <= Rate
    BY <1>2, <1>4
  <2>2. after \in Seq(Pieces) /\ d.absorbed = inBlocks /\ d.squeeze_offset = o + 1 /\ d.permuted = p
    BY <1>7, <1>9
  <2> HIDE DEF d
  <2> QED BY <1>11, <1>12, <2>1, <2>2 DEF Streams
<1>14. q.ctx = d /\ q.out = Append(r.out, piece)
  BY <1>5
<1>15. s \o q.out = after
  BY <1>8, <1>14 DEF after
<1> HIDE DEF q
<1> QED
  BY <1>3, <1>7, <1>13, <1>14, <1>15 DEF q

LEMMA OutStreams ==
    ASSUME NEW c \in Ctx, NEW n \in Nat, NEW s, NEW inBlocks, Streams(c, s, inBlocks)
    PROVE  LET r == Out(c, n) IN
           /\ r \in Squeezing /\ Streams(r.ctx, s \o r.out, inBlocks)
           /\ r.ctx.initialized = c.initialized /\ r.ctx.finalized = c.finalized
           /\ r.ctx.buffer = c.buffer
<1> DEFINE Good(r) == /\ r \in Squeezing /\ Streams(r.ctx, s \o r.out, inBlocks)
                      /\ r.ctx.initialized = c.initialized /\ r.ctx.finalized = c.finalized
                      /\ r.ctx.buffer = c.buffer
<1>1. PICK path : /\ path[0] = [ctx |-> c, out |-> <<>>] /\ Out(c, n) = path[n]
                  /\ \A k \in 0 .. n-1 : path[k + 1] = OutByte(path[k], k + 1)
  BY OutRuns
<1> DEFINE T == {k \in 0 .. n : Good(path[k])}
<1>2. s \in Seq(Pieces)
  BY DEF Streams
<1>3. Good(path[0])
  <2>1. s \o <<>> = s
    BY <1>2
  <2>2. [ctx |-> c, out |-> <<>>] \in Squeezing
    BY DEF Squeezing
  <2> QED BY <1>1, <2>1, <2>2
<1>4. 0 \in T
  BY <1>3
<1>5. ASSUME NEW k \in 0 .. n-1, k \in T PROVE k + 1 \in T
  <2>1. k + 1 \in 0 .. n /\ Good(path[k]) /\ path[k + 1] = OutByte(path[k], k + 1)
    BY <1>1, <1>5
  <2>2. OutByte(path[k], k + 1) \in Squeezing
    BY <2>1, OutByteType
  <2>3. Good(OutByte(path[k], k + 1))
    BY <1>2, <2>1, <2>2, OutByteStreams
  <2> HIDE DEF Good
  <2> QED BY <2>1, <2>3
<1>6. n \in T
  <2> HIDE DEF T
  <2>1. \A k \in 0 .. n : k \in T
    BY <1>4, <1>5, CountUp
  <2> QED BY <2>1
<1> QED
  BY <1>1, <1>6

-----------------------------------------------------------------------------
(* The sponge. *)

\* Before the end: the message so far, and nothing has come out.
FeedingInv ==
    ~ctx.finalized => /\ Holds(ctx, fed) /\ read = <<>>
                      /\ ctx.permuted = 0 /\ ctx.squeeze_offset = 0

\* After it: the padded blocks, and one stream of them.
ReadingInv ==
    ctx.finalized => /\ ctx.initialized /\ Len(ctx.buffer) = Rate
                     /\ Streams(ctx, read, Blocks(fed))

SpongeInv ==
    /\ ctx \in Ctx
    /\ fed \in Seq(Symbols)
    /\ FeedingInv
    /\ ReadingInv

\* A context nothing has been fed to.
LEMMA FreshInv ==
    ASSUME NEW c, c = Blank \/ c = Ready
    PROVE  /\ c \in Ctx /\ Holds(c, <<>>) /\ ~c.finalized
           /\ c.permuted = 0 /\ c.squeeze_offset = 0
<1>1. /\ c.buffer = <<>> /\ c.absorbed = <<>> /\ ~c.finalized
      /\ c.permuted = 0 /\ c.squeeze_offset = 0
  BY DEF Blank, Ready
<1>2. c \in Ctx
  <2> DEFINE S == Seq(Symbols)
             SS == Seq(S)
  <2>1. <<>> \in S /\ <<>> \in SS
    OBVIOUS
  <2>2. Blank \in [initialized : BOOLEAN, finalized : BOOLEAN, buffer : S,
                   absorbed : SS, permuted : Nat, squeeze_offset : Nat]
    <3> HIDE DEF S, SS
    <3> QED BY <2>1 DEF Blank
  <2>3. Blank \in Ctx
    BY <2>2 DEF Ctx
  <2>4. Ready \in Ctx
    <3> HIDE DEF S, SS
    <3> QED BY <2>3 DEF Ready, Ctx
  <2> QED BY <2>3, <2>4
<1>3. Holds(c, <<>>)
  <2>1. Rate \in Nat /\ Rate > 0 /\ Len(<<>>) = 0 /\ Rate * 0 = 0
    BY RateAssumption
  <2> QED BY <1>1, <2>1 DEF Holds
<1> QED
  BY <1>1, <1>2, <1>3

LEMMA SpongeInitInv == ShakeInit => SpongeInv
BY FreshInv DEF ShakeInit, SpongeInv, FeedingInv, ReadingInv

LEMMA UpdateInv ==
    ASSUME SpongeInv, NEW data \in Chunks, Update(data)
    PROVE  SpongeInv'
<1>1. data \in Seq(Symbols)
  BY DEF Chunks, Symbols
<1>2. /\ ctx \in Ctx /\ fed \in Seq(Symbols) /\ ~ctx.finalized /\ Holds(ctx, fed) /\ read = <<>>
      /\ ctx.permuted = 0 /\ ctx.squeeze_offset = 0
  BY DEF SpongeInv, FeedingInv, Update
<1>3. ctx' = Absorb(ctx, data) /\ fed' = fed \o data /\ read' = read
  BY DEF Update
<1>4. /\ ctx' \in Ctx /\ Holds(ctx', fed') /\ ctx'.finalized = ctx.finalized
      /\ ctx'.permuted = ctx.permuted /\ ctx'.squeeze_offset = ctx.squeeze_offset
  BY <1>1, <1>2, <1>3, UpdateHolds
<1>5. fed' \in Seq(Symbols)
  BY <1>1, <1>2, <1>3
<1> QED
  BY <1>2, <1>3, <1>4, <1>5 DEF SpongeInv, FeedingInv, ReadingInv

LEMMA FinalInv ==
    ASSUME SpongeInv, Final
    PROVE  SpongeInv'
<1> DEFINE last == ctx.buffer \o Padding(Rate - Len(ctx.buffer))
<1>1. /\ ctx \in Ctx /\ fed \in Seq(Symbols) /\ ctx.initialized /\ Holds(ctx, fed) /\ read = <<>>
      /\ ctx.permuted = 0 /\ ctx.absorbed \in Seq(Seq(Symbols))
  BY DEF SpongeInv, FeedingInv, Final, Ctx
<1>2. last \in Seq(Symbols) /\ Len(last) = Rate /\ Append(ctx.absorbed, last) = Blocks(fed)
  BY <1>1, FinalBlocks
<1> HIDE DEF last, Symbols
<1> DEFINE inBlocks == Append(ctx.absorbed, last)
           c1 == [ctx EXCEPT !.finalized = TRUE]
           c2 == [c1 EXCEPT !.squeeze_offset = 0]
           c3 == [c2 EXCEPT !.buffer = last]
           c4 == [c3 EXCEPT !.absorbed = inBlocks]
<1>3. inBlocks \in Seq(Seq(Symbols))
  <2> DEFINE S == Seq(Symbols)
  <2>1. ctx.absorbed \in Seq(S) /\ last \in S
    BY <1>1, <1>2
  <2> HIDE DEF S
  <2>2. inBlocks \in Seq(S)
    BY <2>1
  <2> QED BY <2>2 DEF S
<1>4. ctx' = c4 /\ fed' = fed /\ read' = <<>>
  <2>1. ctx' = Finalized(ctx) /\ fed' = fed /\ read' = read
    BY DEF Final
  <2>2. Finalized(ctx) = [ctx EXCEPT !.finalized = TRUE, !.squeeze_offset = 0, !.buffer = last,
                                     !.absorbed = inBlocks]
    BY DEF Finalized, last
  <2> QED BY <1>1, <2>1, <2>2, Zenon
<1> HIDE DEF inBlocks
<1>5. c1 \in Ctx /\ c1.finalized /\ c1.initialized /\ c1.permuted = 0
  BY <1>1 DEF Ctx
<1> HIDE DEF c1
<1>6. /\ c2 \in Ctx /\ c2.finalized /\ c2.initialized /\ c2.permuted = 0
      /\ c2.squeeze_offset = 0
  BY <1>5 DEF Ctx
<1> HIDE DEF c2
<1>7. /\ c3 \in Ctx /\ c3.finalized /\ c3.initialized /\ c3.permuted = 0
      /\ c3.squeeze_offset = 0 /\ c3.buffer = last
  BY <1>2, <1>6 DEF Ctx
<1> HIDE DEF c3
<1>8. /\ c4 \in Ctx /\ c4.finalized /\ c4.initialized /\ c4.permuted = 0
      /\ c4.squeeze_offset = 0 /\ c4.buffer = last /\ c4.absorbed = inBlocks
  BY <1>3, <1>7 DEF Ctx
<1> HIDE DEF c4
<1>9. Streams(c4, <<>>, inBlocks)
  <2>1. Rate \in Nat /\ Rate * 0 = 0
    BY RateAssumption
  <2> QED BY <1>8, <2>1 DEF Streams
<1> QED
  BY <1>1, <1>2, <1>4, <1>8, <1>9 DEF SpongeInv, FeedingInv, ReadingInv, inBlocks

LEMMA SqueezeInv ==
    ASSUME SpongeInv, NEW n \in 1 .. Rate + 1, Squeeze(n)
    PROVE  SpongeInv'
<1> DEFINE r == Out(ctx, n)
<1>1. n \in Nat
  BY RateAssumption
<1>2. /\ ctx \in Ctx /\ fed \in Seq(Symbols) /\ ctx.finalized /\ ctx.initialized
      /\ Len(ctx.buffer) = Rate /\ Streams(ctx, read, Blocks(fed))
  BY DEF SpongeInv, ReadingInv, Squeeze
<1>3. ctx' = r.ctx /\ read' = read \o r.out /\ fed' = fed
  BY DEF Squeeze
<1>4. /\ r \in Squeezing /\ Streams(r.ctx, read \o r.out, Blocks(fed))
      /\ r.ctx.initialized = ctx.initialized /\ r.ctx.finalized = ctx.finalized
      /\ r.ctx.buffer = ctx.buffer
  BY <1>1, <1>2, OutStreams
<1> HIDE DEF r
<1>5. r.ctx \in Ctx
  BY <1>4 DEF Squeezing
<1> QED
  BY <1>2, <1>3, <1>4, <1>5 DEF SpongeInv, FeedingInv, ReadingInv

LEMMA SpongeStepInv == SpongeInv /\ [ShakeNext]_shakeVars => SpongeInv'
<1> SUFFICES ASSUME SpongeInv, [ShakeNext]_shakeVars PROVE SpongeInv'
  OBVIOUS
<1>1. CASE Begun
  BY <1>1, FreshInv DEF Begun, SpongeInv, FeedingInv, ReadingInv
<1>2. ASSUME NEW data \in Chunks, Update(data) PROVE SpongeInv'
  BY <1>2, UpdateInv
<1>3. CASE Final
  BY <1>3, FinalInv
<1>4. ASSUME NEW n \in 1 .. Rate + 1, Squeeze(n) PROVE SpongeInv'
  BY <1>4, SqueezeInv
<1>5. CASE Cleanup
  BY <1>5, FreshInv DEF Cleanup, SpongeInv, FeedingInv, ReadingInv
<1>6. CASE UNCHANGED shakeVars
  BY <1>6 DEF shakeVars, SpongeInv, FeedingInv, ReadingInv
<1> QED
  BY <1>1, <1>2, <1>3, <1>4, <1>5, <1>6 DEF ShakeNext

LEMMA SpongeInvIsHash == SpongeInv => HashIsOfTheMessage
<1> SUFFICES ASSUME SpongeInv PROVE HashIsOfTheMessage
  OBVIOUS
<1>1. ctx \in Ctx /\ Rate \in Nat /\ Rate > 0
  BY RateAssumption DEF SpongeInv
<1>2. CASE ctx.finalized
  <2>1. ctx.initialized /\ Len(ctx.buffer) = Rate /\ Streams(ctx, read, Blocks(fed))
    BY <1>2 DEF SpongeInv, ReadingInv
  <2>2. ShakeTypeOK
    BY <1>1, <1>2, <2>1 DEF ShakeTypeOK, Streams, Ctx
  <2>3. AbsorbsTheMessage
    BY <2>1 DEF AbsorbsTheMessage, Streams
  <2>4. SqueezesOneStream
    BY <2>1 DEF SqueezesOneStream, Streams
  <2> QED BY <2>2, <2>3, <2>4 DEF HashIsOfTheMessage
<1>3. CASE ~ctx.finalized
  <2>1. Len(ctx.buffer) < Rate /\ read = <<>> /\ ctx.squeeze_offset = 0
    BY <1>3 DEF SpongeInv, FeedingInv, Holds
  <2>2. Len(ctx.buffer) \in Nat
    BY <1>1 DEF Ctx
  <2>3. ShakeTypeOK
    BY <1>1, <1>3, <2>1, <2>2 DEF ShakeTypeOK
  <2>4. SqueezesOneStream
    BY <2>1 DEF SqueezesOneStream
  <2> QED BY <1>3, <2>3, <2>4 DEF HashIsOfTheMessage, AbsorbsTheMessage
<1> QED
  BY <1>2, <1>3

\* For every rate, every message and every way of cutting the message into calls of
\* update and the output into calls of squeeze, a hash is the one of the message.
THEOREM HashIsAlwaysOfTheMessage == ShakeSpec => []HashIsOfTheMessage
<1>1. ShakeInit => SpongeInv
  BY SpongeInitInv
<1>2. SpongeInv /\ [ShakeNext]_shakeVars => SpongeInv'
  BY SpongeStepInv
<1>3. SpongeInv => HashIsOfTheMessage
  BY SpongeInvIsHash
<1> QED
  BY <1>1, <1>2, <1>3, PTL DEF ShakeSpec

-----------------------------------------------------------------------------
\* A loop has copied something after each element.
LEMMA ChosenRuns ==
    ASSUME NEW E, NEW seq \in Seq(E), NEW set
    PROVE  \E path : /\ path[0] = <<>> /\ Chosen(seq, set) = path[Len(seq)]
                     /\ \A k \in 0 .. Len(seq)-1 :
                            path[k + 1] = IF seq[k + 1] \in set THEN Append(path[k], seq[k + 1])
                                          ELSE path[k]
<1> DEFINE n == Len(seq)
           V == Seq(E)
           op(v, x) == IF x \in set THEN Append(v, x) ELSE v
           step == [p \in V \X (1 .. n) |-> op(p[1], seq[p[2]])]
           Iter(g) == g = [s \in SUBSET (1 .. n) |->
                            IF s = {} THEN <<>> ELSE op(g[s \ {Max(s)}], seq[Max(s)])]
<1>1. n \in Nat /\ DOMAIN seq = 1 .. n /\ \A i \in 1 .. n : seq[i] \in E
  OBVIOUS
<1>2. \A v \in V, x \in E : op(v, x) \in V
  OBVIOUS
<1>3. <<>> \in V
  OBVIOUS
<1> HIDE DEF n, V
<1>4. step \in [V \X (1 .. n) -> V]
  <2> HIDE DEF op
  <2> QED BY <1>1, <1>2
<1>5. PICK h : Iterates(h, step, <<>>, 1 .. n) /\ \A s \in SUBSET (1 .. n) : h[s] \in V
  <2> HIDE DEF step
  <2> QED BY <1>1, <1>3, <1>4, FoldExists
<1>6. Iter(h)
  <2> HIDE DEF op
  <2>1. ASSUME NEW s \in SUBSET (1 .. n), s # {}
        PROVE  h[s] = op(h[s \ {Max(s)}], seq[Max(s)])
    <3>1. Max(s) \in 1 .. n /\ h[s \ {Max(s)}] \in V
      BY <1>1, <1>5, <2>1, MaxIsIn
    <3>2. h[s] = step[<<h[s \ {Max(s)}], Max(s)>>]
      BY <1>5, <2>1 DEF Iterates
    <3> QED BY <3>1, <3>2
  <2>2. h[{}] = <<>> /\ h = [s \in SUBSET (1 .. n) |-> h[s]]
    BY <1>5 DEF Iterates
  <2> QED BY <2>1, <2>2
<1> DEFINE g == CHOOSE g : Iter(g)
<1>7. Iter(g)
  <2> HIDE DEF Iter
  <2> QED BY <1>6
<1>8. Chosen(seq, set) = g[1 .. n]
  <2>1. Chosen(seq, set) = g[DOMAIN seq]
    BY <1>1, Zenon DEF Chosen, FoldLeft, MapThenFoldSet
  <2> QED BY <1>1, <2>1
<1> HIDE DEF g, op
<1> DEFINE path == [k \in 0 .. n |-> g[1 .. k]]
<1>9. path[0] = <<>>
  BY <1>1, <1>7
<1>10. path[n] = g[1 .. n]
  BY <1>1
<1>11. ASSUME NEW k \in 0 .. n-1 PROVE path[k + 1] = op(path[k], seq[k + 1])
  <2>1. k \in 0 .. n /\ k + 1 \in 0 .. n /\ k + 1 \in Nat /\ k + 1 # 0
    BY <1>1
  <2>2. 1 .. k+1 \in SUBSET (1 .. n) /\ 1 .. k+1 # {} /\ (1 .. k+1) \ {k + 1} = 1 .. k
    BY <1>1, FirstPlaces
  <2>3. Max(1 .. k+1) = k + 1
    BY <2>1, MaxOfFirst
  <2>4. g[1 .. k+1] = op(g[(1 .. k+1) \ {Max(1 .. k+1)}], seq[Max(1 .. k+1)])
    BY <1>7, <2>2
  <2> QED BY <2>1, <2>2, <2>3, <2>4
<1> HIDE DEF path
<1> QED
  BY <1>8, <1>9, <1>10, <1>11 DEF n, op

\* What is chosen: nothing but what is in both, in order, each as often as it was.
LEMMA ChosenIs ==
    ASSUME NEW E, NEW seq \in Seq(E), NEW set
    PROVE  /\ Chosen(seq, set) \in Seq(E)
           /\ ToSet(Chosen(seq, set)) = ToSet(seq) \cap set
           /\ IsInjective(seq) => IsInjective(Chosen(seq, set))
           /\ ToSet(seq) \subseteq set => Chosen(seq, set) = seq
<1> DEFINE n == Len(seq)
           first(k) == {seq[i] : i \in 1 .. k}
           Good(k, s) == /\ s \in Seq(E)
                         /\ ToSet(s) = first(k) \cap set
                         /\ IsInjective(seq) => IsInjective(s)
                         /\ first(k) \subseteq set =>
                                Len(s) = k /\ \A i \in 1 .. k : s[i] = seq[i]
<1>1. PICK path : /\ path[0] = <<>> /\ Chosen(seq, set) = path[n]
                  /\ \A k \in 0 .. n-1 :
                        path[k + 1] = IF seq[k + 1] \in set THEN Append(path[k], seq[k + 1])
                                      ELSE path[k]
  BY ChosenRuns
<1> DEFINE T == {k \in 0 .. n : Good(k, path[k])}
<1>2. n \in Nat /\ DOMAIN seq = 1 .. n /\ \A i \in 1 .. n : seq[i] \in E
  OBVIOUS
<1> HIDE DEF n
<1>3. Good(0, <<>>)
  BY DEF ToSet, IsInjective
<1>4. 0 \in T
  <2> HIDE DEF Good
  <2>1. 0 \in 0 .. n
    BY <1>2
  <2> QED BY <1>1, <1>3, <2>1
<1>5. ASSUME NEW k \in 0 .. n-1, k \in T PROVE k + 1 \in T
  <2> DEFINE s == path[k]
             x == seq[k + 1]
             s2 == path[k + 1]
  <2>1. k + 1 \in 1 .. n /\ k \in Nat /\ Good(k, s) /\ x \in E
    BY <1>2, <1>5
  <2>2. s2 = IF x \in set THEN Append(s, x) ELSE s
    BY <1>1
  <2> HIDE DEF s, s2
  <2>3. first(k + 1) = first(k) \cup {x}
    BY <2>1
  <2>4. s \in Seq(E) /\ Len(s) \in Nat /\ DOMAIN s = 1 .. Len(s)
    BY <2>1
  <2>5. CASE x \in set
    <3>1. /\ s2 \in Seq(E) /\ Len(s2) = Len(s) + 1 /\ DOMAIN s2 = 1 .. Len(s) + 1
          /\ s2[Len(s) + 1] = x /\ \A i \in 1 .. Len(s) : s2[i] = s[i]
      <4>1. s2 = Append(s, x) /\ x \in E
        BY <2>1, <2>2, <2>5
      <4> HIDE DEF x, first
      <4> QED BY <2>4, <4>1
    <3>2. ToSet(s2) = ToSet(s) \cup {x}
      BY <2>4, <3>1 DEF ToSet
    <3>3. ToSet(s2) = first(k + 1) \cap set
      <4> HIDE DEF first, x
      <4> QED BY <2>1, <2>3, <2>5, <3>2
    <3>4. ASSUME IsInjective(seq) PROVE IsInjective(s2)
      <4>1. x \notin first(k)
        BY <1>2, <2>1, <3>4 DEF IsInjective
      <4>2. x \notin ToSet(s) /\ IsInjective(s)
        BY <2>1, <3>4, <4>1
      <4>3. \A i \in 1 .. Len(s) : s[i] # x
        BY <2>4, <4>2 DEF ToSet
      <4> HIDE DEF x
      <4>4. ASSUME NEW i \in 1 .. Len(s) + 1, NEW j \in 1 .. Len(s) + 1, s2[i] = s2[j] PROVE i = j
        BY <2>4, <3>1, <4>2, <4>3, <4>4 DEF IsInjective
      <4> QED BY <3>1, <4>4 DEF IsInjective
    <3>5. ASSUME first(k + 1) \subseteq set
          PROVE  Len(s2) = k + 1 /\ \A i \in 1 .. k + 1 : s2[i] = seq[i]
      <4>1. Len(s) = k /\ \A i \in 1 .. k : s[i] = seq[i]
        BY <2>1, <2>3, <3>5
      <4>2. s2[k + 1] = seq[k + 1]
        BY <3>1, <4>1
      <4>3. ASSUME NEW i \in 1 .. k + 1 PROVE i \in 1 .. k \/ i = k + 1
        BY <2>1
      <4> HIDE DEF first, x
      <4>4. ASSUME NEW i \in 1 .. k + 1 PROVE s2[i] = seq[i]
        BY <3>1, <4>1, <4>2, <4>3
      <4> QED BY <3>1, <4>1, <4>4
    <3> HIDE DEF first
    <3> QED BY <2>1, <3>1, <3>3, <3>4, <3>5 DEF s2
  <2>6. CASE x \notin set
    <3>1. s2 = s
      BY <2>2, <2>6
    <3>2. ~(first(k + 1) \subseteq set)
      BY <2>3, <2>6
    <3>3. first(k + 1) \cap set = first(k) \cap set
      BY <2>3, <2>6
    <3> HIDE DEF first
    <3> QED BY <2>1, <3>1, <3>2, <3>3 DEF s2
  <2> QED BY <2>5, <2>6
<1>6. n \in T
  <2> HIDE DEF T
  <2>1. \A k \in 0 .. n : k \in T
    BY <1>2, <1>4, <1>5, CountUp
  <2> QED BY <1>2, <2>1
<1> DEFINE c == Chosen(seq, set)
<1>7. Good(n, c)
  BY <1>1, <1>6
<1>8. first(n) = ToSet(seq)
  BY <1>2 DEF ToSet
<1> HIDE DEF first, c
<1>9. ASSUME ToSet(seq) \subseteq set PROVE c = seq
  <2>1. c \in Seq(E) /\ Len(c) = n /\ \A i \in 1 .. n : c[i] = seq[i]
    BY <1>7, <1>8, <1>9
  <2>2. c = [i \in 1 .. n |-> c[i]] /\ seq = [i \in 1 .. n |-> seq[i]]
    BY <2>1 DEF n
  <2> QED BY <2>1, <2>2
<1> QED
  BY <1>7, <1>8, <1>9 DEF c

-----------------------------------------------------------------------------
(* Token units. *)

\* All the recipients' lists, one after the other.
Named(lists) == FoldLeft(\o, <<>>, lists)

LEMMA NamedRuns ==
    ASSUME NEW E, NEW lists \in Seq(Seq(E))
    PROVE  \E path : /\ path[0] = <<>> /\ Named(lists) = path[Len(lists)]
                     /\ \A k \in 0 .. Len(lists)-1 : path[k + 1] = path[k] \o lists[k + 1]
<1> DEFINE n == Len(lists)
           V == Seq(E)
           step == [p \in V \X (1 .. n) |-> p[1] \o lists[p[2]]]
           Iter(g) == g = [s \in SUBSET (1 .. n) |->
                            IF s = {} THEN <<>> ELSE g[s \ {Max(s)}] \o lists[Max(s)]]
<1>1. n \in Nat /\ DOMAIN lists = 1 .. n /\ \A i \in 1 .. n : lists[i] \in V
  OBVIOUS
<1>2. \A v, w \in V : v \o w \in V
  OBVIOUS
<1>3. <<>> \in V
  OBVIOUS
<1> HIDE DEF n, V
<1>4. step \in [V \X (1 .. n) -> V]
  BY <1>1, <1>2
<1>5. PICK h : Iterates(h, step, <<>>, 1 .. n) /\ \A s \in SUBSET (1 .. n) : h[s] \in V
  <2> HIDE DEF step
  <2> QED BY <1>1, <1>3, <1>4, FoldExists
<1>6. Iter(h)
  <2>1. ASSUME NEW s \in SUBSET (1 .. n), s # {}
        PROVE  h[s] = h[s \ {Max(s)}] \o lists[Max(s)]
    <3>1. Max(s) \in 1 .. n /\ h[s \ {Max(s)}] \in V
      BY <1>1, <1>5, <2>1, MaxIsIn
    <3>2. h[s] = step[<<h[s \ {Max(s)}], Max(s)>>]
      BY <1>5, <2>1 DEF Iterates
    <3> QED BY <3>1, <3>2
  <2>2. h[{}] = <<>> /\ h = [s \in SUBSET (1 .. n) |-> h[s]]
    BY <1>5 DEF Iterates
  <2> QED BY <2>1, <2>2
<1> DEFINE g == CHOOSE g : Iter(g)
<1>7. Iter(g)
  <2> HIDE DEF Iter
  <2> QED BY <1>6
<1>8. Named(lists) = g[1 .. n]
  <2>1. Named(lists) = g[DOMAIN lists]
    BY <1>1, Zenon DEF Named, FoldLeft, MapThenFoldSet
  <2> QED BY <1>1, <2>1
<1> HIDE DEF g
<1> DEFINE path == [k \in 0 .. n |-> g[1 .. k]]
<1>9. path[0] = <<>>
  BY <1>1, <1>7
<1>10. path[n] = g[1 .. n]
  BY <1>1
<1>11. ASSUME NEW k \in 0 .. n-1 PROVE path[k + 1] = path[k] \o lists[k + 1]
  <2>1. k \in 0 .. n /\ k + 1 \in 0 .. n /\ k + 1 \in Nat /\ k + 1 # 0
    BY <1>1
  <2>2. 1 .. k+1 \in SUBSET (1 .. n) /\ 1 .. k+1 # {} /\ (1 .. k+1) \ {k + 1} = 1 .. k
    BY <1>1, FirstPlaces
  <2>3. Max(1 .. k+1) = k + 1
    BY <2>1, MaxOfFirst
  <2>4. g[1 .. k+1] = g[(1 .. k+1) \ {Max(1 .. k+1)}] \o lists[Max(1 .. k+1)]
    BY <1>7, <2>2
  <2> QED BY <2>1, <2>2, <2>3, <2>4
<1> HIDE DEF path
<1> QED
  BY <1>8, <1>9, <1>10, <1>11 DEF n

LEMMA ToSetJoined ==
    ASSUME NEW E, NEW s \in Seq(E), NEW t \in Seq(E)
    PROVE  ToSet(s \o t) = ToSet(s) \cup ToSet(t)
<1>1. /\ s \o t \in Seq(E) /\ DOMAIN (s \o t) = 1 .. Len(s) + Len(t)
      /\ \A i \in 1 .. Len(s) + Len(t) :
            (s \o t)[i] = IF i <= Len(s) THEN s[i] ELSE t[i - Len(s)]
  OBVIOUS
<1>2. DOMAIN s = 1 .. Len(s) /\ DOMAIN t = 1 .. Len(t) /\ Len(s) \in Nat /\ Len(t) \in Nat
  OBVIOUS
<1>3. \A i \in 1 .. Len(t) : Len(s) + i \in 1 .. Len(s) + Len(t) /\ (s \o t)[Len(s) + i] = t[i]
  BY <1>1, <1>2
<1>4. \A i \in 1 .. Len(s) : i \in 1 .. Len(s) + Len(t) /\ (s \o t)[i] = s[i]
  BY <1>1, <1>2
<1>5. ASSUME NEW i \in 1 .. Len(s) + Len(t) PROVE (s \o t)[i] \in ToSet(s) \cup ToSet(t)
  <2>1. CASE i <= Len(s)
    BY <1>1, <1>2, <2>1 DEF ToSet
  <2>2. CASE ~(i <= Len(s))
    <3>1. i - Len(s) \in 1 .. Len(t)
      BY <1>2, <2>2
    <3> QED BY <1>1, <1>2, <2>2, <3>1 DEF ToSet
  <2> QED BY <2>1, <2>2
<1> DEFINE j == s \o t
<1>6. DOMAIN j = 1 .. Len(s) + Len(t)
  BY <1>1
<1> HIDE DEF j
<1>7. \A i \in DOMAIN j : j[i] \in ToSet(s) \cup ToSet(t)
  BY <1>5, <1>6 DEF j
<1>8. \A i \in DOMAIN s : s[i] \in ToSet(j)
  BY <1>2, <1>4, <1>6 DEF ToSet, j
<1>9. \A i \in DOMAIN t : t[i] \in ToSet(j)
  <2> TAKE i \in DOMAIN t
  <2>1. Len(s) + i \in DOMAIN j /\ j[Len(s) + i] = t[i]
    BY <1>2, <1>3, <1>6 DEF j
  <2> QED BY <2>1 DEF ToSet
<1>10. ToSet(j) = ToSet(s) \cup ToSet(t)
  BY <1>7, <1>8, <1>9 DEF ToSet
<1> QED
  BY <1>10 DEF j

LEMMA NamedIs ==
    ASSUME NEW E, NEW lists \in Seq(Seq(E))
    PROVE  /\ Named(lists) \in Seq(E)
           /\ ToSet(Named(lists)) = UNION {ToSet(lists[r]) : r \in DOMAIN lists}
<1> DEFINE n == Len(lists)
           first(k) == UNION {ToSet(lists[r]) : r \in 1 .. k}
           Good(k, s) == s \in Seq(E) /\ ToSet(s) = first(k)
<1>1. PICK path : /\ path[0] = <<>> /\ Named(lists) = path[n]
                  /\ \A k \in 0 .. n-1 : path[k + 1] = path[k] \o lists[k + 1]
  BY NamedRuns
<1> DEFINE T == {k \in 0 .. n : Good(k, path[k])}
<1>2. n \in Nat /\ DOMAIN lists = 1 .. n /\ \A i \in 1 .. n : lists[i] \in Seq(E)
  OBVIOUS
<1> HIDE DEF n
<1>3. 0 \in T
  <2>1. 0 \in 0 .. n
    BY <1>2
  <2>2. Good(0, <<>>)
    BY DEF ToSet
  <2> HIDE DEF Good
  <2> QED BY <1>1, <2>1, <2>2
<1>4. ASSUME NEW k \in 0 .. n-1, k \in T PROVE k + 1 \in T
  <2>1. k + 1 \in 1 .. n /\ k + 1 \in 0 .. n /\ Good(k, path[k]) /\ lists[k + 1] \in Seq(E)
    BY <1>2, <1>4
  <2>2. path[k + 1] = path[k] \o lists[k + 1]
    BY <1>1
  <2>3. first(k + 1) = first(k) \cup ToSet(lists[k + 1])
    <3>1. 1 .. k+1 = (1 .. k) \cup {k + 1}
      OBVIOUS
    <3> QED BY <3>1
  <2>4. path[k + 1] \in Seq(E)
    BY <2>1, <2>2
  <2>5. ToSet(path[k + 1]) = ToSet(path[k]) \cup ToSet(lists[k + 1])
    BY <2>1, <2>2, ToSetJoined
  <2> HIDE DEF first
  <2> QED BY <2>1, <2>3, <2>4, <2>5
<1>5. n \in T
  <2> HIDE DEF T
  <2>1. \A k \in 0 .. n : k \in T
    BY <1>2, <1>3, <1>4, CountUp
  <2> QED BY <1>2, <2>1
<1> QED
  BY <1>1, <1>2, <1>5

\* Who is sent something, and what is kept.
LEMMA SentAndKept ==
    ASSUME NEW units \in Seq(Units), IsInjective(units), NEW asked \in Seq(Units)
    PROVE  /\ Sent(units, asked) \in Seq(Units) /\ Kept(units, asked) \in Seq(Units)
           /\ ToSet(Sent(units, asked)) = ToSet(units) \cap ToSet(asked)
           /\ ToSet(Kept(units, asked)) = ToSet(units) \ ToSet(asked)
           /\ IsInjective(Sent(units, asked))
BY ChosenIs DEF Sent, Kept

LEMMA NobodyIsSent ==
    ToSet(<<>>) = {} /\ IsInjective(<<>>)
BY DEF ToSet, IsInjective

\* d is units dealt out: to recipient r those of lists[r], or none where memory failed.
Deals(d, units, lists) ==
    /\ DOMAIN d.recipients \subseteq DOMAIN lists
    /\ \A r \in DOMAIN d.recipients :
        IsInjective(d.recipients[r]) /\ ToSet(d.recipients[r]) \subseteq ToSet(lists[r])
    /\ (\E r \in DOMAIN lists : lists[r] # <<>>) =>
        /\ ToSet(d.source) \cup ToSet(d.remainder) = ToSet(units)
        /\ ToSet(d.source) \cap ToSet(d.remainder) = {}

Whole(d) == d.ok => UNION {ToSet(d.recipients[r]) : r \in DOMAIN d.recipients} = ToSet(d.source)

LEMMA SplitUnitsDeals ==
    ASSUME NEW units \in Seq(Units), IsInjective(units), NEW asked \in Seq(Units),
           NEW to \in {0, 1}, NEW fault \in Nat
    PROVE  LET d == SplitUnits(units, asked, to, fault) IN
           Deals(d, units, <<asked>>) /\ (asked # <<>> /\ to = 1 => Whole(d))
<1> DEFINE d == SplitUnits(units, asked, to, fault)
           sent == Sent(units, asked)
           kept == Kept(units, asked)
<1>1. /\ DOMAIN <<asked>> = {1} /\ <<asked>>[1] = asked
      /\ 1 .. to \subseteq {1} /\ (to = 1 => 1 .. to = {1})
  OBVIOUS
<1>2. /\ ToSet(sent) = ToSet(units) \cap ToSet(asked) /\ ToSet(kept) = ToSet(units) \ ToSet(asked)
      /\ IsInjective(sent) /\ ToSet(<<>>) = {} /\ IsInjective(<<>>)
  BY SentAndKept, NobodyIsSent
<1>3. CASE asked = <<>>
  <2>1. d = [ok |-> TRUE, source |-> units, remainder |-> <<>>,
             recipients |-> [r \in 1..to |-> <<>>]]
    BY <1>3, Zenon DEF SplitUnits
  <2> HIDE DEF d
  <2> QED BY <1>1, <1>2, <1>3, <2>1 DEF Deals, d
<1>4. CASE asked # <<>> /\ fault > 0
  <2>1. d = [ok |-> FALSE, source |-> units, remainder |-> <<>>,
             recipients |-> [r \in 1..to |-> <<>>]]
    BY <1>4, Zenon DEF SplitUnits
  <2> HIDE DEF d
  <2> QED BY <1>1, <1>2, <1>4, <2>1 DEF Deals, Whole, d
<1>5. CASE asked # <<>> /\ ~(fault > 0)
  <2>1. d = [ok |-> TRUE, source |-> sent, remainder |-> kept,
             recipients |-> [r \in 1..to |-> sent]]
    BY <1>5, Zenon DEF SplitUnits
  <2> HIDE DEF d, sent, kept
  <2>2. Deals(d, units, <<asked>>)
    BY <1>1, <1>2, <1>5, <2>1 DEF Deals
  <2>3. to = 1 => Whole(d)
    BY <1>1, <2>1 DEF Whole
  <2> QED BY <2>2, <2>3 DEF d
<1> QED
  BY <1>3, <1>4, <1>5

LEMMA SplitUnitsMultiDeals ==
    ASSUME NEW units \in Seq(Units), IsInjective(units), NEW lists \in Seq(Seq(Units)),
           NEW fault \in Nat
    PROVE  LET d == SplitUnitsMulti(units, lists, fault) IN
           Deals(d, units, lists) /\ ((\E r \in DOMAIN lists : lists[r] # <<>>) => Whole(d))
<1> DEFINE d == SplitUnitsMulti(units, lists, fault)
           n == Len(lists)
           named == Named(lists)
           to(r) == Sent(units, lists[r])
<1>1. n \in Nat /\ DOMAIN lists = 1 .. n /\ \A r \in 1 .. n : lists[r] \in Seq(Units)
  OBVIOUS
<1> HIDE DEF n
<1>2. named \in Seq(Units) /\ ToSet(named) = UNION {ToSet(lists[r]) : r \in 1 .. n}
  BY <1>1, NamedIs
<1> HIDE DEF named
<1>3. \A r \in 1 .. n : ToSet(to(r)) = ToSet(units) \cap ToSet(lists[r]) /\ IsInjective(to(r))
  BY <1>1, SentAndKept
<1> HIDE DEF to
<1>4. /\ ToSet(Sent(units, named)) = ToSet(units) \cap ToSet(named)
      /\ ToSet(Kept(units, named)) = ToSet(units) \ ToSet(named)
      /\ ToSet(<<>>) = {} /\ IsInjective(<<>>)
  BY <1>2, SentAndKept, NobodyIsSent
<1>5. CASE named = <<>>
  <2>1. d = [ok |-> TRUE, source |-> units, remainder |-> <<>>,
             recipients |-> [r \in 1..n |-> <<>>]]
    BY <1>5, Zenon DEF SplitUnitsMulti, n, named, Named
  <2>2. \A r \in 1 .. n : lists[r] = <<>>
    <3> TAKE r \in 1 .. n
    <3>1. ToSet(lists[r]) = {}
      BY <1>2, <1>4, <1>5
    <3> DEFINE l == lists[r]
    <3>2. DOMAIN l = {} /\ l \in Seq(Units)
      BY <1>1, <3>1 DEF ToSet
    <3> HIDE DEF l
    <3>3. Len(l) \in Nat /\ DOMAIN l = 1 .. Len(l)
      BY <3>2
    <3>4. Len(l) = 0
      BY <3>2, <3>3
    <3>5. l = <<>>
      BY <3>2, <3>4
    <3> QED BY <3>5 DEF l
  <2> HIDE DEF d
  <2> QED BY <1>1, <1>4, <2>1, <2>2 DEF Deals, d
<1>6. CASE named # <<>> /\ fault > 0
  <2>1. d = [ok |-> FALSE, source |-> units, remainder |-> <<>>,
             recipients |-> [r \in 1..n |-> IF r < fault THEN to(r) ELSE <<>>]]
    BY <1>6, Zenon DEF SplitUnitsMulti, n, named, Named, to
  <2> HIDE DEF d
  <2>2. /\ d.source = units /\ d.remainder = <<>> /\ ~d.ok /\ DOMAIN d.recipients = 1 .. n
        /\ \A r \in 1 .. n : d.recipients[r] = to(r) \/ d.recipients[r] = <<>>
    BY <2>1
  <2>3. \A r \in 1 .. n : IsInjective(d.recipients[r]) /\ ToSet(d.recipients[r]) \subseteq ToSet(lists[r])
    BY <1>3, <1>4, <2>2
  <2> QED BY <1>1, <1>4, <2>2, <2>3 DEF Deals, Whole, d
<1>7. CASE named # <<>> /\ ~(fault > 0)
  <2>1. d = [ok |-> TRUE, source |-> Sent(units, named), remainder |-> Kept(units, named),
             recipients |-> [r \in 1..n |-> to(r)]]
    BY <1>7, Zenon DEF SplitUnitsMulti, n, named, Named, to
  <2> HIDE DEF d
  <2>2. /\ d.source = Sent(units, named) /\ d.remainder = Kept(units, named)
        /\ DOMAIN d.recipients = 1 .. n /\ \A r \in 1 .. n : d.recipients[r] = to(r)
    BY <2>1
  <2>3. \A r \in 1 .. n : IsInjective(d.recipients[r]) /\ ToSet(d.recipients[r]) \subseteq ToSet(lists[r])
    BY <1>3, <2>2
  <2>4. UNION {ToSet(d.recipients[r]) : r \in 1 .. n} = ToSet(units) \cap ToSet(named)
    BY <1>2, <1>3, <2>2
  <2>5. Whole(d)
    BY <1>4, <2>2, <2>4 DEF Whole
  <2> QED BY <1>1, <1>4, <2>2, <2>3, <2>5 DEF Deals, d
<1> QED
  BY <1>5, <1>6, <1>7

\* A call of the model, with what came of it.
Deal(units, lists, fault, fn) ==
    [fn |-> fn, units |-> units, lists |-> lists,
     dealt |-> IF fn = "deal" THEN Dealt(units, lists, fault)
               ELSE Burnt(units, lists[1], fault)]

UnitsInv ==
    \/ call = NoCall
    \/ \E units \in SomeUnits, lists \in UNION {[1..n -> SomeUnits] : n \in 1..2},
          fault \in 0..3, fn \in {"deal", "burn"} :
        (fn = "burn" => Len(lists) = 1) /\ call = Deal(units, lists, fault, fn)

LEMMA UnitsStepInv == UnitsInv /\ [DealUnits \/ Return]_call => UnitsInv'
<1> SUFFICES ASSUME UnitsInv, [DealUnits \/ Return]_call PROVE UnitsInv'
  OBVIOUS
<1>1. CASE DealUnits
  BY <1>1, Zenon DEF DealUnits, Made, UnitsInv, Deal
<1>2. CASE Return
  BY <1>2 DEF Return, UnitsInv
<1>3. CASE UNCHANGED call
  BY <1>3 DEF UnitsInv
<1> QED
  BY <1>1, <1>2, <1>3

LEMMA SomeUnitsAre ==
    ASSUME NEW units \in SomeUnits
    PROVE  units \in Seq(Units) /\ IsInjective(units)
<1>1. PICK n \in 0..MaxUnits : units \in [1..n -> Units]
  BY DEF SomeUnits
<1> QED
  BY <1>1 DEF SomeUnits

LEMMA DealIsOnce ==
    ASSUME UnitsInv
    PROVE  UnitsDealtOnce
<1>1. CASE call = NoCall
  <2>1. call.fn = "none"
    BY <1>1 DEF NoCall
  <2> QED BY <2>1 DEF UnitsDealtOnce, UnitsPartitioned, UnitsGoOnce, Dealing
<1>2. ASSUME NEW units \in SomeUnits, NEW n \in 1..2, NEW lists \in [1..n -> SomeUnits],
             NEW fault \in 0..3, NEW fn \in {"deal", "burn"},
             fn = "burn" => Len(lists) = 1, call = Deal(units, lists, fault, fn)
      PROVE  UnitsDealtOnce
  <2> DEFINE d == call.dealt
  <2>1. /\ units \in Seq(Units) /\ IsInjective(units)
        /\ lists \in Seq(Seq(Units)) /\ DOMAIN lists = 1 .. n /\ Len(lists) = n
    BY SomeUnitsAre
  <2>2. /\ call.fn = fn /\ call.units = units /\ call.lists = lists
        /\ d = IF fn = "deal" THEN Dealt(units, lists, fault) ELSE Burnt(units, lists[1], fault)
    BY <1>2 DEF Deal
  <2>3. Deals(d, units, lists) /\ (fn = "deal" /\ (\E r \in DOMAIN lists : lists[r] # <<>>) => Whole(d))
    <3>1. fault \in Nat
      OBVIOUS
    <3>2. CASE n = 1
      <4>1. lists = <<lists[1]>> /\ lists[1] \in Seq(Units) /\ DOMAIN lists = {1}
        <5>1. DOMAIN lists = {1} /\ DOMAIN <<lists[1]>> = {1} /\ <<lists[1]>>[1] = lists[1]
          BY <2>1, <3>2
        <5>2. lists[1] \in SomeUnits /\ lists[1] \in Seq(Units)
          BY <3>2, SomeUnitsAre
        <5>3. lists = [r \in {1} |-> lists[r]] /\ <<lists[1]>> = [r \in {1} |-> <<lists[1]>>[r]]
          BY <2>1, <5>1, <3>2
        <5> QED BY <5>1, <5>2, <5>3
      <4>2. d = SplitUnits(units, lists[1], IF fn = "deal" THEN 1 ELSE 0, fault)
        BY <2>1, <2>2, <3>2 DEF Dealt, Burnt
      <4> HIDE DEF d
      <4>3. CASE fn = "deal"
        <5>1. d = SplitUnits(units, lists[1], 1, fault)
          BY <4>2, <4>3
        <5> QED BY <2>1, <3>1, <4>1, <5>1, SplitUnitsDeals
      <4>4. CASE fn = "burn"
        <5>1. d = SplitUnits(units, lists[1], 0, fault)
          BY <4>2, <4>4
        <5> QED BY <2>1, <3>1, <4>1, <4>4, <5>1, SplitUnitsDeals
      <4> QED BY <4>3, <4>4
    <3>3. CASE n # 1
      <4>1. d = SplitUnitsMulti(units, lists, fault)
        BY <1>2, <2>1, <2>2, <3>3 DEF Dealt
      <4> HIDE DEF d
      <4> QED BY <2>1, <3>1, <4>1, SplitUnitsMultiDeals
    <3> QED BY <3>2, <3>3
  <2> HIDE DEF d
  <2>4. UnitsPartitioned
    BY <2>2, <2>3 DEF UnitsPartitioned, Deals, Whole, d
  <2>5. UnitsGoOnce
    <3> SUFFICES ASSUME \A r, q \in DOMAIN lists : r # q => ToSet(lists[r]) \cap ToSet(lists[q]) = {}
                 PROVE  LET to == d.recipients IN
                        /\ \A r, q \in DOMAIN to : r # q => ToSet(to[r]) \cap ToSet(to[q]) = {}
                        /\ \A r \in DOMAIN to : IsInjective(to[r])
      BY <2>2 DEF UnitsGoOnce, d
    <3> QED BY <2>3 DEF Deals
  <2> QED BY <2>4, <2>5 DEF UnitsDealtOnce
<1> QED
  BY <1>1, <1>2, Zenon DEF UnitsInv

\* For any units and lists of any length, the units of a transfer or a burning are dealt
\* out whole, each to one, and when memory fails none is lost.
THEOREM UnitsAreAlwaysDealtOnce == UnitSpec => []UnitsDealtOnce
<1>1. call = NoCall => UnitsInv
  BY DEF UnitsInv
<1>2. UnitsInv /\ [DealUnits \/ Return]_call => UnitsInv'
  BY UnitsStepInv
<1>3. UnitsInv => UnitsDealtOnce
  BY DealIsOnce
<1> QED
  BY <1>1, <1>2, <1>3, PTL DEF UnitSpec

-----------------------------------------------------------------------------
\* A section once it is normalised, and a policy of such sections.
Normal == SectionsOf \cup {Missing}
PoliciesOf == [Sections -> Normal]

LEMMA DefaultIsAList == \A s, k : DefaultGrant(s, k) \in Lists /\ "all" \in DefaultGrant("read", k)
  BY DEF DefaultGrant, Lists

LEMMA NormalizedIs ==
    ASSUME NEW policy \in [Sections -> GivenSections]
    PROVE  NormalizedPolicy(policy) \in PoliciesOf
<1>1. NoKeys \in SectionsOf
  BY DEF NoKeys, SectionsOf
<1> QED
  BY <1>1 DEF NormalizedPolicy, PoliciesOf, Normal, GivenSections

LEMMA NormalizedStays ==
    ASSUME NEW policy \in PoliciesOf
    PROVE  NormalizedPolicy(policy) = policy
  BY PolicyAssumption DEF NormalizedPolicy, PoliciesOf, Normal

\* What defaults make of a section.
LEMMA FilledIs ==
    ASSUME NEW policy \in PoliciesOf, NEW metaKeys, NEW s \in Sections
    PROVE  LET section == IF policy[s] = Missing THEN NoKeys ELSE policy[s]
               filled  == Filled(policy, metaKeys)[s]
           IN /\ section \in SectionsOf /\ filled \in SectionsOf
              /\ section = NoKeys => filled = NoKeys
              /\ section # NoKeys => \A k \in PolicyKeys :
                    filled[k] = IF k \in metaKeys /\ section[k] = Missing
                                THEN DefaultGrant(s, k) ELSE section[k]
<1> DEFINE section == IF policy[s] = Missing THEN NoKeys ELSE policy[s]
           filled  == Filled(policy, metaKeys)[s]
<1>1. section \in SectionsOf
  BY DEF PoliciesOf, Normal, NoKeys, SectionsOf
<1>2. filled = [k \in PolicyKeys |->
                    IF section # NoKeys /\ k \in metaKeys /\ section[k] = Missing
                    THEN DefaultGrant(s, k) ELSE section[k]]
  BY DEF Filled
<1> HIDE DEF section, filled
<1>3. filled \in SectionsOf
  BY <1>1, <1>2, DefaultIsAList DEF SectionsOf, Grants
<1>4. section = NoKeys => filled = NoKeys
  BY <1>2 DEF NoKeys
<1> QED
  BY <1>1, <1>2, <1>3, <1>4 DEF section, filled

\* Where a section has a list it is asked, where it has none reading is free and
\* writing is not.
LEMMA AccessIs ==
    ASSUME NEW policy, NEW s \in Sections, NEW k, NEW who
    PROVE  /\ ~IsList(policy, s, k) => (Access(policy, s, k, who) <=> s = "read")
           /\ IsList(policy, s, k) /\ s = "read" =>
                (Access(policy, s, k, who) <=> policy[s][k] \cap {"all", who} # {})
           /\ IsList(policy, s, k) /\ s = "write" =>
                (Access(policy, s, k, who) <=> policy[s][k] \cap {"all", "self", who} # {})
           /\ Access(policy, s, k, who) \in BOOLEAN
<1>1. s \in {"read", "write"} /\ "read" # "write"
  BY DEF Sections
<1>2. CASE s = "read"
  BY <1>1, <1>2 DEF Access, ReadAccess
<1>3. CASE s = "write"
  BY <1>1, <1>3 DEF Access, WriteAccess
<1> QED
  BY <1>1, <1>2, <1>3

\* The defaults neither give nor take what was written.
LEMMA FilledKeepsAccess ==
    ASSUME NEW policy \in PoliciesOf, NEW metaKeys, NEW s \in Sections, NEW k \in PolicyKeys,
           NEW who
    PROVE  LET filled == Filled(policy, metaKeys)
               before == Access(policy, s, k, who)
               after  == Access(filled, s, k, who)
           IN /\ before => after
              /\ s = "read" \/ IsList(policy, s, k) => (before <=> after)
<1> DEFINE filled == Filled(policy, metaKeys)
           section == IF policy[s] = Missing THEN NoKeys ELSE policy[s]
<1>1. /\ section \in SectionsOf /\ filled[s] \in SectionsOf
      /\ section = NoKeys => filled[s] = NoKeys
      /\ section # NoKeys =>
            filled[s][k] = IF k \in metaKeys /\ section[k] = Missing
                           THEN DefaultGrant(s, k) ELSE section[k]
  BY FilledIs
<1>2. section[k] \in Grants \cup {Missing} /\ NoKeys[k] = Missing /\ filled[s] # Missing
  BY <1>1, PolicyAssumption DEF SectionsOf, NoKeys
<1>3. IsList(policy, s, k) <=> section[k] \notin {Missing, NotAList}
  BY <1>2 DEF IsList
<1>4. policy[s] # Missing => section = policy[s]
  OBVIOUS
<1> HIDE DEF section
<1>5. IsList(filled, s, k) <=> filled[s][k] \notin {Missing, NotAList}
  BY <1>2 DEF IsList
<1> HIDE DEF filled
<1>6. CASE filled[s][k] = section[k]
  <2>1. IsList(policy, s, k) <=> IsList(filled, s, k)
    BY <1>3, <1>5, <1>6
  <2>2. IsList(policy, s, k) => policy[s][k] = filled[s][k]
    BY <1>4, <1>6 DEF IsList
  <2>3. s = "read" \/ s = "write"
    BY DEF Sections
  <2> QED BY <2>1, <2>2, <2>3, AccessIs DEF filled
<1>7. CASE filled[s][k] # section[k]
  <2>1. section[k] = Missing /\ filled[s][k] = DefaultGrant(s, k) /\ DefaultGrant(s, k) \in Lists
    BY <1>1, <1>2, <1>7, DefaultIsAList
  <2>2. ~IsList(policy, s, k)
    BY <1>3, <2>1
  <2>3. IsList(filled, s, k)
    BY <1>5, <2>1, PolicyAssumption DEF Grants
  <2>4. CASE s = "read"
    <3>1. Access(policy, s, k, who)
      BY <2>2, <2>4, AccessIs
    <3>2. "all" \in filled[s][k]
      BY <2>1, <2>4, DefaultIsAList
    <3>3. Access(filled, s, k, who)
      BY <2>3, <2>4, <3>2, AccessIs
    <3> QED BY <3>1, <3>3 DEF filled
  <2>5. CASE s # "read"
    <3>1. ~Access(policy, s, k, who)
      BY <2>2, <2>5, AccessIs
    <3> QED BY <2>2, <2>5, <3>1
  <2> QED BY <2>4, <2>5
<1> QED
  BY <1>6, <1>7

\* Defaults filled in twice are those of once.
LEMMA FilledTwice ==
    ASSUME NEW policy \in PoliciesOf, NEW metaKeys
    PROVE  /\ Filled(policy, metaKeys) \in PoliciesOf
           /\ Filled(Filled(policy, metaKeys), metaKeys) = Filled(policy, metaKeys)
<1> DEFINE once == Filled(policy, metaKeys)
           twice == Filled(once, metaKeys)
<1>1. once \in PoliciesOf
  <2>1. once = [s \in Sections |-> once[s]]
    BY DEF Filled
  <2>2. \A s \in Sections : once[s] \in SectionsOf
    BY FilledIs
  <2> HIDE DEF once
  <2> QED BY <2>1, <2>2 DEF PoliciesOf, Normal
<1>2. ASSUME NEW s \in Sections PROVE twice[s] = once[s]
  <2> DEFINE first == IF policy[s] = Missing THEN NoKeys ELSE policy[s]
  <2>1. /\ once[s] \in SectionsOf
        /\ first = NoKeys => once[s] = NoKeys
        /\ first # NoKeys => \A k \in PolicyKeys :
              once[s][k] = IF k \in metaKeys /\ first[k] = Missing
                           THEN DefaultGrant(s, k) ELSE first[k]
    BY FilledIs
  <2>2. once[s] # Missing
    BY <2>1, PolicyAssumption
  <2> HIDE DEF once, first
  <2>3. /\ twice[s] \in SectionsOf
        /\ once[s] = NoKeys => twice[s] = NoKeys
        /\ once[s] # NoKeys => \A k \in PolicyKeys :
              twice[s][k] = IF k \in metaKeys /\ once[s][k] = Missing
                            THEN DefaultGrant(s, k) ELSE once[s][k]
    BY <1>1, <2>2, FilledIs
  <2> HIDE DEF twice
  <2>4. CASE once[s] = NoKeys
    BY <2>3, <2>4
  <2>5. CASE once[s] # NoKeys
    <3>1. ASSUME NEW k \in PolicyKeys PROVE twice[s][k] = once[s][k]
      <4>1. ~(k \in metaKeys /\ once[s][k] = Missing)
        BY <2>1, <2>5, DefaultIsAList, PolicyAssumption DEF Grants
      <4> QED BY <2>3, <2>5, <4>1
    <3> QED BY <2>1, <2>3, <3>1 DEF SectionsOf
  <2> QED BY <2>4, <2>5
<1>3. twice = [s \in Sections |-> twice[s]] /\ once = [s \in Sections |-> once[s]]
  BY DEF Filled
<1> HIDE DEF twice, once
<1>4. twice = once
  BY <1>2, <1>3
<1> QED
  BY <1>1, <1>4 DEF once, twice

\* Created twice is created once, and gives and takes nothing.
LEMMA CreatedKeepsAccess ==
    ASSUME NEW policy \in [Sections -> GivenSections], NEW metaKeys
    PROVE  LET before == NormalizedPolicy(policy)
               after  == CreatedPolicy(policy, metaKeys)
           IN /\ \A s \in Sections, k \in PolicyKeys, who \in Addresses :
                    /\ Access(before, s, k, who) => Access(after, s, k, who)
                    /\ s = "read" \/ IsList(before, s, k) =>
                        (Access(before, s, k, who) <=> Access(after, s, k, who))
              /\ CreatedPolicy(after, metaKeys) = after
<1> DEFINE before == NormalizedPolicy(policy)
           after  == CreatedPolicy(policy, metaKeys)
<1>1. before \in PoliciesOf /\ NormalizedPolicy(before) = before
  BY NormalizedIs, NormalizedStays
<1> HIDE DEF before
<1>2. CASE metaKeys = {}
  <2>1. after = before
    BY <1>2 DEF CreatedPolicy, before
  <2> HIDE DEF after
  <2>2. CreatedPolicy(after, metaKeys) = after
    BY <1>1, <1>2, <2>1 DEF CreatedPolicy
  <2> QED BY <2>1, <2>2 DEF after, before
<1>3. CASE metaKeys # {}
  <2>1. after = Filled(before, metaKeys)
    BY <1>3 DEF CreatedPolicy, before
  <2> HIDE DEF after
  <2>2. after \in PoliciesOf /\ Filled(after, metaKeys) = after
    BY <1>1, <2>1, FilledTwice
  <2>3. CreatedPolicy(after, metaKeys) = after
    BY <1>3, <2>2, NormalizedStays DEF CreatedPolicy
  <2>4. \A s \in Sections, k \in PolicyKeys, who \in Addresses :
            /\ Access(before, s, k, who) => Access(after, s, k, who)
            /\ s = "read" \/ IsList(before, s, k) =>
                (Access(before, s, k, who) <=> Access(after, s, k, who))
    BY <1>1, <2>1, FilledKeepsAccess
  <2> QED BY <2>3, <2>4 DEF after, before
<1> QED
  BY <1>2, <1>3

-----------------------------------------------------------------------------
(* Merging. *)

LEMMA MergedDecides ==
    ASSUME NEW base \in PoliciesOf, NEW override \in PoliciesOf, NEW s \in Sections,
           NEW k \in PolicyKeys, NEW who
    PROVE  LET decides == IF override[s] # Missing /\ override[s][k] # Missing
                          THEN override ELSE base IN
           Access(MergedPolicies(base, override), s, k, who) = Access(decides, s, k, who)
<1> DEFINE merged == MergedPolicies(base, override)
           both == [q \in PolicyKeys |-> IF override[s][q] # Missing THEN override[s][q]
                                         ELSE base[s][q]]
           decides == IF override[s] # Missing /\ override[s][k] # Missing
                      THEN override ELSE base
<1>1. /\ override[s] = Missing => merged[s] = base[s]
      /\ override[s] # Missing /\ base[s] = Missing => merged[s] = override[s]
      /\ override[s] # Missing /\ base[s] # Missing => merged[s] = both
  <2>1. merged[s] = CASE override[s] = Missing -> base[s]
                      [] base[s] = Missing -> override[s]
                      [] OTHER -> both
    BY Zenon DEF MergedPolicies
  <2> HIDE DEF merged, both
  <2>2. CASE override[s] = Missing /\ base[s] # Missing
    BY <2>1, <2>2, Zenon
  <2>3. CASE override[s] = Missing /\ base[s] = Missing
    BY <2>1, <2>3, Zenon
  <2>4. CASE override[s] # Missing /\ base[s] = Missing
    BY <2>1, <2>4, Zenon
  <2>5. CASE override[s] # Missing /\ base[s] # Missing
    BY <2>1, <2>5, Zenon
  <2> QED BY <2>2, <2>3, <2>4, <2>5
<1>2. base[s] \in Normal /\ override[s] \in Normal
  BY DEF PoliciesOf
<1>3. override[s] # Missing /\ base[s] # Missing =>
        /\ both \in SectionsOf /\ both # Missing
        /\ both[k] = IF override[s][k] # Missing THEN override[s][k] ELSE base[s][k]
  BY <1>2, PolicyAssumption DEF Normal, SectionsOf
<1> HIDE DEF both, merged
<1>4. /\ IsList(merged, s, k) <=> IsList(decides, s, k)
      /\ IsList(merged, s, k) => merged[s][k] = decides[s][k]
  <2>1. CASE override[s] = Missing
    BY <1>1, <2>1 DEF IsList
  <2>2. CASE override[s] # Missing /\ base[s] = Missing
    BY <1>1, <2>2 DEF IsList
  <2>3. CASE override[s] # Missing /\ base[s] # Missing
    BY <1>1, <1>3, <2>3 DEF IsList
  <2> QED BY <2>1, <2>2, <2>3
<1> HIDE DEF decides
<1>5. s = "read" \/ s = "write"
  BY DEF Sections
<1>6. Access(merged, s, k, who) <=> Access(decides, s, k, who)
  BY <1>4, <1>5, AccessIs
<1> QED
  BY <1>6, AccessIs DEF merged, decides

-----------------------------------------------------------------------------
(* Rules. *)

\* What a rule may hold once it is read.
ReadConditions == {c \in JsonConditions : c.comparison \in Operators}
ReadCallbacks == [action : Actions, fields : SUBSET Fields]

LEMMA UnderstoodIs ==
    ASSUME NEW E, NEW seq \in Seq(E \cup {Missing})
    PROVE  /\ Understood(seq) \in Seq(E)
           /\ Missing \notin ToSet(Understood(seq))
           /\ Missing \notin ToSet(seq) => Understood(seq) = seq
<1> DEFINE set == ToSet(seq) \ {Missing}
           left == Chosen(seq, set)
<1>1. /\ left \in Seq(E \cup {Missing})
      /\ ToSet(left) = ToSet(seq) \cap set
      /\ ToSet(seq) \subseteq set => left = seq
  BY ChosenIs
<1> HIDE DEF left
<1>2. Missing \notin ToSet(left)
  BY <1>1
<1>3. \A i \in 1 .. Len(left) : left[i] \in E
  BY <1>1, <1>2 DEF ToSet
<1>4. left \in Seq(E)
  BY <1>1, <1>3
<1> QED
  BY <1>1, <1>2, <1>4 DEF Understood, left

\* A rule of any length is what its JSON says, and says again.
LEMMA RuleRoundTrip ==
    ASSUME NEW conditions \in Seq(JsonConditions), NEW callbacks \in Seq(JsonCallbacks)
    PROVE  LET rule == RuleFromJson([condition |-> conditions, callback |-> callbacks]) IN
           RuleFromJson(RuleToJson(rule)) = rule
<1> DEFINE json == [condition |-> conditions, callback |-> callbacks]
           rule == RuleFromJson(json)
           again == RuleFromJson(RuleToJson(rule))
           cs == [i \in DOMAIN conditions |-> ConditionFromJson(conditions[i])]
           bs == [i \in DOMAIN callbacks |-> CallbackFromJson(callbacks[i])]
<1>1. cs \in Seq(ReadConditions \cup {Missing})
  BY DEF ConditionFromJson, ReadConditions
<1>2. bs \in Seq(ReadCallbacks \cup {Missing})
  <2>1. \A c \in JsonCallbacks : CallbackFromJson(c) \in ReadCallbacks \cup {Missing}
    BY DEF CallbackFromJson, ReadCallbacks, JsonCallbacks
  <2> QED BY <2>1
<1>3. rule = [conditions |-> Understood(cs), callbacks |-> Understood(bs)]
  BY DEF RuleFromJson
<1> HIDE DEF cs, bs
<1> DEFINE rc == Understood(cs)
           rb == Understood(bs)
           cs2 == [i \in DOMAIN rc |-> ConditionFromJson(rc[i])]
           bs2 == [i \in DOMAIN rb |-> CallbackFromJson(CallbackToJson(rb[i]))]
<1>4. rc \in Seq(ReadConditions) /\ Missing \notin ToSet(rc)
  BY <1>1, UnderstoodIs
<1>5. rb \in Seq(ReadCallbacks) /\ Missing \notin ToSet(rb)
  BY <1>2, UnderstoodIs
<1>6. again = [conditions |-> Understood(cs2), callbacks |-> Understood(bs2)]
  <2> HIDE DEF rc, rb, rule
  <2>1. RuleToJson(rule) = [condition |-> rc,
                            callback |-> [i \in DOMAIN rb |-> CallbackToJson(rb[i])]]
    BY <1>3 DEF RuleToJson, rc, rb
  <2> QED BY <2>1 DEF RuleFromJson
<1> HIDE DEF rc, rb
<1>7. cs2 = rc
  <2>1. \A i \in DOMAIN rc : rc[i] \in ReadConditions
    BY <1>4
  <2>2. \A c \in ReadConditions : ConditionFromJson(c) = c
    BY DEF ConditionFromJson, ReadConditions
  <2>3. rc = [i \in DOMAIN rc |-> rc[i]]
    BY <1>4
  <2> QED BY <2>1, <2>2, <2>3
<1>8. bs2 = rb
  <2>1. \A i \in DOMAIN rb : rb[i] \in ReadCallbacks
    BY <1>5
  <2>2. ASSUME NEW c \in ReadCallbacks PROVE CallbackFromJson(CallbackToJson(c)) = c
    <3>1. c = [action |-> c.action, fields |-> c.fields] /\ c.action \in Actions
      BY DEF ReadCallbacks
    <3>2. CallbackToJson(c) = [action |-> c.action, fields |-> c.fields, upper |-> FALSE]
      BY DEF CallbackToJson
    <3>3. CallbackFromJson(CallbackToJson(c)) = [action |-> c.action, fields |-> c.fields]
      BY <3>1, <3>2 DEF CallbackFromJson
    <3> QED BY <3>1, <3>3
  <2>3. rb = [i \in DOMAIN rb |-> rb[i]]
    BY <1>5
  <2> QED BY <2>1, <2>2, <2>3
<1> HIDE DEF cs2, bs2
<1>9. Understood(rc) = rc
  <2>1. rc \in Seq(ReadConditions \cup {Missing})
    BY <1>4
  <2> QED BY <1>4, <2>1, UnderstoodIs
<1>10. Understood(rb) = rb
  <2>1. rb \in Seq(ReadCallbacks \cup {Missing})
    BY <1>5
  <2> QED BY <1>5, <2>1, UnderstoodIs
<1> HIDE DEF again, rule
<1>11. again = rule
  BY <1>3, <1>6, <1>7, <1>8, <1>9, <1>10 DEF rc, rb
<1> QED
  BY <1>11 DEF again, rule, json

\* What a comparison says with each operator.
LEMMA CompareIs ==
    ASSUME NEW x, NEW y
    PROVE  /\ CompareValues(x, y, "==") = Same(x, y)
           /\ CompareValues(x, y, "!=") = ~Same(x, y)
           /\ CompareValues(x, y, "<") = Less(x, y)
           /\ CompareValues(x, y, "<=") = (Less(x, y) \/ Same(x, y))
           /\ CompareValues(x, y, ">") = Less(y, x)
           /\ CompareValues(x, y, ">=") = (Less(y, x) \/ Same(x, y))
           /\ CompareValues(x, y, "in") = Strstr(y, x)
           /\ CompareValues(x, y, "not_in") = ~Strstr(y, x)
  BY Zenon DEF CompareValues

\* Numbers are in one order and texts in another, and "nan" in neither.
LEMMA Ordered ==
    ASSUME NEW x \in Texts, NEW y \in Texts
    PROVE  /\ Same(x, y) \in BOOLEAN /\ Less(x, y) \in BOOLEAN /\ Less(y, x) \in BOOLEAN
           /\ ~(BothNumbers(x, y) /\ Nan \in {x.num, y.num}) =>
                /\ Less(x, y) <=> ~(Less(y, x) \/ Same(x, y))
                /\ Less(y, x) <=> ~(Less(x, y) \/ Same(x, y))
<1>1. \A z \in Texts : z.num \in Int /\ z.text \in Int
  BY DEF Texts, NotANumber, Nan
<1>2. x.num \in Int /\ x.text \in Int /\ y.num \in Int /\ y.text \in Int
  BY <1>1
<1>3. BothNumbers(x, y) <=> BothNumbers(y, x)
  BY DEF BothNumbers
<1>4. CASE BothNumbers(x, y)
  BY <1>2, <1>3, <1>4 DEF Same, Less, Nan
<1>5. CASE ~BothNumbers(x, y)
  <2>1. /\ Same(x, y) = (x.text = y.text)
        /\ Less(x, y) = (x.text < y.text) /\ Less(y, x) = (y.text < x.text)
    BY <1>3, <1>5, Zenon DEF Same, Less
  <2>2. Same(x, y) \in BOOLEAN /\ Less(x, y) \in BOOLEAN /\ Less(y, x) \in BOOLEAN
    BY <2>1
  <2>3. /\ Less(x, y) <=> ~(Less(y, x) \/ Same(x, y))
        /\ Less(y, x) <=> ~(Less(x, y) \/ Same(x, y))
    <3>1. \A a, b \in Int : (a < b <=> ~(b < a \/ a = b)) /\ (b < a <=> ~(a < b \/ a = b))
      OBVIOUS
    <3>2. /\ x.text < y.text <=> ~(y.text < x.text \/ x.text = y.text)
          /\ y.text < x.text <=> ~(x.text < y.text \/ x.text = y.text)
      BY <1>2, <3>1
    <3> QED BY <2>1, <3>2, Zenon
  <2> QED BY <2>2, <2>3
<1> QED
  BY <1>4, <1>5

\* What each operator passes.
PassesWith(key, value, context) ==
    [o \in Operators |->
        Passes([conditions |-> <<[key |-> key, value |-> value, comparison |-> o]>>,
                callbacks |-> <<>>], context)]

LEMMA PassesIs ==
    ASSUME NEW key, NEW value, NEW context, NEW o \in Operators
    PROVE  PassesWith(key, value, context)[o]
             <=> ContextValue(context, key) # Missing
                 /\ CompareValues(ContextValue(context, key), value, o)
<1> DEFINE c == [key |-> key, value |-> value, comparison |-> o]
           rule == [conditions |-> <<c>>, callbacks |-> <<>>]
<1>1. PassesWith(key, value, context)[o] = Passes(rule, context)
  BY Zenon DEF PassesWith
<1>2. c.key = key /\ c.value = value /\ c.comparison = o
  OBVIOUS
<1> HIDE DEF c
<1>3. rule.conditions = <<c>> /\ DOMAIN rule.conditions = {1} /\ rule.conditions[1] = c
  OBVIOUS
<1> HIDE DEF rule
<1>4. Passes(rule, context) <=> ConditionHolds(c, context)
  BY <1>3 DEF Passes
<1> QED
  BY <1>1, <1>2, <1>4 DEF ConditionHolds

LEMMA EvaluationDivides ==
    ASSUME NEW key, NEW value \in Texts, NEW context \in Contexts, key \in {"amount", "color"}
    PROVE  LET passes == PassesWith(key, value, context)
               found  == ContextValue(context, key)
               Opposites(o, p) == passes[o] # passes[p]
           IN IF found = Missing THEN \A o \in Operators : ~passes[o]
              ELSE /\ Opposites("==", "!=") /\ Opposites("in", "not_in")
                   /\ ~(BothNumbers(found, value) /\ Nan \in {found.num, value.num}) =>
                        /\ Opposites("<", ">=") /\ Opposites(">", "<=")
                        /\ ~(passes["<"] /\ passes[">"])
<1> DEFINE passes == PassesWith(key, value, context)
           found == ContextValue(context, key)
<1>1. \A o \in Operators : passes[o] <=> found # Missing /\ CompareValues(found, value, o)
  BY PassesIs
<1>2. \A o \in Operators : passes[o] \in BOOLEAN
  BY DEF PassesWith, Passes
<1>3. found = Missing \/ found \in Texts
  <2>1. [text |-> 2, num |-> 9] \in Texts
    BY DEF Texts
  <2>2. /\ context.amount \in Texts \cup {Missing} /\ context.transaction \in Texts \cup {Missing}
        /\ context.meta \in Texts \cup {Missing}
    BY <2>1 DEF Contexts
  <2>3. found \in {context.amount, context.meta, context.transaction}
    <3>1. CASE key = "amount"
      BY <3>1, Zenon DEF ContextValue
    <3>2. CASE key # "amount" /\ context.meta # Missing
      BY <3>2, Zenon DEF ContextValue
    <3>3. CASE key # "amount" /\ context.meta = Missing
      BY <3>3, Zenon DEF ContextValue
    <3> QED BY <3>1, <3>2, <3>3
  <2> HIDE DEF found
  <2> QED BY <2>2, <2>3
<1> HIDE DEF passes, found
<1>4. CASE found = Missing
  BY <1>1, <1>4 DEF passes, found
<1>5. CASE found # Missing
  <2>1. found \in Texts
    BY <1>3, <1>5
  <2>2. {"==", "!=", "<", "<=", ">", ">=", "in", "not_in"} \subseteq Operators
    BY DEF Operators
  <2>3. /\ passes["=="] <=> Same(found, value)
        /\ passes["!="] <=> ~Same(found, value)
        /\ passes["<"] <=> Less(found, value)
        /\ passes["<="] <=> Less(found, value) \/ Same(found, value)
        /\ passes[">"] <=> Less(value, found)
        /\ passes[">="] <=> Less(value, found) \/ Same(found, value)
        /\ passes["in"] <=> Strstr(value, found)
        /\ passes["not_in"] <=> ~Strstr(value, found)
    BY <1>1, <1>5, <2>2, CompareIs
  <2>4. passes["=="] # passes["!="] /\ passes["in"] # passes["not_in"]
    BY <1>2, <2>2, <2>3
  <2>5. ASSUME ~(BothNumbers(found, value) /\ Nan \in {found.num, value.num})
        PROVE  passes["<"] # passes[">="] /\ passes[">"] # passes["<="] /\ ~(passes["<"] /\ passes[">"])
    BY <1>2, <2>1, <2>2, <2>3, <2>5, Ordered
  <2> QED BY <1>5, <2>4, <2>5 DEF passes, found
<1> QED
  BY <1>4, <1>5

-----------------------------------------------------------------------------
(* The calls of the model, each with what came of it. *)

PolicyOf(reads, writes) == [s \in Sections |-> IF s = "read" THEN reads ELSE writes]
SectionAlone(s, section) == [r \in Sections |-> IF r = s THEN section ELSE Missing]

CreateCall(reads, writes, metaKeys) ==
    [fn |-> "policy", policy |-> NormalizedPolicy(PolicyOf(reads, writes)), keys |-> metaKeys,
     created |-> CreatedPolicy(PolicyOf(reads, writes), metaKeys)]
MergeCall(base, override, s) ==
    [fn |-> "merge", base |-> SectionAlone(s, base), override |-> SectionAlone(s, override),
     merged |-> MergedPolicies(SectionAlone(s, base), SectionAlone(s, override))]
RuleCall(json) == [fn |-> "rule", json |-> json, rule |-> RuleFromJson(json)]
EvaluateCall(key, value, context) ==
    [fn |-> "evaluate", key |-> key, value |-> value, context |-> context,
     passes |-> PassesWith(key, value, context)]

PolicyInv ==
    \/ call = NoCall
    \/ \E reads, writes \in GivenSections, metaKeys \in SUBSET PolicyKeys :
        call = CreateCall(reads, writes, metaKeys)
    \/ \E base, override \in SectionsOf \cup {Missing}, s \in Sections :
        call = MergeCall(base, override, s)
    \/ \E json \in JsonRules : call = RuleCall(json)
    \/ \E key \in {"amount", "color"}, value \in Texts, context \in Contexts :
        call = EvaluateCall(key, value, context)

LEMMA PolicyStepInv == PolicyInv /\ [PoliciesNext \/ Return]_call => PolicyInv'
<1> SUFFICES ASSUME PolicyInv, [PoliciesNext \/ Return]_call PROVE PolicyInv'
  OBVIOUS
<1>1. CASE CreatePolicy
  BY <1>1, Zenon DEF CreatePolicy, Made, PolicyInv, CreateCall, PolicyOf
<1>2. CASE MergePolicies
  BY <1>2, Zenon DEF MergePolicies, Made, PolicyInv, MergeCall, SectionAlone
<1>3. CASE ReadRule
  BY <1>3, Zenon DEF ReadRule, Made, PolicyInv, RuleCall
<1>4. CASE EvaluateRule
  BY <1>4, Zenon DEF EvaluateRule, Made, PolicyInv, EvaluateCall, PassesWith
<1>5. CASE Return
  BY <1>5 DEF Return, PolicyInv
<1>6. CASE UNCHANGED call
  BY <1>6 DEF PolicyInv
<1> QED
  BY <1>1, <1>2, <1>3, <1>4, <1>5, <1>6 DEF PoliciesNext

LEMMA PolicyInvIsDecided == PolicyInv => AccessIsDecided
<1> SUFFICES ASSUME PolicyInv PROVE AccessIsDecided
  OBVIOUS
<1> USE DEF AccessIsDecided
<1>1. CASE call = NoCall
  <2>1. call.fn = "none"
    BY <1>1 DEF NoCall
  <2> QED BY <2>1 DEF DefaultsKeepAccess, MergeIsPerKey, RuleSurvivesJson, OppositesDivide
<1>2. ASSUME NEW reads \in GivenSections, NEW writes \in GivenSections,
             NEW metaKeys \in SUBSET PolicyKeys, call = CreateCall(reads, writes, metaKeys)
      PROVE  AccessIsDecided
  <2> DEFINE policy == PolicyOf(reads, writes)
  <2>1. policy \in [Sections -> GivenSections]
    BY DEF PolicyOf
  <2> HIDE DEF policy
  <2>2. /\ call.fn = "policy" /\ call.keys = metaKeys
        /\ call.policy = NormalizedPolicy(policy)
        /\ call.created = CreatedPolicy(policy, metaKeys)
    BY <1>2 DEF CreateCall, policy
  <2>3. DefaultsKeepAccess
    <3>1. CreatedPolicy(call.created, call.keys) = call.created
      BY <2>1, <2>2, CreatedKeepsAccess
    <3>2. ASSUME NEW s \in Sections, NEW k \in PolicyKeys, NEW who \in Addresses
          PROVE  /\ Access(call.policy, s, k, who) => Access(call.created, s, k, who)
                 /\ s = "read" \/ IsList(call.policy, s, k) =>
                    (Access(call.policy, s, k, who) <=> Access(call.created, s, k, who))
      BY <2>1, <2>2, CreatedKeepsAccess
    <3> QED BY <3>1, <3>2, Zenon DEF DefaultsKeepAccess
  <2> QED BY <2>2, <2>3 DEF MergeIsPerKey, RuleSurvivesJson, OppositesDivide
<1>3. ASSUME NEW b \in SectionsOf \cup {Missing}, NEW o \in SectionsOf \cup {Missing},
             NEW t \in Sections, call = MergeCall(b, o, t)
      PROVE  AccessIsDecided
  <2> DEFINE base == SectionAlone(t, b)
             override == SectionAlone(t, o)
  <2>1. base \in PoliciesOf /\ override \in PoliciesOf
    BY DEF SectionAlone, PoliciesOf, Normal
  <2> HIDE DEF base, override
  <2>2. /\ call.fn = "merge" /\ call.base = base /\ call.override = override
        /\ call.merged = MergedPolicies(base, override)
    BY <1>3 DEF MergeCall, base, override
  <2>3. MergeIsPerKey
    <3>1. ASSUME NEW s \in Sections, NEW k \in PolicyKeys, NEW who \in Addresses
          PROVE  Access(call.merged, s, k, who)
                   = Access(IF call.override[s] # Missing /\ call.override[s][k] # Missing
                            THEN call.override ELSE call.base, s, k, who)
      BY <2>1, <2>2, MergedDecides
    <3> QED BY <3>1, Zenon DEF MergeIsPerKey
  <2> QED BY <2>2, <2>3 DEF DefaultsKeepAccess, RuleSurvivesJson, OppositesDivide
<1>4. ASSUME NEW json \in JsonRules, call = RuleCall(json)
      PROVE  AccessIsDecided
  <2>1. json.condition \in Seq(JsonConditions) /\ json.callback \in Seq(JsonCallbacks)
    <3> DEFINE C == JsonConditions
               B == JsonCallbacks
    <3>1. /\ \A c \in C, d \in C : <<c, d>> \in Seq(C)
          /\ \A c \in B : <<c>> \in Seq(B)
          /\ <<>> \in Seq(C) /\ <<>> \in Seq(B)
      OBVIOUS
    <3> HIDE DEF C, B
    <3>2. json \in [condition : {<<c, d>> : c, d \in C}, callback : {<<>>}]
                  \cup [condition : {<<>>}, callback : {<<c>> : c \in B}]
      BY DEF JsonRules, C, B
    <3>3. /\ json.condition = <<>> \/ \E c \in C, d \in C : json.condition = <<c, d>>
          /\ json.callback = <<>> \/ \E c \in B : json.callback = <<c>>
      BY <3>2
    <3>4. json.condition \in Seq(C)
      <4>1. CASE json.condition = <<>>
        BY <3>1, <4>1, Zenon
      <4>2. CASE json.condition # <<>>
        <5>1. PICK c \in C, d \in C : json.condition = <<c, d>>
          BY <3>3, <4>2, Zenon
        <5> QED BY <3>1, <5>1, Zenon
      <4> QED BY <4>1, <4>2
    <3>5. json.callback \in Seq(B)
      <4>1. CASE json.callback = <<>>
        BY <3>1, <4>1, Zenon
      <4>2. CASE json.callback # <<>>
        <5>1. PICK c \in B : json.callback = <<c>>
          BY <3>3, <4>2, Zenon
        <5> QED BY <3>1, <5>1, Zenon
      <4> QED BY <4>1, <4>2
    <3> QED BY <3>4, <3>5 DEF C, B
  <2>2. json = [condition |-> json.condition, callback |-> json.callback]
    BY DEF JsonRules
  <2>3. call.fn = "rule" /\ call.rule = RuleFromJson(json)
    BY <1>4 DEF RuleCall
  <2> DEFINE again == RuleFromJson(RuleToJson(call.rule))
  <2>4. again = call.rule
    BY <2>1, <2>2, <2>3, RuleRoundTrip
  <2>5. RuleSurvivesJson
    <3> HIDE DEF again
    <3>1. again = call.rule /\ \A i \in DOMAIN again.callbacks, a \in Actions :
            IsAction(again.callbacks[i], a) = IsAction(call.rule.callbacks[i], a)
      BY <2>4
    <3> QED BY <3>1 DEF RuleSurvivesJson, again
  <2> HIDE DEF again
  <2> QED BY <2>3, <2>5 DEF DefaultsKeepAccess, MergeIsPerKey, OppositesDivide
<1>5. ASSUME NEW key \in {"amount", "color"}, NEW value \in Texts, NEW context \in Contexts,
             call = EvaluateCall(key, value, context)
      PROVE  AccessIsDecided
  <2>1. /\ call.fn = "evaluate" /\ call.key = key /\ call.value = value
        /\ call.context = context /\ call.passes = PassesWith(key, value, context)
    BY <1>5 DEF EvaluateCall
  <2>2. OppositesDivide
    BY <2>1, EvaluationDivides, Zenon DEF OppositesDivide
  <2> QED BY <2>1, <2>2 DEF DefaultsKeepAccess, MergeIsPerKey, RuleSurvivesJson
<1> QED
  BY <1>1, <1>2, <1>3, <1>4, <1>5, Zenon DEF PolicyInv

\* For any keys and addresses, whatever defaults are filled in, policies merged and rules
\* reads back: who may reads or writes, and what a rule passes, is what was written.
THEOREM AccessIsAlwaysDecided == PolicySpec => []AccessIsDecided
<1>1. call = NoCall => PolicyInv
  BY DEF PolicyInv
<1>2. PolicyInv /\ [PoliciesNext \/ Return]_call => PolicyInv'
  BY PolicyStepInv
<1>3. PolicyInv => AccessIsDecided
  BY PolicyInvIsDecided
<1> QED
  BY <1>1, <1>2, <1>3, PTL DEF PolicySpec

-----------------------------------------------------------------------------
(* What is alive, and what it takes. *)

MetaCosts(m) == [k \in DOMAIN m |-> MetaBlocks(m[k])]
AtomCosts(a) == [x \in DOMAIN a |-> AtomBlocks(a[x])]
ListCost(l) == IF l = Missing THEN 0 ELSE ListBlocks
MoleculeCost(m) == IF m = Missing THEN 0 ELSE MoleculeBlocks(m)
ListItems(l) == IF l = Missing THEN {} ELSE ToSet(l.items)
MoleculeAtoms(m) == IF m = Missing THEN {} ELSE ToSet(m.atoms)

PartsTypeOK ==
    /\ meta \in [MetaIds -> MetaStructs \cup {Missing}] /\ list \in MetaArrays \cup {Missing}
    /\ atom \in [AtomIds -> AtomRecords \cup {Missing}] /\ molecule \in MoleculeStructs \cup {Missing}

FiniteInv == IsFiniteSet(Alive(meta)) /\ IsFiniteSet(Alive(atom))

\* An atom has an array if there is something in it, and no meta is two atoms'.
ArrayInv ==
    /\ \A a \in Alive(atom) : atom[a].array = (IF atom[a].meta = <<>> THEN 0 ELSE 1)
    /\ \A a, b \in Alive(atom) : a # b => ToSet(atom[a].meta) \cap ToSet(atom[b].meta) = {}

HeldInv ==
    /\ ListItems(list) \subseteq Alive(meta) /\ MoleculeAtoms(molecule) \subseteq Alive(atom)
    /\ \A a \in Alive(atom) : ToSet(atom[a].meta) \subseteq Alive(meta)

CostInv ==
    blocks = SumFunctionOnSet(MetaCosts(meta), Alive(meta)) + ListCost(list)
             + SumFunctionOnSet(AtomCosts(atom), Alive(atom)) + MoleculeCost(molecule)

PartsInv ==
    /\ PartsTypeOK /\ FiniteInv /\ ArrayInv /\ HeldInv /\ CostInv /\ MoleculeIsNumbered

LEMMA StringsAre ==
    \A m \in MetaStructs : m # Missing /\ MetaBlocks(m) \in Int
<1>1. ASSUME NEW m \in MetaStructs PROVE m # Missing /\ MetaBlocks(m) \in Int
  <2>1. IsFiniteSet({"key", "value"})
    <3>1. IsFiniteSet({"key"} \cup {"value"})
      BY FS_Singleton, FS_AddElement
    <3>2. {"key", "value"} = {"key"} \cup {"value"}
      OBVIOUS
    <3> QED BY <3>1, <3>2
  <2> DEFINE T == {s \in {"key", "value"} : s \in m}
  <2>2. T \subseteq {"key", "value"}
    OBVIOUS
  <2> HIDE DEF T
  <2>3. Cardinality(T) \in Nat
    BY <2>1, <2>2, FS_Subset, FS_CardinalityType
  <2>4. MetaBlocks(m) = 1 + Cardinality(T)
    BY DEF MetaBlocks, T
  <2>5. m # Missing
    BY PartsAssumption
  <2> QED BY <2>3, <2>4, <2>5
<1> QED BY <1>1

LEMMA MetaOfIs ==
    /\ MetaBlocks(MetaOf(1)) = 1 /\ MetaBlocks(MetaOf(2)) = 2 /\ MetaBlocks(MetaOf(3)) = 3
    /\ MetaOf(3) \in MetaStructs
<1> DEFINE T(m) == {s \in {"key", "value"} : s \in m}
<1>1. T(MetaOf(1)) = {}
  BY DEF MetaOf
<1>2. T(MetaOf(2)) = {"key"}
  BY DEF MetaOf
<1>3. T(MetaOf(3)) = {"key"} \cup {"value"} /\ MetaOf(3) \in MetaStructs
  BY DEF MetaOf, MetaStructs
<1>4. Cardinality({}) = 0
  BY FS_EmptySet
<1>5. Cardinality({"key"}) = 1 /\ IsFiniteSet({"key"})
  BY FS_Singleton
<1>6. Cardinality({"key"} \cup {"value"}) = Cardinality({"key"}) + 1
  BY <1>5, FS_AddElement
<1>7. \A m : MetaBlocks(m) = 1 + Cardinality(T(m))
  BY DEF MetaBlocks
<1> HIDE DEF T
<1> QED BY <1>1, <1>2, <1>3, <1>4, <1>5, <1>6, <1>7

LEMMA AtomsAre ==
    \A a \in AtomRecords : a # Missing /\ AtomBlocks(a) \in Int
  BY PartsAssumption DEF AtomBlocks, AtomRecords

LEMMA AliveWith ==
    ASSUME NEW things, NEW x \in DOMAIN things, NEW v, v # Missing
    PROVE  Alive([things EXCEPT ![x] = v]) = Alive(things) \cup {x}
  BY DEF Alive

LEMMA AliveWithout ==
    ASSUME NEW things, NEW gone
    PROVE  /\ Alive(Without(things, gone)) = Alive(things) \ gone
           /\ DOMAIN Without(things, gone) = DOMAIN things
           /\ \A x \in Alive(things) \ gone : Without(things, gone)[x] = things[x]
  BY DEF Alive, Without

LEMMA ItemsAfter ==
    ASSUME NEW X, NEW s \in Seq(X), NEW x \in X
    PROVE  ToSet(Append(s, x)) = ToSet(s) \cup {x}
<1>1. DOMAIN Append(s, x) = 1..Len(s) + 1 /\ Append(s, x)[Len(s) + 1] = x /\ DOMAIN s = 1..Len(s)
      /\ Len(s) \in Nat /\ \A i \in 1..Len(s) : Append(s, x)[i] = s[i]
  OBVIOUS
<1>2. 1..Len(s) + 1 = 1..Len(s) \cup {Len(s) + 1}
  BY <1>1
<1> DEFINE t == Append(s, x)
           n == Len(s)
<1>3. DOMAIN t = 1..n \cup {n + 1} /\ t[n + 1] = x /\ DOMAIN s = 1..n /\ \A i \in 1..n : t[i] = s[i]
  BY <1>1, <1>2
<1>4. ToSet(t) = {t[i] : i \in DOMAIN t} /\ ToSet(s) = {s[i] : i \in DOMAIN s}
  BY DEF ToSet
<1> HIDE DEF t, n
<1>5. ToSet(t) = ToSet(s) \cup {x}
  BY <1>3, <1>4
<1> QED BY <1>5 DEF t

\* Of the two sums over all that is alive.
LEMMA CostsAre ==
    ASSUME PartsTypeOK, FiniteInv
    PROVE  /\ Alive(meta) \subseteq MetaIds /\ Alive(atom) \subseteq AtomIds
           /\ \A k \in Alive(meta) : meta[k] \in MetaStructs /\ MetaCosts(meta)[k] = MetaBlocks(meta[k])
                                     /\ MetaCosts(meta)[k] \in Int
           /\ \A a \in Alive(atom) : atom[a] \in AtomRecords /\ AtomCosts(atom)[a] = AtomBlocks(atom[a])
                                     /\ AtomCosts(atom)[a] \in Int
           /\ SumFunctionOnSet(MetaCosts(meta), Alive(meta)) \in Int
           /\ SumFunctionOnSet(AtomCosts(atom), Alive(atom)) \in Int
           /\ ListCost(list) \in Int /\ MoleculeCost(molecule) \in Int
           /\ \A ks \in SUBSET Alive(meta) : IsFiniteSet(ks)
                  /\ AllMetaBlocks(ks) = SumFunctionOnSet(MetaCosts(meta), ks)
                  /\ SumFunctionOnSet(MetaCosts(meta), ks) \in Int
<1>1. Alive(meta) \subseteq MetaIds /\ Alive(atom) \subseteq AtomIds
  BY DEF PartsTypeOK, Alive
<1>2. \A k \in Alive(meta) : meta[k] \in MetaStructs /\ MetaCosts(meta)[k] = MetaBlocks(meta[k])
                             /\ MetaCosts(meta)[k] \in Int
  BY StringsAre DEF PartsTypeOK, Alive, MetaCosts
<1>3. \A a \in Alive(atom) : atom[a] \in AtomRecords /\ AtomCosts(atom)[a] = AtomBlocks(atom[a])
                             /\ AtomCosts(atom)[a] \in Int
  BY AtomsAre DEF PartsTypeOK, Alive, AtomCosts
<1>4. \A ks \in SUBSET Alive(meta) : IsFiniteSet(ks)
          /\ AllMetaBlocks(ks) = SumFunctionOnSet(MetaCosts(meta), ks)
          /\ SumFunctionOnSet(MetaCosts(meta), ks) \in Int
  <2>1. ASSUME NEW ks \in SUBSET Alive(meta)
        PROVE  IsFiniteSet(ks) /\ AllMetaBlocks(ks) = SumFunctionOnSet(MetaCosts(meta), ks)
               /\ SumFunctionOnSet(MetaCosts(meta), ks) \in Int
    <3>1. IsFiniteSet(ks)
      BY FS_Subset DEF FiniteInv
    <3> DEFINE f == [k \in ks |-> MetaBlocks(meta[k])]
               g == MetaCosts(meta)
    <3>2. \A k \in ks : f[k] = g[k] /\ g[k] \in Int
      BY <1>2
    <3> HIDE DEF f, g
    <3>3. SumFunctionOnSet(f, ks) = SumFunctionOnSet(g, ks) /\ SumFunctionOnSet(g, ks) \in Int
      BY <3>1, <3>2, SumSame, SumInt
    <3>4. AllMetaBlocks(ks) = SumFunctionOnSet(f, ks)
      BY DEF AllMetaBlocks, f
    <3> QED BY <3>1, <3>3, <3>4 DEF g
  <2> QED BY <2>1
<1>5. SumFunctionOnSet(AtomCosts(atom), Alive(atom)) \in Int
  BY <1>3, SumInt DEF FiniteInv
<1>6. ListCost(list) \in Int /\ MoleculeCost(molecule) \in Int
  BY DEF PartsTypeOK, ListCost, ListBlocks, MoleculeCost, MoleculeBlocks, MoleculeStructs
<1> QED BY <1>1, <1>2, <1>3, <1>4, <1>5, <1>6

\* What one more, one changed, or one less makes of the sums.
LEMMA MetaBuilt ==
    ASSUME PartsTypeOK, FiniteInv, NEW k \in MetaIds, NEW v \in MetaStructs,
           meta' = [meta EXCEPT ![k] = v]
    PROVE  /\ meta' \in [MetaIds -> MetaStructs \cup {Missing}]
           /\ Alive(meta') = Alive(meta) \cup {k} /\ IsFiniteSet(Alive(meta'))
           /\ SumFunctionOnSet(MetaCosts(meta'), Alive(meta')) =
                SumFunctionOnSet(MetaCosts(meta), Alive(meta)) + MetaBlocks(v)
                - (IF meta[k] = Missing THEN 0 ELSE MetaBlocks(meta[k]))
<1> DEFINE S == Alive(meta)
           f == MetaCosts(meta)
           g == MetaCosts(meta')
<1>1. meta' \in [MetaIds -> MetaStructs \cup {Missing}] /\ DOMAIN meta = MetaIds
  BY DEF PartsTypeOK
<1>2. Alive(meta') = S \cup {k}
  BY <1>1, StringsAre, AliveWith
<1>3. g[k] = MetaBlocks(v) /\ g[k] \in Int
  BY <1>1, StringsAre DEF MetaCosts
<1>4. \A j \in S \ {k} : g[j] = f[j]
  BY <1>1 DEF MetaCosts, Alive
<1>5. IsFiniteSet(S) /\ SumFunctionOnSet(f, S) \in Int /\ \A j \in S : f[j] \in Int
  BY CostsAre DEF FiniteInv
<1>6. IsFiniteSet(S \cup {k})
  BY <1>5, FS_AddElement
<1>7. k \in S <=> meta[k] # Missing
  BY <1>1 DEF Alive
<1>8. k \in S => f[k] = MetaBlocks(meta[k])
  BY <1>1 DEF MetaCosts
<1> HIDE DEF S, f, g
<1>9. CASE k \in S
  <2>1. SumFunctionOnSet(g, S) = SumFunctionOnSet(f, S) - f[k] + g[k]
    BY <1>3, <1>4, <1>5, <1>9, SumSwapped
  <2>2. S \cup {k} = S
    BY <1>9
  <2>3. f[k] \in Int
    BY <1>5, <1>9
  <2>4. SumFunctionOnSet(g, S) = SumFunctionOnSet(f, S) + MetaBlocks(v) - MetaBlocks(meta[k])
    BY <1>3, <1>5, <1>8, <1>9, <2>1, <2>3
  <2> QED BY <1>1, <1>2, <1>5, <1>7, <1>9, <2>2, <2>4 DEF S, f, g
<1>10. CASE k \notin S
  <2>1. \A j \in S : f[j] \in Int /\ g[j] = f[j]
    BY <1>4, <1>5, <1>10
  <2>2. SumFunctionOnSet(g, S \cup {k}) = SumFunctionOnSet(f, S) + g[k]
    <3>1. IsFiniteSet(S) /\ k \notin S /\ g[k] \in Int
      BY <1>3, <1>5, <1>10
    <3> QED BY <2>1, <3>1, SumGrown
  <2>3. SumFunctionOnSet(g, S \cup {k}) = SumFunctionOnSet(f, S) + MetaBlocks(v) - 0
    BY <1>3, <1>5, <2>2
  <2> QED BY <1>1, <1>2, <1>6, <1>7, <1>10, <2>3 DEF S, f, g
<1> QED BY <1>9, <1>10

LEMMA AtomBuilt ==
    ASSUME PartsTypeOK, FiniteInv, NEW a \in AtomIds, NEW v \in AtomRecords,
           atom' = [atom EXCEPT ![a] = v]
    PROVE  /\ atom' \in [AtomIds -> AtomRecords \cup {Missing}]
           /\ Alive(atom') = Alive(atom) \cup {a} /\ IsFiniteSet(Alive(atom'))
           /\ SumFunctionOnSet(AtomCosts(atom'), Alive(atom')) =
                SumFunctionOnSet(AtomCosts(atom), Alive(atom)) + AtomBlocks(v)
                - (IF atom[a] = Missing THEN 0 ELSE AtomBlocks(atom[a]))
<1> DEFINE S == Alive(atom)
           f == AtomCosts(atom)
           g == AtomCosts(atom')
<1>1. atom' \in [AtomIds -> AtomRecords \cup {Missing}] /\ DOMAIN atom = AtomIds
  BY DEF PartsTypeOK
<1>2. Alive(atom') = S \cup {a}
  BY <1>1, AtomsAre, AliveWith
<1>3. g[a] = AtomBlocks(v) /\ g[a] \in Int
  BY <1>1, AtomsAre DEF AtomCosts
<1>4. \A j \in S \ {a} : g[j] = f[j]
  BY <1>1 DEF AtomCosts, Alive
<1>5. IsFiniteSet(S) /\ SumFunctionOnSet(f, S) \in Int /\ \A j \in S : f[j] \in Int
  BY CostsAre DEF FiniteInv
<1>6. IsFiniteSet(S \cup {a})
  BY <1>5, FS_AddElement
<1>7. a \in S <=> atom[a] # Missing
  BY <1>1 DEF Alive
<1>8. a \in S => f[a] = AtomBlocks(atom[a])
  BY <1>1 DEF AtomCosts
<1> HIDE DEF S, f, g
<1>9. CASE a \in S
  <2>1. SumFunctionOnSet(g, S) = SumFunctionOnSet(f, S) - f[a] + g[a]
    BY <1>3, <1>4, <1>5, <1>9, SumSwapped
  <2>2. S \cup {a} = S
    BY <1>9
  <2>3. f[a] \in Int
    BY <1>5, <1>9
  <2>4. SumFunctionOnSet(g, S) = SumFunctionOnSet(f, S) + AtomBlocks(v) - AtomBlocks(atom[a])
    BY <1>3, <1>5, <1>8, <1>9, <2>1, <2>3
  <2> QED BY <1>1, <1>2, <1>5, <1>7, <1>9, <2>2, <2>4 DEF S, f, g
<1>10. CASE a \notin S
  <2>1. \A j \in S : f[j] \in Int /\ g[j] = f[j]
    BY <1>4, <1>5, <1>10
  <2>2. SumFunctionOnSet(g, S \cup {a}) = SumFunctionOnSet(f, S) + g[a]
    <3>1. IsFiniteSet(S) /\ a \notin S /\ g[a] \in Int
      BY <1>3, <1>5, <1>10
    <3> QED BY <2>1, <3>1, SumGrown
  <2>3. SumFunctionOnSet(g, S \cup {a}) = SumFunctionOnSet(f, S) + AtomBlocks(v) - 0
    BY <1>3, <1>5, <2>2
  <2> QED BY <1>1, <1>2, <1>6, <1>7, <1>10, <2>3 DEF S, f, g
<1> QED BY <1>9, <1>10

LEMMA MetasFreed ==
    ASSUME PartsTypeOK, FiniteInv, NEW gone, gone \subseteq Alive(meta),
           meta' = Without(meta, gone)
    PROVE  /\ meta' \in [MetaIds -> MetaStructs \cup {Missing}]
           /\ Alive(meta') = Alive(meta) \ gone /\ IsFiniteSet(Alive(meta'))
           /\ SumFunctionOnSet(MetaCosts(meta'), Alive(meta')) =
                SumFunctionOnSet(MetaCosts(meta), Alive(meta)) - AllMetaBlocks(gone)
<1> DEFINE S == Alive(meta)
           f == MetaCosts(meta)
           g == MetaCosts(meta')
<1>1. meta' \in [MetaIds -> MetaStructs \cup {Missing}] /\ DOMAIN meta = MetaIds
  BY DEF PartsTypeOK, Without
<1>2. Alive(meta') = S \ gone
  BY AliveWithout
<1>3. \A j \in S \ gone : g[j] = f[j]
  BY <1>1, AliveWithout DEF MetaCosts, Alive
<1>4. IsFiniteSet(S) /\ (\A j \in S : f[j] \in Int) /\ AllMetaBlocks(gone) = SumFunctionOnSet(f, gone)
  BY CostsAre DEF FiniteInv
<1>5. IsFiniteSet(S \ gone)
  BY <1>4, FS_Subset
<1>6. gone \subseteq S
  OBVIOUS
<1> HIDE DEF S, f, g
<1>7. SumFunctionOnSet(g, S \ gone) = SumFunctionOnSet(f, S \ gone)
  BY <1>3, <1>5, SumSame
<1>8. SumFunctionOnSet(f, S \ gone) = SumFunctionOnSet(f, S) - SumFunctionOnSet(f, gone)
  BY <1>4, <1>6, SumCut
<1> QED BY <1>1, <1>2, <1>4, <1>5, <1>7, <1>8 DEF S, f, g

LEMMA AtomsFreed ==
    ASSUME PartsTypeOK, FiniteInv, NEW gone, gone \subseteq Alive(atom),
           atom' = Without(atom, gone)
    PROVE  /\ atom' \in [AtomIds -> AtomRecords \cup {Missing}]
           /\ Alive(atom') = Alive(atom) \ gone /\ IsFiniteSet(Alive(atom'))
           /\ \A a \in Alive(atom') : atom'[a] = atom[a]
           /\ SumFunctionOnSet(AtomCosts(atom), gone) \in Int
           /\ SumFunctionOnSet(AtomCosts(atom'), Alive(atom')) =
                SumFunctionOnSet(AtomCosts(atom), Alive(atom)) - SumFunctionOnSet(AtomCosts(atom), gone)
<1> DEFINE S == Alive(atom)
           f == AtomCosts(atom)
           g == AtomCosts(atom')
<1>1. atom' \in [AtomIds -> AtomRecords \cup {Missing}] /\ DOMAIN atom = AtomIds
  BY DEF PartsTypeOK, Without
<1>2. Alive(atom') = S \ gone /\ \A a \in S \ gone : atom'[a] = atom[a]
  BY AliveWithout
<1>3. \A j \in S \ gone : g[j] = f[j]
  BY <1>1, <1>2 DEF AtomCosts, Alive
<1>4. IsFiniteSet(S) /\ \A j \in S : f[j] \in Int
  BY CostsAre DEF FiniteInv
<1>5. IsFiniteSet(S \ gone) /\ IsFiniteSet(gone)
  BY <1>4, FS_Subset
<1>6. gone \subseteq S
  OBVIOUS
<1> HIDE DEF S, f, g
<1>7. SumFunctionOnSet(g, S \ gone) = SumFunctionOnSet(f, S \ gone)
  BY <1>3, <1>5, SumSame
<1>8. SumFunctionOnSet(f, S \ gone) = SumFunctionOnSet(f, S) - SumFunctionOnSet(f, gone)
  BY <1>4, <1>6, SumCut
<1>9. SumFunctionOnSet(f, gone) \in Int
  BY <1>4, <1>5, <1>6, SumInt
<1> QED BY <1>1, <1>2, <1>4, <1>5, <1>7, <1>8, <1>9 DEF S, f, g

-----------------------------------------------------------------------------
(* Each call keeps the invariant. *)

LEMMA PartsStart == PartsInit => PartsInv
<1> SUFFICES ASSUME PartsInit PROVE PartsInv
  OBVIOUS
<1>1. PartsTypeOK /\ ArrayInv /\ HeldInv /\ MoleculeIsNumbered /\ Alive(meta) = {} /\ Alive(atom) = {}
  BY DEF PartsInit, PartsTypeOK, ArrayInv, HeldInv, MoleculeIsNumbered, Alive, ListItems, MoleculeAtoms
<1>2. FiniteInv
  BY <1>1, FS_EmptySet DEF FiniteInv
<1>3. CostInv
  <2>1. SumFunctionOnSet(MetaCosts(meta), {}) = 0 /\ SumFunctionOnSet(AtomCosts(atom), {}) = 0
    BY SumEmpty
  <2>2. ListCost(list) = 0 /\ MoleculeCost(molecule) = 0 /\ blocks = 0
    BY DEF PartsInit, ListCost, MoleculeCost
  <2> QED BY <1>1, <2>1, <2>2 DEF CostInv
<1> QED BY <1>1, <1>2, <1>3 DEF PartsInv

LEMMA CreateMetaKeeps ==
    ASSUME PartsInv, NEW k \in MetaIds, CreateMeta(k)
    PROVE  PartsInv'
<1>1. PICK got \in 0..3 :
        IF got = 3 THEN meta' = [meta EXCEPT ![k] = MetaOf(3)] /\ blocks' = blocks + 3
        ELSE /\ blocks' = blocks + got - (IF got = 0 THEN 0 ELSE MetaBlocks(MetaOf(got)))
             /\ UNCHANGED meta
  BY DEF CreateMeta
<1>2. PartsTypeOK /\ FiniteInv /\ ArrayInv /\ HeldInv /\ CostInv /\ MoleculeIsNumbered
  BY DEF PartsInv
<1>3. list' = list /\ atom' = atom /\ molecule' = molecule /\ meta[k] = Missing
  BY DEF CreateMeta
<1> DEFINE a == SumFunctionOnSet(MetaCosts(meta), Alive(meta))
           b == SumFunctionOnSet(AtomCosts(atom), Alive(atom))
           c == ListCost(list)
           d == MoleculeCost(molecule)
<1>4. blocks = a + c + b + d /\ a \in Int /\ b \in Int /\ c \in Int /\ d \in Int
  BY <1>2, CostsAre DEF CostInv
<1>5. ArrayInv' /\ MoleculeIsNumbered'
  BY <1>2, <1>3 DEF ArrayInv, MoleculeIsNumbered
<1>6. CASE got = 3
  <2>1. meta' = [meta EXCEPT ![k] = MetaOf(3)] /\ blocks' = blocks + 3
    BY <1>1, <1>6
  <2> DEFINE e == SumFunctionOnSet(MetaCosts(meta'), Alive(meta'))
  <2>2. /\ meta' \in [MetaIds -> MetaStructs \cup {Missing}]
        /\ Alive(meta') = Alive(meta) \cup {k} /\ IsFiniteSet(Alive(meta'))
        /\ e = a + 3 - 0
    BY <1>2, <1>3, <2>1, MetaOfIs, MetaBuilt
  <2> HIDE DEF a, b, c, d, e
  <2>3. blocks' = e + c + b + d
    BY <1>4, <2>1, <2>2
  <2> USE DEF a, b, c, d, e
  <2>4. CostInv'
    BY <1>3, <2>3 DEF CostInv
  <2>5. PartsTypeOK' /\ FiniteInv' /\ HeldInv'
    BY <1>2, <1>3, <2>2 DEF PartsTypeOK, FiniteInv, HeldInv
  <2> QED BY <1>5, <2>4, <2>5 DEF PartsInv
<1>7. CASE got # 3
  <2>1. meta' = meta /\ blocks' = blocks + got - (IF got = 0 THEN 0 ELSE MetaBlocks(MetaOf(got)))
    BY <1>1, <1>7
  <2>2. blocks' = blocks
    <3>1. blocks \in Int /\ got \in {0, 1, 2}
      BY <1>4, <1>7
    <3> HIDE DEF a, b, c, d
    <3> QED BY <2>1, <3>1, MetaOfIs
  <2> QED
    BY <1>2, <1>3, <1>5, <2>1, <2>2 DEF PartsInv, PartsTypeOK, FiniteInv, HeldInv, CostInv
<1> QED BY <1>6, <1>7

LEMMA SetValueKeeps ==
    ASSUME PartsInv, NEW k \in MetaIds, SetValue(k)
    PROVE  PartsInv'
<1>1. PICK v : meta' = [meta EXCEPT ![k] = v] /\ v \in MetaStructs /\ meta[k] # Missing
               /\ blocks' = blocks - MetaBlocks(meta[k]) + MetaBlocks(v)
  <2>1. PICK ok \in BOOLEAN :
          /\ meta' = [meta EXCEPT ![k] = IF ok THEN @ \cup {"value"} ELSE @ \ {"value"}]
          /\ blocks' = blocks - MetaBlocks(meta[k]) + MetaBlocks(meta'[k])
    BY DEF SetValue
  <2> DEFINE v == IF ok THEN meta[k] \cup {"value"} ELSE meta[k] \ {"value"}
  <2>2. meta[k] \in MetaStructs /\ meta[k] # Missing /\ DOMAIN meta = MetaIds
    BY DEF SetValue, PartsInv, PartsTypeOK
  <2>3. v \in MetaStructs
    BY <2>2 DEF MetaStructs
  <2>4. meta' = [meta EXCEPT ![k] = v]
    BY <2>1
  <2>5. meta'[k] = v
    BY <2>2, <2>4
  <2> HIDE DEF v
  <2> QED BY <2>1, <2>2, <2>3, <2>4, <2>5
<1>2. PartsTypeOK /\ FiniteInv /\ ArrayInv /\ HeldInv /\ CostInv /\ MoleculeIsNumbered
  BY DEF PartsInv
<1>3. list' = list /\ atom' = atom /\ molecule' = molecule
  BY DEF SetValue
<1> DEFINE a == SumFunctionOnSet(MetaCosts(meta), Alive(meta))
           b == SumFunctionOnSet(AtomCosts(atom), Alive(atom))
           c == ListCost(list)
           d == MoleculeCost(molecule)
           e == SumFunctionOnSet(MetaCosts(meta'), Alive(meta'))
<1>4. blocks = a + c + b + d /\ a \in Int /\ b \in Int /\ c \in Int /\ d \in Int
  BY <1>2, CostsAre DEF CostInv
<1>5. MetaBlocks(v) \in Int /\ MetaBlocks(meta[k]) \in Int
  <2>1. meta[k] \in MetaStructs
    BY <1>1, <1>2 DEF PartsTypeOK
  <2> QED BY <1>1, <2>1, StringsAre
<1>6. /\ meta' \in [MetaIds -> MetaStructs \cup {Missing}]
      /\ Alive(meta') = Alive(meta) \cup {k} /\ IsFiniteSet(Alive(meta'))
      /\ e = a + MetaBlocks(v) - MetaBlocks(meta[k])
  <2>1. /\ meta' \in [MetaIds -> MetaStructs \cup {Missing}]
        /\ Alive(meta') = Alive(meta) \cup {k} /\ IsFiniteSet(Alive(meta'))
        /\ e = a + MetaBlocks(v) - (IF meta[k] = Missing THEN 0 ELSE MetaBlocks(meta[k]))
    BY <1>1, <1>2, MetaBuilt
  <2> QED BY <1>1, <2>1
<1> HIDE DEF a, b, c, d, e
<1>7. blocks' = e + c + b + d
  BY <1>1, <1>4, <1>5, <1>6
<1> USE DEF a, b, c, d, e
<1>8. CostInv'
  BY <1>3, <1>7 DEF CostInv
<1>9. PartsTypeOK' /\ FiniteInv' /\ HeldInv'
  BY <1>2, <1>3, <1>6 DEF PartsTypeOK, FiniteInv, HeldInv
<1>10. ArrayInv' /\ MoleculeIsNumbered'
  BY <1>2, <1>3 DEF ArrayInv, MoleculeIsNumbered
<1> QED BY <1>8, <1>9, <1>10 DEF PartsInv

\* What is freed of the metas is nobody's.
LEMMA FreeMetaKeeps ==
    ASSUME PartsInv, NEW k \in MetaIds, FreeMeta(k)
    PROVE  PartsInv'
<1>1. PartsTypeOK /\ FiniteInv /\ ArrayInv /\ HeldInv /\ CostInv /\ MoleculeIsNumbered
  BY DEF PartsInv
<1>2. list' = list /\ atom' = atom /\ molecule' = molecule /\ meta' = Without(meta, {k})
      /\ blocks' = blocks - MetaBlocks(meta[k]) /\ k \in Alive(meta) /\ k \notin HeldMetas
  BY DEF FreeMeta, LooseMetas
<1> DEFINE a == SumFunctionOnSet(MetaCosts(meta), Alive(meta))
           b == SumFunctionOnSet(AtomCosts(atom), Alive(atom))
           c == ListCost(list)
           d == MoleculeCost(molecule)
           e == SumFunctionOnSet(MetaCosts(meta'), Alive(meta'))
<1>3. blocks = a + c + b + d /\ a \in Int /\ b \in Int /\ c \in Int /\ d \in Int
  BY <1>1, CostsAre DEF CostInv
<1>4. AllMetaBlocks({k}) = MetaBlocks(meta[k]) /\ MetaBlocks(meta[k]) \in Int
  <2>1. MetaCosts(meta)[k] = MetaBlocks(meta[k]) /\ MetaCosts(meta)[k] \in Int
        /\ AllMetaBlocks({k}) = SumFunctionOnSet(MetaCosts(meta), {k})
    BY <1>1, <1>2, CostsAre
  <2> QED BY <2>1, SumOne
<1>5. /\ meta' \in [MetaIds -> MetaStructs \cup {Missing}]
      /\ Alive(meta') = Alive(meta) \ {k} /\ IsFiniteSet(Alive(meta'))
      /\ e = a - AllMetaBlocks({k})
  <2>1. {k} \subseteq Alive(meta)
    BY <1>2
  <2> QED BY <1>1, <1>2, <2>1, MetasFreed
<1> HIDE DEF a, b, c, d, e
<1>6. blocks' = e + c + b + d
  BY <1>2, <1>3, <1>4, <1>5
<1> USE DEF a, b, c, d, e
<1>7. CostInv'
  BY <1>2, <1>6 DEF CostInv
<1>8. PartsTypeOK' /\ FiniteInv'
  BY <1>1, <1>2, <1>5 DEF PartsTypeOK, FiniteInv
<1>9. HeldInv'
  <2>1. k \notin ListItems(list) /\ \A x \in Alive(atom) : k \notin ToSet(atom[x].meta)
    BY <1>2 DEF HeldMetas, ListedMetas, AtomMetas, ListItems
  <2> QED BY <1>1, <1>2, <1>5, <2>1 DEF HeldInv
<1>10. ArrayInv' /\ MoleculeIsNumbered'
  BY <1>1, <1>2 DEF ArrayInv, MoleculeIsNumbered
<1> QED BY <1>7, <1>8, <1>9, <1>10 DEF PartsInv

LEMMA CreateListKeeps ==
    ASSUME PartsInv, CreateList
    PROVE  PartsInv'
<1>1. PartsTypeOK /\ FiniteInv /\ ArrayInv /\ HeldInv /\ CostInv /\ MoleculeIsNumbered
  BY DEF PartsInv
<1>2. list = Missing /\ list' = [items |-> <<>>, capacity |-> FirstCapacity] /\ blocks' = blocks + 2
      /\ meta' = meta /\ atom' = atom /\ molecule' = molecule
  BY DEF CreateList, ListBlocks
<1>3. list' \in MetaArrays /\ list' # Missing /\ list'.items = <<>>
  <2>1. <<>> \in Seq(MetaIds) /\ FirstCapacity \in Nat
    BY CapacityAssumption
  <2>2. list' \in MetaArrays
    BY <1>2, <2>1 DEF MetaArrays
  <2> QED BY <1>2, <2>2, PartsAssumption
<1>4. ListItems(list') = {} /\ ListCost(list') = 2 /\ ListCost(list) = 0
  BY <1>2, <1>3 DEF ListItems, ListCost, ListBlocks, ToSet
<1> DEFINE a == SumFunctionOnSet(MetaCosts(meta), Alive(meta))
           b == SumFunctionOnSet(AtomCosts(atom), Alive(atom))
           d == MoleculeCost(molecule)
<1>5. blocks = a + ListCost(list) + b + d /\ a \in Int /\ b \in Int /\ d \in Int
  BY <1>1, CostsAre DEF CostInv
<1> HIDE DEF a, b, d
<1>6. blocks' = a + ListCost(list') + b + d
  BY <1>2, <1>4, <1>5
<1>7. CostInv'
  BY <1>2, <1>6 DEF CostInv, a, b, d
<1>8. PartsTypeOK' /\ FiniteInv' /\ HeldInv'
  BY <1>1, <1>2, <1>3, <1>4 DEF PartsTypeOK, FiniteInv, HeldInv
<1>9. ArrayInv' /\ MoleculeIsNumbered'
  BY <1>1, <1>2 DEF ArrayInv, MoleculeIsNumbered
<1> QED BY <1>7, <1>8, <1>9 DEF PartsInv

LEMMA AddToListKeeps ==
    ASSUME PartsInv, NEW k \in MetaIds, AddToList(k)
    PROVE  PartsInv'
<1>1. PartsTypeOK /\ FiniteInv /\ ArrayInv /\ HeldInv /\ CostInv /\ MoleculeIsNumbered
  BY DEF PartsInv
<1>2. list # Missing /\ k \in Alive(meta) /\ meta' = meta /\ atom' = atom /\ molecule' = molecule
      /\ list' = [items |-> Append(list.items, k), capacity |-> Resized(list.items, list.capacity)]
      /\ blocks' = blocks
  BY DEF AddToList
<1>3. list.items \in Seq(MetaIds) /\ list.capacity \in Nat
  BY <1>1, <1>2 DEF PartsTypeOK, MetaArrays
<1>4. list' \in MetaArrays
  <2>1. Append(list.items, k) \in Seq(MetaIds)
    BY <1>3
  <2>2. Resized(list.items, list.capacity) \in Nat
    BY <1>3 DEF Resized
  <2> QED BY <1>2, <2>1, <2>2 DEF MetaArrays
<1>5. list' # Missing /\ list'.items = Append(list.items, k)
  BY <1>2, <1>4, PartsAssumption
<1>6. ListItems(list') = ListItems(list) \cup {k}
  <2>1. ToSet(Append(list.items, k)) = ToSet(list.items) \cup {k}
    BY <1>3, ItemsAfter
  <2>2. ListItems(list') = ToSet(list'.items) /\ ListItems(list) = ToSet(list.items)
    BY <1>2, <1>5 DEF ListItems
  <2> QED BY <1>5, <2>1, <2>2
<1>7. ListCost(list') = ListCost(list)
  BY <1>2, <1>5 DEF ListCost
<1>8. CostInv'
  BY <1>1, <1>2, <1>7 DEF CostInv
<1>9. PartsTypeOK' /\ FiniteInv' /\ HeldInv'
  BY <1>1, <1>2, <1>4, <1>6 DEF PartsTypeOK, FiniteInv, HeldInv
<1>10. ArrayInv' /\ MoleculeIsNumbered'
  BY <1>1, <1>2 DEF ArrayInv, MoleculeIsNumbered
<1> QED BY <1>8, <1>9, <1>10 DEF PartsInv

LEMMA FreeListKeeps ==
    ASSUME PartsInv, NEW items \in BOOLEAN, FreeList(items)
    PROVE  PartsInv'
<1>1. PartsTypeOK /\ FiniteInv /\ ArrayInv /\ HeldInv /\ CostInv /\ MoleculeIsNumbered
  BY DEF PartsInv
<1>2. list # Missing /\ list' = Missing /\ atom' = atom /\ molecule' = molecule
      /\ meta' = (IF items THEN Without(meta, ToSet(list.items)) ELSE meta)
      /\ blocks' = blocks - 2 - (IF items THEN AllMetaBlocks(ToSet(list.items)) ELSE 0)
      /\ (items => ListedMetas \cap AtomMetas(Alive(atom)) = {})
  BY DEF FreeList, ListBlocks
<1> DEFINE a == SumFunctionOnSet(MetaCosts(meta), Alive(meta))
           b == SumFunctionOnSet(AtomCosts(atom), Alive(atom))
           d == MoleculeCost(molecule)
           e == SumFunctionOnSet(MetaCosts(meta'), Alive(meta'))
           s == ToSet(list.items)
<1>3. blocks = a + 2 + b + d /\ a \in Int /\ b \in Int /\ d \in Int
  <2>1. ListCost(list) = 2
    BY <1>2 DEF ListCost, ListBlocks
  <2> QED BY <1>1, <2>1, CostsAre DEF CostInv
<1>4. ListCost(list') = 0 /\ ListItems(list') = {} /\ s = ListItems(list) /\ s \subseteq Alive(meta)
  BY <1>1, <1>2 DEF ListCost, ListItems, HeldInv
<1>5. ArrayInv' /\ MoleculeIsNumbered'
  BY <1>1, <1>2 DEF ArrayInv, MoleculeIsNumbered
<1>6. CASE items
  <2>1. /\ meta' \in [MetaIds -> MetaStructs \cup {Missing}]
        /\ Alive(meta') = Alive(meta) \ s /\ IsFiniteSet(Alive(meta'))
        /\ e = a - AllMetaBlocks(s)
    <3>1. meta' = Without(meta, s)
      BY <1>2, <1>6
    <3> HIDE DEF s
    <3> QED BY <1>1, <1>4, <3>1, MetasFreed
  <2>2. AllMetaBlocks(s) \in Int /\ blocks' = blocks - 2 - AllMetaBlocks(s)
    <3>1. blocks' = blocks - 2 - AllMetaBlocks(s)
      BY <1>2, <1>6
    <3> HIDE DEF s
    <3>2. AllMetaBlocks(s) \in Int
      BY <1>1, <1>4, CostsAre
    <3> QED BY <3>1, <3>2
  <2> DEFINE x == AllMetaBlocks(s)
  <2>3. x \in Int /\ e = a - x /\ blocks' = blocks - 2 - x
    BY <2>1, <2>2
  <2> HIDE DEF a, b, d, e, x
  <2>4. blocks' = e + 0 + b + d
    BY <1>3, <2>3
  <2>5. CostInv'
    BY <1>2, <1>4, <2>4 DEF CostInv, e, b, d
  <2>6. \A y \in Alive(atom) : ToSet(atom[y].meta) \cap s = {}
    <3>1. s \cap AtomMetas(Alive(atom)) = {}
      BY <1>2, <1>6 DEF ListedMetas
    <3> HIDE DEF s
    <3> QED BY <3>1 DEF AtomMetas
  <2>7. PartsTypeOK' /\ FiniteInv' /\ HeldInv'
    <3> HIDE DEF s
    <3> QED BY <1>1, <1>2, <1>4, <2>1, <2>6 DEF PartsTypeOK, FiniteInv, HeldInv
  <2> QED BY <1>5, <2>5, <2>7 DEF PartsInv
<1>7. CASE ~items
  <2>1. meta' = meta /\ blocks' = blocks - 2 - 0
    BY <1>2, <1>7
  <2> HIDE DEF a, b, d, e, s
  <2>2. blocks' = a + 0 + b + d
    BY <1>3, <2>1
  <2>3. CostInv'
    BY <1>2, <1>4, <2>1, <2>2 DEF CostInv, a, b, d
  <2>4. PartsTypeOK' /\ FiniteInv' /\ HeldInv'
    BY <1>1, <1>2, <1>4, <2>1 DEF PartsTypeOK, FiniteInv, HeldInv
  <2> QED BY <1>5, <2>3, <2>4 DEF PartsInv
<1> QED BY <1>6, <1>7

\* An atom that is built, or built on, from what no other atom has, is like the others.
LEMMA AtomInOrder ==
    ASSUME PartsTypeOK, ArrayInv, HeldInv, NEW a \in AtomIds, NEW v \in AtomRecords,
           atom' = [atom EXCEPT ![a] = v], meta' = meta, list' = list,
           v.array = (IF v.meta = <<>> THEN 0 ELSE 1), ToSet(v.meta) \subseteq Alive(meta),
           \A b \in Alive(atom) \ {a} : ToSet(v.meta) \cap ToSet(atom[b].meta) = {}
    PROVE  /\ ArrayInv'
           /\ MoleculeAtoms(molecule') \subseteq Alive(atom) \cup {a} => HeldInv'
<1>1. DOMAIN atom = AtomIds /\ Alive(atom') = Alive(atom) \cup {a}
  BY AtomsAre, AliveWith DEF PartsTypeOK
<1>2. atom'[a] = v /\ \A b \in Alive(atom) \ {a} : atom'[b] = atom[b]
  BY <1>1 DEF Alive
<1>3. ArrayInv'
  <2>1. \A b \in Alive(atom') : atom'[b].array = (IF atom'[b].meta = <<>> THEN 0 ELSE 1)
    BY <1>1, <1>2 DEF ArrayInv
  <2>2. \A b, c \in Alive(atom') : b # c => ToSet(atom'[b].meta) \cap ToSet(atom'[c].meta) = {}
    BY <1>1, <1>2 DEF ArrayInv
  <2> QED BY <2>1, <2>2 DEF ArrayInv
<1>4. ASSUME MoleculeAtoms(molecule') \subseteq Alive(atom) \cup {a} PROVE HeldInv'
  BY <1>1, <1>2, <1>4 DEF HeldInv
<1> QED BY <1>3, <1>4

LEMMA CreateAtomKeeps ==
    ASSUME PartsInv, NEW a \in AtomIds, NEW metas \in {<<>>} \cup {<<k>> : k \in FreeForAtoms},
           CreateAtom(a, metas)
    PROVE  PartsInv'
<1>1. PartsTypeOK /\ FiniteInv /\ ArrayInv /\ HeldInv /\ CostInv /\ MoleculeIsNumbered
  BY DEF PartsInv
<1>2. atom[a] = Missing /\ meta' = meta /\ list' = list /\ molecule' = molecule
  BY DEF CreateAtom
<1> DEFINE whole == IF metas = <<>> THEN 2 ELSE 3
<1>3. PICK got \in 0..whole :
        IF got = whole
        THEN atom' = [atom EXCEPT ![a] = AtomOf(whole, metas)] /\ blocks' = blocks + whole
        ELSE /\ blocks' = blocks + got - (IF got = 0 THEN 0 ELSE AtomBlocks(AtomOf(got, metas)))
             /\ UNCHANGED atom
  BY DEF CreateAtom
<1>4. whole \in {2, 3} /\ (whole = 3 <=> metas # <<>>)
  OBVIOUS
<1>5. metas \in Seq(MetaIds) /\ ToSet(metas) \subseteq FreeForAtoms
  <2>1. FreeForAtoms \subseteq MetaIds
    BY <1>1, CostsAre DEF FreeForAtoms
  <2>2. CASE metas = <<>>
    BY <2>2 DEF ToSet
  <2>3. CASE metas # <<>>
    <3>1. PICK k \in FreeForAtoms : metas = <<k>>
      BY <2>3
    <3>2. ToSet(metas) = {k}
      BY <3>1 DEF ToSet
    <3> QED BY <2>1, <3>1, <3>2
  <2> QED BY <2>2, <2>3
<1> HIDE DEF whole
<1> DEFINE v == AtomOf(whole, metas)
           p == SumFunctionOnSet(MetaCosts(meta), Alive(meta))
           q == SumFunctionOnSet(AtomCosts(atom), Alive(atom))
           c == ListCost(list)
           d == MoleculeCost(molecule)
           e == SumFunctionOnSet(AtomCosts(atom'), Alive(atom'))
<1>6. blocks = p + c + q + d /\ p \in Int /\ q \in Int /\ c \in Int /\ d \in Int
  BY <1>1, CostsAre DEF CostInv
<1>7. CASE got = whole
  <2>1. atom' = [atom EXCEPT ![a] = v] /\ blocks' = blocks + whole
    BY <1>3, <1>7
  <2>2. v = [strings |-> 1, array |-> whole - 2, meta |-> metas, index |-> -1]
    BY <1>4 DEF AtomOf
  <2>3. v \in AtomRecords /\ AtomBlocks(v) = whole /\ v.meta = metas /\ v.array = whole - 2
    BY <1>4, <1>5, <2>2 DEF AtomRecords, AtomBlocks
  <2> HIDE DEF v, p, q, c, d, e
  <2>4. /\ atom' \in [AtomIds -> AtomRecords \cup {Missing}]
        /\ Alive(atom') = Alive(atom) \cup {a} /\ IsFiniteSet(Alive(atom'))
        /\ e = q + AtomBlocks(v) - 0
    BY <1>1, <1>2, <2>1, <2>3, AtomBuilt DEF q, e
  <2>5. blocks' = p + c + e + d
    BY <1>4, <1>6, <2>1, <2>3, <2>4
  <2>6. CostInv'
    BY <1>2, <2>5 DEF CostInv, p, c, e, d
  <2>7. ToSet(v.meta) \subseteq Alive(meta)
        /\ \A b \in Alive(atom) \ {a} : ToSet(v.meta) \cap ToSet(atom[b].meta) = {}
    BY <1>5, <2>3 DEF FreeForAtoms, AtomMetas
  <2>8. ArrayInv' /\ (MoleculeAtoms(molecule') \subseteq Alive(atom) \cup {a} => HeldInv')
    <3>1. v.array = (IF v.meta = <<>> THEN 0 ELSE 1)
      BY <1>4, <2>3
    <3> QED BY <1>1, <1>2, <2>1, <2>3, <2>7, <3>1, AtomInOrder
  <2>9. HeldInv'
    BY <1>1, <1>2, <2>8 DEF HeldInv
  <2>10. PartsTypeOK' /\ FiniteInv'
    BY <1>1, <1>2, <2>4 DEF PartsTypeOK, FiniteInv
  <2>11. MoleculeIsNumbered'
    <3>1. ASSUME molecule # Missing, NEW i \in DOMAIN molecule.atoms
          PROVE  atom'[molecule.atoms[i]] = atom[molecule.atoms[i]]
      <4>1. molecule.atoms[i] \in Alive(atom)
        BY <1>1, <3>1 DEF HeldInv, MoleculeAtoms, ToSet
      <4>2. molecule.atoms[i] # a
        BY <1>2, <4>1 DEF Alive
      <4> QED BY <2>1, <4>1, <4>2 DEF Alive
    <3> QED BY <1>1, <1>2, <3>1 DEF MoleculeIsNumbered
  <2> QED BY <2>6, <2>8, <2>9, <2>10, <2>11 DEF PartsInv
<1>8. CASE got # whole
  <2>1. atom' = atom /\ blocks' = blocks + got - (IF got = 0 THEN 0 ELSE AtomBlocks(AtomOf(got, metas)))
    BY <1>3, <1>8
  <2>2. got \in {0, 1, 2} /\ got < 3
    BY <1>4, <1>8
  <2>3. got # 0 => AtomBlocks(AtomOf(got, metas)) = got
    <3>1. got = 1 => AtomOf(got, metas) = [strings |-> 0, array |-> 0, meta |-> <<>>, index |-> -1]
      BY DEF AtomOf
    <3>2. got = 2 => AtomOf(got, metas) = [strings |-> 1, array |-> 0, meta |-> <<>>, index |-> -1]
      BY DEF AtomOf
    <3> QED BY <2>2, <3>1, <3>2 DEF AtomBlocks
  <2>4. blocks \in Int
    BY <1>6
  <2>5. blocks' = blocks
    BY <2>1, <2>2, <2>3, <2>4
  <2> QED
    BY <1>1, <1>2, <2>1, <2>5 DEF PartsInv, PartsTypeOK, FiniteInv, ArrayInv, HeldInv, CostInv, MoleculeIsNumbered
<1> QED BY <1>7, <1>8

LEMMA AddMetaKeeps ==
    ASSUME PartsInv, NEW a \in AtomIds, NEW k \in MetaIds, AddMeta(a, k)
    PROVE  PartsInv'
<1>1. PartsTypeOK /\ FiniteInv /\ ArrayInv /\ HeldInv /\ CostInv /\ MoleculeIsNumbered
  BY DEF PartsInv
<1>2. atom[a] # Missing /\ k \in FreeForAtoms /\ meta' = meta /\ list' = list /\ molecule' = molecule
      /\ atom' = [atom EXCEPT ![a].meta = Append(@, k), ![a].array = 1]
      /\ blocks' = IF atom[a].meta = <<>> THEN blocks + 1 ELSE blocks
  BY DEF AddMeta
<1> DEFINE u == atom[a]
           v == [strings |-> u.strings, array |-> 1, meta |-> Append(u.meta, k), index |-> u.index]
<1>3. u \in AtomRecords /\ a \in Alive(atom) /\ DOMAIN atom = AtomIds
  BY <1>1, <1>2 DEF PartsTypeOK, Alive
<1> DEFINE x == Append(u.meta, k)
<1>4. atom' = [atom EXCEPT ![a] = v]
  <2>1. u = [strings |-> u.strings, array |-> u.array, meta |-> u.meta, index |-> u.index]
    BY <1>3 DEF AtomRecords
  <2> DEFINE w == [u EXCEPT !.meta = x]
  <2>2. w = [strings |-> u.strings, array |-> u.array, meta |-> x, index |-> u.index]
    <3> HIDE DEF x, u
    <3> QED BY <2>1
  <2>3. atom' = [atom EXCEPT ![a] = [w EXCEPT !.array = 1]]
    BY <1>2, <1>3
  <2> HIDE DEF w
  <2>4. [w EXCEPT !.array = 1] = v
    <3> HIDE DEF x, u
    <3>1. [w EXCEPT !.array = 1] = [strings |-> u.strings, array |-> 1, meta |-> x, index |-> u.index]
      BY <2>2
    <3> QED BY <3>1 DEF x
  <2> HIDE DEF v
  <2> QED BY <2>3, <2>4
<1>5. u.meta \in Seq(MetaIds) /\ u.strings \in {0, 1} /\ u.index \in Int /\ u.array \in {0, 1}
      /\ AtomBlocks(u) = 1 + u.strings + u.array
      /\ u.array = (IF u.meta = <<>> THEN 0 ELSE 1)
  BY <1>1, <1>3 DEF AtomRecords, AtomBlocks, ArrayInv
<1> HIDE DEF u
<1>6. Append(u.meta, k) \in Seq(MetaIds) /\ Append(u.meta, k) # <<>>
  BY <1>5
<1>7. v \in AtomRecords /\ v.meta = Append(u.meta, k) /\ v.array = 1 /\ v.index = u.index
      /\ AtomBlocks(v) = 2 + u.strings
  <2>1. v.meta = Append(u.meta, k) /\ v.array = 1 /\ v.index = u.index /\ v.strings = u.strings
    OBVIOUS
  <2>2. v \in AtomRecords
    <3>1. v = [strings |-> u.strings, array |-> 1, meta |-> x, index |-> u.index] /\ x \in Seq(MetaIds)
      BY <1>6
    <3> HIDE DEF v, x
    <3> QED BY <1>5, <3>1 DEF AtomRecords
  <2> HIDE DEF v
  <2>3. AtomBlocks(v) = 2 + u.strings
    BY <1>5, <2>1 DEF AtomBlocks
  <2> QED BY <2>1, <2>2, <2>3
<1> DEFINE p == SumFunctionOnSet(MetaCosts(meta), Alive(meta))
           q == SumFunctionOnSet(AtomCosts(atom), Alive(atom))
           c == ListCost(list)
           d == MoleculeCost(molecule)
           e == SumFunctionOnSet(AtomCosts(atom'), Alive(atom'))
<1>8. blocks = p + c + q + d /\ p \in Int /\ q \in Int /\ c \in Int /\ d \in Int
  BY <1>1, CostsAre DEF CostInv
<1> HIDE DEF v, p, q, c, d, e
<1>9. /\ atom' \in [AtomIds -> AtomRecords \cup {Missing}]
      /\ Alive(atom') = Alive(atom) \cup {a} /\ IsFiniteSet(Alive(atom'))
      /\ e = q + AtomBlocks(v) - AtomBlocks(u)
  BY <1>1, <1>2, <1>4, <1>7, AtomBuilt DEF q, e, u
<1>10. AtomBlocks(v) - AtomBlocks(u) = (IF u.meta = <<>> THEN 1 ELSE 0)
       /\ AtomBlocks(v) \in Int /\ AtomBlocks(u) \in Int
  BY <1>5, <1>7
<1>11. blocks' = p + c + e + d
  <2>1. blocks' = blocks + (IF u.meta = <<>> THEN 1 ELSE 0)
    BY <1>2, <1>8 DEF u
  <2> DEFINE y == AtomBlocks(u)
             z == IF u.meta = <<>> THEN 1 ELSE 0
             n == AtomBlocks(v)
  <2>2. z \in Int /\ n - y = z /\ n \in Int /\ y \in Int /\ e = q + n - y /\ blocks' = blocks + z
    BY <1>9, <1>10, <2>1
  <2> HIDE DEF n, y, z
  <2> QED BY <1>8, <2>2
<1>12. CostInv'
  BY <1>2, <1>11 DEF CostInv, p, c, e, d
<1>13. ToSet(v.meta) = ToSet(u.meta) \cup {k}
  BY <1>5, <1>7, ItemsAfter
<1>14. ToSet(v.meta) \subseteq Alive(meta)
       /\ \A b \in Alive(atom) \ {a} : ToSet(v.meta) \cap ToSet(atom[b].meta) = {}
  <2>1. ToSet(u.meta) \subseteq Alive(meta)
        /\ \A b \in Alive(atom) \ {a} : ToSet(u.meta) \cap ToSet(atom[b].meta) = {}
    BY <1>1, <1>3 DEF HeldInv, ArrayInv, u
  <2>2. k \in Alive(meta) /\ \A b \in Alive(atom) : k \notin ToSet(atom[b].meta)
    BY <1>2 DEF FreeForAtoms, AtomMetas
  <2> QED BY <1>13, <2>1, <2>2
<1>15. ArrayInv' /\ (MoleculeAtoms(molecule') \subseteq Alive(atom) \cup {a} => HeldInv')
  BY <1>1, <1>2, <1>4, <1>6, <1>7, <1>14, AtomInOrder
<1>16. HeldInv'
  BY <1>1, <1>2, <1>15 DEF HeldInv
<1>17. PartsTypeOK' /\ FiniteInv'
  BY <1>1, <1>2, <1>9 DEF PartsTypeOK, FiniteInv
<1>18. MoleculeIsNumbered'
  <2>1. ASSUME molecule # Missing, NEW i \in DOMAIN molecule.atoms
        PROVE  atom'[molecule.atoms[i]].index = atom[molecule.atoms[i]].index
    <3>1. molecule.atoms[i] \in AtomIds
      BY <1>1, <1>3, <2>1 DEF HeldInv, MoleculeAtoms, ToSet, Alive
    <3> QED BY <1>3, <1>4, <1>7, <3>1 DEF u
  <2> QED BY <1>1, <1>2, <2>1 DEF MoleculeIsNumbered
<1> QED BY <1>12, <1>15, <1>16, <1>17, <1>18 DEF PartsInv

\* Without some of the atoms, and without what nothing else has.
LEMMA FreedInOrder ==
    ASSUME PartsTypeOK, FiniteInv, ArrayInv, HeldInv, MoleculeIsNumbered,
           NEW gone, gone \subseteq Alive(atom), atom' = Without(atom, gone),
           NEW lost, lost \subseteq AtomMetas(gone), Alive(meta') = Alive(meta) \ lost,
           ListedMetas \cap lost = {}, list' = list,
           molecule' = Missing \/ (molecule' = molecule /\ HeldAtoms \cap gone = {})
    PROVE  ArrayInv' /\ HeldInv' /\ MoleculeIsNumbered'
<1>1. Alive(atom') = Alive(atom) \ gone /\ \A a \in Alive(atom') : atom'[a] = atom[a]
  BY AtomsFreed
<1>2. ArrayInv'
  BY <1>1 DEF ArrayInv
<1>3. HeldInv'
  <2>1. \A a \in Alive(atom) \ gone : ToSet(atom[a].meta) \cap lost = {}
    BY DEF AtomMetas, ArrayInv
  <2>2. ListItems(list) = ListedMetas /\ MoleculeAtoms(molecule) = HeldAtoms
    BY DEF ListItems, ListedMetas, MoleculeAtoms, HeldAtoms
  <2>3. MoleculeAtoms(molecule') \subseteq Alive(atom) \ gone
    BY <2>2 DEF HeldInv, MoleculeAtoms
  <2> QED BY <1>1, <2>1, <2>2, <2>3 DEF HeldInv
<1>4. MoleculeIsNumbered'
  <2>1. ASSUME molecule # Missing, molecule' = molecule, HeldAtoms \cap gone = {},
               NEW i \in DOMAIN molecule.atoms
        PROVE  atom'[molecule.atoms[i]] = atom[molecule.atoms[i]]
    <3>1. molecule.atoms[i] \in HeldAtoms /\ HeldAtoms \subseteq Alive(atom)
      BY <2>1 DEF HeldAtoms, HeldInv, MoleculeAtoms, ToSet
    <3> QED BY <1>1, <2>1, <3>1
  <2> QED BY <2>1 DEF MoleculeIsNumbered
<1> QED BY <1>2, <1>3, <1>4

\* What the deep functions release: the atoms, and the metas of all of them.
LEMMA DeepIs ==
    ASSUME PartsTypeOK, FiniteInv, ArrayInv, HeldInv, NEW gone, gone \subseteq Alive(atom)
    PROVE  /\ AtomMetas(gone) \subseteq Alive(meta)
           /\ SumFunctionOnSet([a \in gone |-> DeepBlocks(a)], gone) =
                SumFunctionOnSet(AtomCosts(atom), gone) + AllMetaBlocks(AtomMetas(gone))
<1> DEFINE M == [a \in gone |-> ToSet(atom[a].meta)]
           f == MetaCosts(meta)
           g == [a \in gone |-> AllMetaBlocks(ToSet(atom[a].meta))]
           h == [a \in gone |-> DeepBlocks(a)]
           c == AtomCosts(atom)
<1>1. IsFiniteSet(gone)
  BY FS_Subset DEF FiniteInv
<1>2. \A a \in gone : M[a] = ToSet(atom[a].meta) /\ M[a] \subseteq Alive(meta)
  BY DEF HeldInv
<1>3. AtomMetas(gone) = UNION {M[a] : a \in gone} /\ AtomMetas(gone) \subseteq Alive(meta)
  BY <1>2 DEF AtomMetas
<1>4. \A a, b \in gone : a # b => M[a] \cap M[b] = {}
  BY <1>2 DEF ArrayInv
<1>5. \A a \in gone : g[a] = AllMetaBlocks(M[a]) /\ h[a] = AtomBlocks(atom[a]) + g[a]
                      /\ c[a] = AtomBlocks(atom[a]) /\ c[a] \in Int
  BY CostsAre DEF DeepBlocks
<1> HIDE DEF M, g, h, c, f
<1>6. \A a \in gone : IsFiniteSet(M[a]) /\ g[a] = SumFunctionOnSet(f, M[a]) /\ g[a] \in Int
  <2>1. ASSUME NEW a \in gone
        PROVE  IsFiniteSet(M[a]) /\ g[a] = SumFunctionOnSet(f, M[a]) /\ g[a] \in Int
    <3>1. M[a] \in SUBSET Alive(meta) /\ g[a] = AllMetaBlocks(M[a])
      BY <1>2, <1>5
    <3> QED BY <3>1, CostsAre DEF f
  <2> QED BY <2>1
<1>7. \A a \in gone : \A x \in M[a] : f[x] \in Int
  BY <1>2, CostsAre DEF f
<1>8. SumFunctionOnSet(g, gone) = SumFunctionOnSet(f, UNION {M[a] : a \in gone})
  BY <1>1, <1>4, <1>6, <1>7, SumOfSets
<1>9. SumFunctionOnSet(h, gone) = SumFunctionOnSet(c, gone) + SumFunctionOnSet(g, gone)
  <2>1. \A x \in gone : c[x] \in Int /\ g[x] \in Int /\ h[x] = c[x] + g[x]
    BY <1>5, <1>6
  <2> QED BY <1>1, <2>1, SumOfBoth
<1>10. AllMetaBlocks(AtomMetas(gone)) = SumFunctionOnSet(f, AtomMetas(gone))
  BY <1>3, CostsAre DEF f
<1> QED BY <1>3, <1>8, <1>9, <1>10 DEF h, c

LEMMA FreeAtomKeeps ==
    ASSUME PartsInv, NEW a \in AtomIds, FreeAtom(a)
    PROVE  PartsInv'
<1>1. PartsTypeOK /\ FiniteInv /\ ArrayInv /\ HeldInv /\ CostInv /\ MoleculeIsNumbered
  BY DEF PartsInv
<1>2. a \in Alive(atom) /\ a \notin HeldAtoms /\ atom' = Without(atom, {a}) /\ meta' = meta /\ list' = list
      /\ molecule' = molecule /\ blocks' = blocks - AtomBlocks(atom[a])
  BY DEF FreeAtom, LooseAtoms
<1>3. {a} \subseteq Alive(atom) /\ {} \subseteq AtomMetas({a}) /\ Alive(meta') = Alive(meta) \ {}
      /\ ListedMetas \cap {} = {} /\ HeldAtoms \cap {a} = {}
  BY <1>2
<1>4. ArrayInv' /\ HeldInv' /\ MoleculeIsNumbered'
  BY <1>1, <1>2, <1>3, FreedInOrder
<1> DEFINE p == SumFunctionOnSet(MetaCosts(meta), Alive(meta))
           q == SumFunctionOnSet(AtomCosts(atom), Alive(atom))
           c == ListCost(list)
           d == MoleculeCost(molecule)
           e == SumFunctionOnSet(AtomCosts(atom'), Alive(atom'))
           x == AtomBlocks(atom[a])
<1>5. blocks = p + c + q + d /\ p \in Int /\ q \in Int /\ c \in Int /\ d \in Int
  BY <1>1, CostsAre DEF CostInv
<1>6. SumFunctionOnSet(AtomCosts(atom), {a}) = x /\ x \in Int
  <2>1. AtomCosts(atom)[a] = x /\ AtomCosts(atom)[a] \in Int
    BY <1>1, <1>2, CostsAre
  <2> QED BY <2>1, SumOne
<1> HIDE DEF p, q, c, d, e, x
<1>7. /\ atom' \in [AtomIds -> AtomRecords \cup {Missing}] /\ IsFiniteSet(Alive(atom'))
      /\ e = q - x
  BY <1>1, <1>2, <1>3, <1>6, AtomsFreed DEF e, q
<1>8. blocks' = p + c + e + d
  BY <1>2, <1>5, <1>6, <1>7 DEF x
<1>9. CostInv'
  BY <1>2, <1>8 DEF CostInv, p, c, e, d
<1>10. PartsTypeOK' /\ FiniteInv'
  BY <1>1, <1>2, <1>7 DEF PartsTypeOK, FiniteInv
<1> QED BY <1>4, <1>9, <1>10 DEF PartsInv

\* Atoms that are freed deep, alone or with their molecule.
LEMMA FreedDeep ==
    ASSUME PartsInv, NEW gone, gone \subseteq Alive(atom),
           ListedMetas \cap AtomMetas(gone) = {},
           atom' = Without(atom, gone), meta' = Without(meta, AtomMetas(gone)), list' = list,
           molecule' = Missing \/ (molecule' = molecule /\ HeldAtoms \cap gone = {}),
           blocks' = blocks - SumFunctionOnSet([a \in gone |-> DeepBlocks(a)], gone)
                     - MoleculeCost(molecule) + MoleculeCost(molecule')
    PROVE  PartsInv'
<1>1. PartsTypeOK /\ FiniteInv /\ ArrayInv /\ HeldInv /\ CostInv /\ MoleculeIsNumbered
  BY DEF PartsInv
<1>2. AtomMetas(gone) \subseteq Alive(meta)
      /\ SumFunctionOnSet([a \in gone |-> DeepBlocks(a)], gone) =
            SumFunctionOnSet(AtomCosts(atom), gone) + AllMetaBlocks(AtomMetas(gone))
  BY <1>1, DeepIs
<1> DEFINE p == SumFunctionOnSet(MetaCosts(meta), Alive(meta))
           q == SumFunctionOnSet(AtomCosts(atom), Alive(atom))
           c == ListCost(list)
           d == MoleculeCost(molecule)
           e == SumFunctionOnSet(AtomCosts(atom'), Alive(atom'))
           f == SumFunctionOnSet(MetaCosts(meta'), Alive(meta'))
           g == MoleculeCost(molecule')
           x == SumFunctionOnSet(AtomCosts(atom), gone)
           y == AllMetaBlocks(AtomMetas(gone))
<1>3. blocks = p + c + q + d /\ p \in Int /\ q \in Int /\ c \in Int /\ d \in Int
  BY <1>1, CostsAre DEF CostInv
<1>4. g \in Int
  <2>1. g = 0 \/ g = d
    BY DEF MoleculeCost
  <2> HIDE DEF g, d
  <2> QED BY <1>3, <2>1
<1>5. /\ meta' \in [MetaIds -> MetaStructs \cup {Missing}]
      /\ Alive(meta') = Alive(meta) \ AtomMetas(gone) /\ IsFiniteSet(Alive(meta'))
      /\ f = p - y
  BY <1>1, <1>2, MetasFreed
<1>6. /\ atom' \in [AtomIds -> AtomRecords \cup {Missing}] /\ IsFiniteSet(Alive(atom'))
      /\ x \in Int /\ e = q - x
  BY <1>1, AtomsFreed
<1>7. y \in Int
  BY <1>1, <1>2, CostsAre
<1>8. blocks' = blocks - (x + y) - d + g
  BY <1>2
<1> HIDE DEF p, q, c, d, e, f, g, x, y
<1>9. blocks' = f + c + e + g
  BY <1>3, <1>4, <1>5, <1>6, <1>7, <1>8
<1>10. CostInv'
  BY <1>9 DEF CostInv, f, c, e, g
<1>11. ArrayInv' /\ HeldInv' /\ MoleculeIsNumbered'
  BY <1>1, <1>5, FreedInOrder
<1>12. PartsTypeOK' /\ FiniteInv'
  BY <1>1, <1>5, <1>6 DEF PartsTypeOK, FiniteInv
<1> QED BY <1>10, <1>11, <1>12 DEF PartsInv

LEMMA FreeAtomDeepKeeps ==
    ASSUME PartsInv, NEW a \in AtomIds, FreeAtomDeep(a)
    PROVE  PartsInv'
<1>1. PartsTypeOK /\ FiniteInv
  BY DEF PartsInv
<1>2. a \in Alive(atom) /\ a \notin HeldAtoms /\ ListedMetas \cap AtomMetas({a}) = {}
      /\ atom' = Without(atom, {a}) /\ meta' = Without(meta, ToSet(atom[a].meta))
      /\ blocks' = blocks - DeepBlocks(a) /\ list' = list /\ molecule' = molecule
  BY DEF FreeAtomDeep, LooseAtoms
<1>3. AtomMetas({a}) = ToSet(atom[a].meta)
  BY DEF AtomMetas
<1>4. {a} \subseteq Alive(atom) /\ HeldAtoms \cap {a} = {}
  BY <1>2
<1> DEFINE h == [x \in {a} |-> DeepBlocks(x)]
<1>5. DeepBlocks(a) \in Int /\ blocks \in Int /\ MoleculeCost(molecule) \in Int
  <2>1. AtomBlocks(atom[a]) \in Int
    BY <1>1, <1>2, CostsAre
  <2>2. ToSet(atom[a].meta) \in SUBSET Alive(meta)
    BY <1>2 DEF PartsInv, HeldInv
  <2>3. AllMetaBlocks(ToSet(atom[a].meta)) \in Int
    BY <1>1, <2>2, CostsAre
  <2>4. blocks \in Int /\ MoleculeCost(molecule) \in Int
    BY <1>1, CostsAre DEF PartsInv, CostInv
  <2> QED BY <2>1, <2>3, <2>4 DEF DeepBlocks
<1>6. SumFunctionOnSet(h, {a}) = DeepBlocks(a)
  <2>1. h[a] = DeepBlocks(a)
    OBVIOUS
  <2> HIDE DEF h
  <2> QED BY <1>5, <2>1, SumOne
<1>7. blocks' = blocks - SumFunctionOnSet(h, {a}) - MoleculeCost(molecule) + MoleculeCost(molecule')
  <2> HIDE DEF h
  <2> QED BY <1>2, <1>5, <1>6
<1> QED
  BY <1>2, <1>3, <1>4, <1>7, FreedDeep

LEMMA MoleculeIs ==
    ASSUME PartsTypeOK, molecule # Missing
    PROVE  molecule \in MoleculeStructs /\ molecule.strings \in Int /\ molecule.atoms \in Seq(AtomIds)
           /\ molecule.capacity \in Nat /\ molecule.hash \in Seq(AtomIds) \cup {Missing}
           /\ molecule = [strings |-> molecule.strings, atoms |-> molecule.atoms,
                          capacity |-> molecule.capacity, hash |-> molecule.hash]
  BY DEF PartsTypeOK, MoleculeStructs

\* A molecule that is made or changed, with what it costs and the atoms it has.
LEMMA MoleculeBuilt ==
    ASSUME PartsInv, NEW n \in Int, NEW atoms \in Seq(AtomIds), NEW capacity \in Nat,
           NEW hash \in Seq(AtomIds) \cup {Missing},
           molecule' = [strings |-> n, atoms |-> atoms, capacity |-> capacity, hash |-> hash],
           meta' = meta, list' = list, atom' = atom,
           ToSet(atoms) \subseteq Alive(atom),
           \A i \in DOMAIN atoms : atom[atoms[i]].index = i - 1,
           Len(atoms) <= capacity, Len(atoms) <= MaxAtoms, hash \in {Missing, atoms},
           blocks' = blocks - MoleculeCost(molecule) + 2 + n
    PROVE  PartsInv'
<1>1. PartsTypeOK /\ FiniteInv /\ ArrayInv /\ HeldInv /\ CostInv /\ MoleculeIsNumbered
  BY DEF PartsInv
<1>2. molecule' \in MoleculeStructs
  BY DEF MoleculeStructs
<1>3. molecule' # Missing
  BY <1>2, PartsAssumption
<1>4. molecule'.atoms = atoms /\ molecule'.capacity = capacity /\ molecule'.hash = hash
      /\ molecule'.strings = n
  OBVIOUS
<1>5. MoleculeCost(molecule') = 2 + n /\ MoleculeAtoms(molecule') = ToSet(atoms)
  BY <1>3, <1>4 DEF MoleculeCost, MoleculeBlocks, MoleculeAtoms
<1> DEFINE p == SumFunctionOnSet(MetaCosts(meta), Alive(meta))
           q == SumFunctionOnSet(AtomCosts(atom), Alive(atom))
           c == ListCost(list)
           d == MoleculeCost(molecule)
           g == MoleculeCost(molecule')
<1>6. blocks = p + c + q + d /\ p \in Int /\ q \in Int /\ c \in Int /\ d \in Int /\ g = 2 + n
      /\ blocks' = blocks - d + 2 + n
  BY <1>1, <1>5, CostsAre DEF CostInv
<1> HIDE DEF p, q, c, d, g
<1>7. blocks' = p + c + q + g
  BY <1>6
<1>8. CostInv'
  BY <1>7 DEF CostInv, p, c, q, g
<1>9. PartsTypeOK' /\ FiniteInv' /\ ArrayInv'
  BY <1>1, <1>2 DEF PartsTypeOK, FiniteInv, ArrayInv
<1>10. HeldInv'
  BY <1>1, <1>5 DEF HeldInv
<1>11. MoleculeIsNumbered'
  BY <1>4 DEF MoleculeIsNumbered
<1> QED BY <1>8, <1>9, <1>10, <1>11 DEF PartsInv

LEMMA CreateMoleculeKeeps ==
    ASSUME PartsInv, CreateMolecule
    PROVE  PartsInv'
<1>1. PICK got \in {2, 3} :
        IF got = 3
        THEN /\ molecule' = [strings |-> 1, atoms |-> <<>>, capacity |-> FirstCapacity, hash |-> Missing]
             /\ blocks' = blocks + 3
        ELSE blocks' = blocks + got - MoleculeBlocks([strings |-> 0]) /\ UNCHANGED molecule
  BY DEF CreateMolecule
<1>2. molecule = Missing /\ meta' = meta /\ list' = list /\ atom' = atom
  BY DEF CreateMolecule
<1>3. blocks \in Int /\ MoleculeCost(molecule) = 0
  <2>1. blocks \in Int
    BY CostsAre DEF PartsInv, CostInv
  <2> QED BY <1>2, <2>1 DEF MoleculeCost
<1>4. CASE got = 3
  <2>1. blocks' = blocks - MoleculeCost(molecule) + 2 + 1
    BY <1>1, <1>3, <1>4
  <2> DEFINE s == <<>>
  <2>2. s \in Seq(AtomIds) /\ ToSet(s) = {} /\ DOMAIN s = {} /\ Len(s) = 0 /\ FirstCapacity \in Nat
        /\ MaxAtoms \in Nat /\ 0 <= FirstCapacity /\ 0 <= MaxAtoms
    BY CapacityAssumption DEF ToSet
  <2>3. molecule' = [strings |-> 1, atoms |-> s, capacity |-> FirstCapacity, hash |-> Missing]
    BY <1>1, <1>4
  <2> HIDE DEF s
  <2>4. ToSet(s) \subseteq Alive(atom) /\ Len(s) <= FirstCapacity /\ Len(s) <= MaxAtoms
        /\ \A i \in DOMAIN s : atom[s[i]].index = i - 1
    BY <2>2
  <2> DEFINE none == Missing
  <2>5. none \in Seq(AtomIds) \cup {Missing} /\ none \in {Missing, s} /\ 1 \in Int
        /\ molecule' = [strings |-> 1, atoms |-> s, capacity |-> FirstCapacity, hash |-> none]
    BY <2>3
  <2> HIDE DEF none
  <2> QED
    BY <1>2, <2>1, <2>2, <2>4, <2>5, MoleculeBuilt
<1>5. CASE got = 2
  <2>1. blocks' = blocks + 2 - MoleculeBlocks([strings |-> 0]) /\ molecule' = molecule
    BY <1>1, <1>5
  <2>2. MoleculeBlocks([strings |-> 0]) = 2
    BY DEF MoleculeBlocks
  <2>3. blocks' = blocks
    BY <1>3, <2>1, <2>2
  <2> QED
    BY <1>2, <2>1, <2>3 DEF PartsInv, PartsTypeOK, FiniteInv, ArrayInv, HeldInv, CostInv, MoleculeIsNumbered
<1> QED BY <1>1, <1>4, <1>5

LEMMA HashMoleculeKeeps ==
    ASSUME PartsInv, HashMolecule
    PROVE  PartsInv'
<1>1. molecule # Missing /\ meta' = meta /\ list' = list /\ atom' = atom
      /\ molecule' = [molecule EXCEPT !.hash = molecule.atoms,
                                      !.strings = IF molecule.hash = Missing THEN @ + 1 ELSE @]
      /\ blocks' = IF molecule.hash = Missing THEN blocks + 1 ELSE blocks
  BY DEF HashMolecule
<1>2. PartsTypeOK /\ HeldInv /\ MoleculeIsNumbered
  BY DEF PartsInv
<1> DEFINE m == molecule
           n == IF molecule.hash = Missing THEN molecule.strings + 1 ELSE molecule.strings
           atoms == molecule.atoms
<1>3. m.strings \in Int /\ atoms \in Seq(AtomIds) /\ m.capacity \in Nat
      /\ m = [strings |-> m.strings, atoms |-> atoms, capacity |-> m.capacity, hash |-> m.hash]
  BY <1>1, <1>2, MoleculeIs
<1>4. molecule' = [strings |-> n, atoms |-> atoms, capacity |-> m.capacity, hash |-> atoms]
  <2>1. molecule' = [[m EXCEPT !.hash = atoms] EXCEPT !.strings = n]
    BY <1>1
  <2> HIDE DEF m, n, atoms
  <2>2. [m EXCEPT !.hash = atoms] = [strings |-> m.strings, atoms |-> atoms, capacity |-> m.capacity, hash |-> atoms]
    BY <1>3
  <2> DEFINE w == [m EXCEPT !.hash = atoms]
  <2> HIDE DEF w
  <2>3. w = [strings |-> m.strings, atoms |-> atoms, capacity |-> m.capacity, hash |-> atoms]
    BY <2>2 DEF w
  <2>4. [w EXCEPT !.strings = n] = [strings |-> n, atoms |-> atoms, capacity |-> m.capacity, hash |-> atoms]
    BY <2>3
  <2> QED BY <2>1, <2>4 DEF w
<1>5. blocks' = blocks - MoleculeCost(molecule) + 2 + n /\ n \in Int
  <2>1. MoleculeCost(molecule) = 2 + m.strings
    BY <1>1 DEF MoleculeCost, MoleculeBlocks
  <2>2. blocks \in Int
    BY CostsAre DEF PartsInv, CostInv
  <2>3. n \in Int /\ blocks' = blocks + (n - m.strings)
    BY <1>1, <1>3, <2>2
  <2> HIDE DEF n, m
  <2> QED BY <1>3, <2>1, <2>2, <2>3
<1>6. ToSet(atoms) \subseteq Alive(atom) /\ Len(atoms) <= m.capacity /\ Len(atoms) <= MaxAtoms
      /\ \A i \in DOMAIN atoms : atom[atoms[i]].index = i - 1
  BY <1>1, <1>2 DEF HeldInv, MoleculeAtoms, MoleculeIsNumbered
<1> HIDE DEF n, m, atoms
<1> QED
  BY <1>1, <1>3, <1>4, <1>5, <1>6, MoleculeBuilt

LEMMA FreeMoleculeKeeps ==
    ASSUME PartsInv, FreeMolecule
    PROVE  PartsInv'
<1>1. PartsTypeOK /\ FiniteInv /\ ArrayInv /\ HeldInv /\ CostInv /\ MoleculeIsNumbered
  BY DEF PartsInv
<1>2. molecule # Missing /\ molecule' = Missing /\ blocks' = blocks - MoleculeBlocks(molecule)
      /\ meta' = meta /\ list' = list /\ atom' = atom
  BY DEF FreeMolecule
<1> DEFINE p == SumFunctionOnSet(MetaCosts(meta), Alive(meta))
           q == SumFunctionOnSet(AtomCosts(atom), Alive(atom))
           c == ListCost(list)
           d == MoleculeCost(molecule)
           g == MoleculeCost(molecule')
<1>3. d = MoleculeBlocks(molecule) /\ g = 0 /\ MoleculeAtoms(molecule') = {}
  BY <1>2 DEF MoleculeCost, MoleculeAtoms
<1>4. blocks = p + c + q + d /\ p \in Int /\ q \in Int /\ c \in Int /\ d \in Int
      /\ blocks' = blocks - d
  BY <1>1, <1>2, <1>3, CostsAre DEF CostInv
<1> HIDE DEF p, q, c, d, g
<1>5. blocks' = p + c + q + g
  BY <1>3, <1>4
<1>6. CostInv'
  BY <1>2, <1>5 DEF CostInv, p, c, q, g
<1>7. PartsTypeOK' /\ FiniteInv' /\ ArrayInv' /\ HeldInv' /\ MoleculeIsNumbered'
  BY <1>1, <1>2, <1>3 DEF PartsTypeOK, FiniteInv, ArrayInv, HeldInv, MoleculeIsNumbered
<1> QED BY <1>6, <1>7 DEF PartsInv

LEMMA FreeMoleculeDeepKeeps ==
    ASSUME PartsInv, FreeMoleculeDeep
    PROVE  PartsInv'
<1>1. molecule # Missing /\ ListedMetas \cap AtomMetas(HeldAtoms) = {} /\ molecule' = Missing
      /\ atom' = Without(atom, HeldAtoms) /\ meta' = Without(meta, AtomMetas(HeldAtoms))
      /\ list' = list
      /\ blocks' = blocks - MoleculeBlocks(molecule)
                   - SumFunctionOnSet([a \in HeldAtoms |-> DeepBlocks(a)], HeldAtoms)
  BY DEF FreeMoleculeDeep
<1>2. PartsTypeOK /\ FiniteInv /\ ArrayInv /\ HeldInv /\ CostInv
  BY DEF PartsInv
<1>3. HeldAtoms \subseteq Alive(atom)
  BY <1>1, <1>2 DEF HeldInv, HeldAtoms, MoleculeAtoms
<1> DEFINE s == SumFunctionOnSet([a \in HeldAtoms |-> DeepBlocks(a)], HeldAtoms)
           d == MoleculeCost(molecule)
           g == MoleculeCost(molecule')
<1>4. d = MoleculeBlocks(molecule) /\ g = 0
  BY <1>1 DEF MoleculeCost
<1>5. blocks \in Int /\ d \in Int /\ s \in Int
  <2>1. s = SumFunctionOnSet(AtomCosts(atom), HeldAtoms) + AllMetaBlocks(AtomMetas(HeldAtoms))
        /\ AtomMetas(HeldAtoms) \in SUBSET Alive(meta)
    BY <1>2, <1>3, DeepIs
  <2>2. AllMetaBlocks(AtomMetas(HeldAtoms)) \in Int
    BY <1>2, <2>1, CostsAre
  <2>3. SumFunctionOnSet(AtomCosts(atom), HeldAtoms) \in Int
    BY <1>1, <1>2, <1>3, AtomsFreed
  <2>4. blocks \in Int /\ d \in Int
    BY <1>2, CostsAre DEF CostInv
  <2> HIDE DEF s, d
  <2> QED BY <2>1, <2>2, <2>3, <2>4
<1>6. blocks' = blocks - d - s
  BY <1>1, <1>4
<1> HIDE DEF s, d, g
<1>7. blocks' = blocks - s - d + g
  BY <1>4, <1>5, <1>6
<1> QED
  BY <1>1, <1>3, <1>7, FreedDeep DEF s, d, g

LEMMA AddAtomKeeps ==
    ASSUME PartsInv, NEW a \in AtomIds, AddAtom(a)
    PROVE  PartsInv'
<1> DEFINE n == IF molecule.hash = Missing THEN molecule.strings ELSE molecule.strings - 1
           old == molecule.atoms
           atoms == Append(old, a)
           capacity == ResizedTo(old, molecule.capacity, MaxAtoms)
<1>1. molecule # Missing /\ a \in Alive(atom) /\ a \notin HeldAtoms
      /\ meta' = meta /\ list' = list /\ Len(old) < capacity
      /\ atom' = [atom EXCEPT ![a].index = Len(old)]
      /\ blocks' = (IF molecule.hash = Missing THEN blocks ELSE blocks - 1)
      /\ molecule' = [molecule EXCEPT !.atoms = atoms, !.hash = Missing, !.strings = n, !.capacity = capacity]
  BY DEF AddAtom, LooseAtoms
<1>2. PartsTypeOK /\ FiniteInv /\ ArrayInv /\ HeldInv /\ CostInv /\ MoleculeIsNumbered
  BY DEF PartsInv
<1>3. molecule.strings \in Int /\ old \in Seq(AtomIds) /\ molecule.capacity \in Nat
      /\ molecule = [strings |-> molecule.strings, atoms |-> old, capacity |-> molecule.capacity, hash |-> molecule.hash]
  BY <1>1, <1>2, MoleculeIs
<1>4. n \in Int /\ atoms \in Seq(AtomIds) /\ capacity \in Nat /\ capacity <= MaxAtoms
  <2>1. n \in Int
    BY <1>3
  <2>2. atoms \in Seq(AtomIds)
    BY <1>3
  <2>3. capacity \in Nat /\ capacity <= MaxAtoms
    BY <1>3, CapacityAssumption DEF ResizedTo, Resized
  <2> QED BY <2>1, <2>2, <2>3
<1>5. molecule' = [strings |-> n, atoms |-> atoms, capacity |-> capacity, hash |-> Missing]
  <2> DEFINE m == molecule
             u == [m EXCEPT !.atoms = atoms]
             v == [u EXCEPT !.hash = Missing]
             w == [v EXCEPT !.strings = n]
  <2>1. molecule' = [w EXCEPT !.capacity = capacity]
    BY <1>1
  <2>2. m = [strings |-> m.strings, atoms |-> old, capacity |-> m.capacity, hash |-> m.hash]
    BY <1>3
  <2> HIDE DEF n, atoms, capacity, m
  <2>3. u = [strings |-> m.strings, atoms |-> atoms, capacity |-> m.capacity, hash |-> m.hash]
    BY <2>2
  <2> HIDE DEF u
  <2>4. v = [strings |-> m.strings, atoms |-> atoms, capacity |-> m.capacity, hash |-> Missing]
    BY <2>3
  <2> HIDE DEF v
  <2>5. w = [strings |-> n, atoms |-> atoms, capacity |-> m.capacity, hash |-> Missing]
    BY <2>4
  <2> HIDE DEF w
  <2> QED BY <2>1, <2>5
<1> DEFINE x == atom[a]
           y == [strings |-> x.strings, array |-> x.array, meta |-> x.meta, index |-> Len(old)]
<1>6. x \in AtomRecords /\ x = [strings |-> x.strings, array |-> x.array, meta |-> x.meta, index |-> x.index]
  BY <1>1, <1>2, CostsAre DEF AtomRecords
<1>7. atom' = [atom EXCEPT ![a] = y] /\ DOMAIN atom = AtomIds
  <2>1. atom' = [atom EXCEPT ![a] = [x EXCEPT !.index = Len(old)]] /\ DOMAIN atom = AtomIds
    BY <1>1, <1>2 DEF PartsTypeOK
  <2>2. [x EXCEPT !.index = Len(old)] = y
    <3> HIDE DEF x, old
    <3> QED BY <1>6
  <2> HIDE DEF y
  <2> QED BY <2>1, <2>2
<1>8. y \in AtomRecords /\ y.meta = x.meta /\ y.array = x.array /\ y.index = Len(old)
      /\ AtomBlocks(y) = AtomBlocks(x) /\ AtomBlocks(x) \in Int
  <2>1. Len(old) \in Int
    BY <1>3
  <2> HIDE DEF x, old
  <2> QED BY <1>6, <2>1, AtomsAre DEF AtomRecords, AtomBlocks
<1>9. x # Missing /\ (x.array = IF x.meta = <<>> THEN 0 ELSE 1) /\ ToSet(x.meta) \subseteq Alive(meta)
      /\ \A b \in Alive(atom) \ {a} : ToSet(x.meta) \cap ToSet(atom[b].meta) = {}
  BY <1>1, <1>2 DEF Alive, ArrayInv, HeldInv
<1> DEFINE p == SumFunctionOnSet(MetaCosts(meta), Alive(meta))
           q == SumFunctionOnSet(AtomCosts(atom), Alive(atom))
           c == ListCost(list)
           d == MoleculeCost(molecule)
           e == SumFunctionOnSet(AtomCosts(atom'), Alive(atom'))
           g == MoleculeCost(molecule')
<1>10. blocks = p + c + q + d /\ p \in Int /\ q \in Int /\ c \in Int /\ d \in Int
  BY <1>2, CostsAre DEF CostInv
<1> HIDE DEF y, p, q, c, e
<1>11. /\ atom' \in [AtomIds -> AtomRecords \cup {Missing}]
       /\ Alive(atom') = Alive(atom) \cup {a} /\ IsFiniteSet(Alive(atom'))
       /\ e = q + AtomBlocks(y) - AtomBlocks(x)
  BY <1>2, <1>7, <1>8, <1>9, AtomBuilt DEF q, e
<1>12. e = q /\ Alive(atom') = Alive(atom)
  <2> HIDE DEF x
  <2>1. e = q
    BY <1>8, <1>10, <1>11
  <2> QED BY <1>1, <1>11, <2>1
<1>13. molecule' \in MoleculeStructs /\ molecule' # Missing /\ molecule'.atoms = atoms
       /\ molecule'.capacity = capacity /\ molecule'.hash = Missing /\ molecule'.strings = n
  <2> HIDE DEF n, atoms, capacity
  <2>1. molecule' \in MoleculeStructs
    BY <1>4, <1>5 DEF MoleculeStructs
  <2> QED BY <1>5, <2>1, PartsAssumption
<1>14. d = 2 + molecule.strings /\ g = 2 + n
  BY <1>1, <1>13 DEF MoleculeCost, MoleculeBlocks
<1>15. blocks' = p + c + e + g
  <2>1. blocks' = blocks + (n - molecule.strings)
    BY <1>1, <1>3, <1>10
  <2> HIDE DEF n, d, g
  <2> QED BY <1>3, <1>4, <1>10, <1>12, <1>14, <2>1
<1>16. CostInv'
  BY <1>1, <1>15 DEF CostInv, p, c, e
<1>17. ToSet(atoms) = ToSet(old) \cup {a}
  BY <1>3, ItemsAfter
<1>18. ToSet(old) = HeldAtoms /\ HeldAtoms \subseteq Alive(atom)
  BY <1>1, <1>2 DEF HeldAtoms, HeldInv, MoleculeAtoms
<1>19. MoleculeAtoms(molecule') \subseteq Alive(atom) \cup {a}
  <2> HIDE DEF atoms, old
  <2> QED BY <1>13, <1>17, <1>18 DEF MoleculeAtoms
<1>20. ArrayInv' /\ HeldInv'
  <2> HIDE DEF atoms, old, n, capacity
  <2>1. y.array = (IF y.meta = <<>> THEN 0 ELSE 1) /\ ToSet(y.meta) \subseteq Alive(meta)
        /\ \A b \in Alive(atom) \ {a} : ToSet(y.meta) \cap ToSet(atom[b].meta) = {}
    BY <1>8, <1>9
  <2> QED BY <1>1, <1>2, <1>7, <1>8, <1>19, <2>1, AtomInOrder
<1>21. PartsTypeOK' /\ FiniteInv'
  BY <1>1, <1>2, <1>11, <1>13 DEF PartsTypeOK, FiniteInv
<1>22. MoleculeIsNumbered'
  <2>1. Len(atoms) = Len(old) + 1 /\ DOMAIN atoms = 1..Len(old) + 1 /\ atoms[Len(old) + 1] = a
        /\ Len(old) \in Nat /\ DOMAIN old = 1..Len(old) /\ \A i \in 1..Len(old) : atoms[i] = old[i]
    BY <1>3
  <2>2. \A i \in DOMAIN old : atom[old[i]].index = i - 1
    BY <1>1, <1>2 DEF MoleculeIsNumbered
  <2>3. \A i \in DOMAIN old : old[i] \in ToSet(old)
    BY DEF ToSet
  <2> HIDE DEF atoms, old, capacity, n
  <2>4. ASSUME NEW i \in DOMAIN atoms PROVE atom'[atoms[i]].index = i - 1
    <3>1. CASE i = Len(old) + 1
      BY <1>7, <1>8, <2>1, <3>1
    <3>2. CASE i \in 1..Len(old)
      <4>1. atoms[i] = old[i] /\ old[i] \in Alive(atom) /\ old[i] # a
        BY <1>1, <1>18, <2>1, <2>3, <3>2
      <4>2. atom'[old[i]] = atom[old[i]]
        BY <1>7, <4>1 DEF Alive
      <4> QED BY <2>1, <2>2, <3>2, <4>1, <4>2
    <3> QED BY <2>1, <3>1, <3>2
  <2>5. Len(atoms) <= capacity /\ Len(atoms) <= MaxAtoms
    BY <1>1, <1>4, <2>1, CapacityAssumption
  <2> QED BY <1>13, <2>4, <2>5 DEF MoleculeIsNumbered
<1> QED BY <1>16, <1>20, <1>21, <1>22 DEF PartsInv

LEMMA PartsStepInv == PartsInv /\ [PartsNext]_partVars => PartsInv'
<1> SUFFICES ASSUME PartsInv, [PartsNext]_partVars PROVE PartsInv'
  OBVIOUS
<1>1. CASE UNCHANGED partVars
  BY <1>1 DEF partVars, PartsInv, PartsTypeOK, FiniteInv, ArrayInv, HeldInv, CostInv, MoleculeIsNumbered
<1>2. ASSUME NEW k \in MetaIds, CreateMeta(k) \/ SetValue(k) \/ FreeMeta(k) \/ AddToList(k) PROVE PartsInv'
  BY <1>2, CreateMetaKeeps, SetValueKeeps, FreeMetaKeeps, AddToListKeeps
<1>3. CASE CreateList
  BY <1>3, CreateListKeeps
<1>4. ASSUME NEW items \in BOOLEAN, FreeList(items) PROVE PartsInv'
  BY <1>4, FreeListKeeps
<1>5. ASSUME NEW a \in AtomIds, FreeAtom(a) \/ FreeAtomDeep(a) \/ AddAtom(a) PROVE PartsInv'
  BY <1>5, FreeAtomKeeps, FreeAtomDeepKeeps, AddAtomKeeps
<1>6. ASSUME NEW a \in AtomIds, NEW metas \in {<<>>} \cup {<<k>> : k \in FreeForAtoms}, CreateAtom(a, metas)
      PROVE  PartsInv'
  BY <1>6, CreateAtomKeeps
<1>7. ASSUME NEW a \in AtomIds, NEW k \in MetaIds, AddMeta(a, k) PROVE PartsInv'
  BY <1>7, AddMetaKeeps
<1>8. CASE CreateMolecule \/ HashMolecule \/ FreeMolecule \/ FreeMoleculeDeep
  BY <1>8, CreateMoleculeKeeps, HashMoleculeKeeps, FreeMoleculeKeeps, FreeMoleculeDeepKeeps
<1> QED
  BY <1>1, <1>2, <1>3, <1>4, <1>5, <1>6, <1>7, <1>8 DEF PartsNext

LEMMA PartsInvIsSound == PartsInv => PartsAreSound
<1> SUFFICES ASSUME PartsInv PROVE PartsAreSound
  OBVIOUS
<1>1. PartsTypeOK /\ FiniteInv /\ HeldInv /\ CostInv /\ MoleculeIsNumbered
  BY DEF PartsInv
<1>2. AllMetaBlocks(Alive(meta)) = SumFunctionOnSet(MetaCosts(meta), Alive(meta))
  BY <1>1, CostsAre
<1>3. SumFunctionOnSet([a \in Alive(atom) |-> AtomBlocks(atom[a])], Alive(atom)) =
        SumFunctionOnSet(AtomCosts(atom), Alive(atom))
  <2> DEFINE S == Alive(atom)
             f == [a \in S |-> AtomBlocks(atom[a])]
             g == AtomCosts(atom)
  <2>1. IsFiniteSet(S) /\ \A a \in S : f[a] = g[a]
    BY <1>1, CostsAre DEF FiniteInv
  <2> HIDE DEF S, f, g
  <2>2. SumFunctionOnSet(f, S) = SumFunctionOnSet(g, S)
    BY <2>1, SumSame
  <2> QED BY <2>2 DEF S, f, g
<1>4. HeldMetas \subseteq Alive(meta) /\ HeldAtoms \subseteq Alive(atom)
  BY <1>1 DEF HeldInv, HeldMetas, ListedMetas, AtomMetas, HeldAtoms, ListItems, MoleculeAtoms
<1>5. PartsAreOwned
  <2>1. ListCost(list) = (IF list = Missing THEN 0 ELSE ListBlocks)
        /\ MoleculeCost(molecule) = (IF molecule = Missing THEN 0 ELSE MoleculeBlocks(molecule))
    BY DEF ListCost, MoleculeCost
  <2> QED BY <1>1, <1>2, <1>3, <1>4, <2>1 DEF PartsAreOwned, CostInv
<1> QED BY <1>1, <1>5 DEF PartsAreSound

\* Whatever is built of metas and atoms, fails half way or is freed, by itself or with what
\* points to it, is freed once, and the atoms of a molecule are numbered as they lie in it.
THEOREM PartsAreAlwaysSound == PartSpec => []PartsAreSound
<1>1. PartSpec => []PartsInv
  BY PartsStart, PartsStepInv, PTL DEF PartSpec
<1> QED BY <1>1, PartsInvIsSound, PTL

=============================================================================
