----------------------------- MODULE MemoryPool ------------------------------
(***************************************************************************)
(* utils/memory.c: a chain of pools that deal out aligned pieces until a   *)
(* reset, counted references whose last release runs the destructor, and   *)
(* the wrappers of malloc. A piece is a pool of the chain and a range.     *)
(* malloc is external and may fail. Pieces of more than half the address   *)
(* space, for which the sizes would wrap around, are left out.             *)
(***************************************************************************)
EXTENDS Calls, Integers, Sequences, FiniteSets, FiniteSetsExt

CONSTANTS
    Alignment,      \* of the pool
    PoolSizes,      \* what it is created with
    PieceSizes,     \* what is asked of it
    MaxPieces,      \* bound on what is asked between resets
    MaxHolders,     \* bound on the references to one object
    SizeMax         \* SIZE_MAX

ASSUME PoolAssumption ==
    SizeMax \in Nat /\ Alignment \in Nat \ {0} /\ PoolSizes \subseteq Nat \ {0} /\ PieceSizes \subseteq Nat \ {0}

\* align_size masks bits out, which rounds up to powers of two only.
ASSUME AlignmentAssumption == \E k \in 0..63 : Alignment = 2^k

VARIABLES
    chain,      \* the pools, the first and what `next` leads to: size and used
    pieces,     \* what has been dealt out since the last reset
    ref         \* ref_count, who holds it, and how often its destructor has run

memVars == <<chain, pieces>>

NoRef == [count |-> 0, holders |-> 0, destroyed |-> 0]

MemInit == chain = <<>> /\ pieces = {}
RefInit == ref = NoRef

-----------------------------------------------------------------------------
(* Pools. *)

\* align_size
Aligned(size) == ((size + Alignment - 1) \div Alignment) * Alignment

\* knishio_pool_create
CreatePool(size) ==
    /\ chain = <<>>
    /\ chain' = << [size |-> size, used |-> 0] >>
    /\ UNCHANGED pieces

TakesFrom(p, size) ==
    /\ chain' = [chain EXCEPT ![p].used = @ + Aligned(size)]
    /\ pieces' = pieces \cup {[pool |-> p, at |-> chain[p].used, size |-> size]}

HasRoom(p, size) == chain[p].used + Aligned(size) <= chain[p].size

\* knishio_pool_alloc, from the first pool of the chain that has room.
AllocInChain(size) ==
    /\ \E p \in DOMAIN chain :
        /\ HasRoom(p, size) /\ \A q \in 1..p-1 : ~HasRoom(q, size)
        /\ TakesFrom(p, size)

\* Mutant of AllocInNewPool: the new pool is used up to the end of the piece.
AllocInNewPoolUnaligned(size) ==
    /\ chain # <<>> /\ \A p \in DOMAIN chain : ~HasRoom(p, size)
    /\ LET last == chain[Len(chain)]
           next == IF last.size > Aligned(size) THEN last.size ELSE Aligned(size) * 2
       IN chain' = Append(chain, [size |-> next, used |-> size])
    /\ pieces' = pieces \cup {[pool |-> Len(chain) + 1, at |-> 0, size |-> size]}

\* None has room: another pool follows the last, as large as that or twice the piece.
AllocInNewPool(size) ==
    /\ chain # <<>> /\ \A p \in DOMAIN chain : ~HasRoom(p, size)
    /\ LET last == chain[Len(chain)]
           next == IF last.size > Aligned(size) THEN last.size ELSE Aligned(size) * 2
       IN chain' = Append(chain, [size |-> next, used |-> Aligned(size)])
    /\ pieces' = pieces \cup {[pool |-> Len(chain) + 1, at |-> 0, size |-> size]}

\* knishio_pool_reset: the pools stay, what was dealt out is gone.
ResetPool ==
    /\ chain' = [p \in DOMAIN chain |-> [chain[p] EXCEPT !.used = 0]]
    /\ pieces' = {}

\* knishio_pool_destroy
DestroyPool ==
    /\ chain # <<>>
    /\ chain' = <<>> /\ pieces' = {}

\* knishio_pool_stats
Stats ==
    [total |-> SumFunctionOnSet([p \in DOMAIN chain |-> chain[p].size], DOMAIN chain),
     used  |-> SumFunctionOnSet([p \in DOMAIN chain |-> chain[p].used], DOMAIN chain)]

-----------------------------------------------------------------------------
(* References. A holder releases once, and nobody uses the one it has released. *)

RefCreate ==
    /\ ref.holders = 0
    /\ ref' = [count |-> 1, holders |-> 1, destroyed |-> 0]

RefRetain ==
    /\ ref.holders > 0
    /\ ref' = [ref EXCEPT !.count = @ + 1, !.holders = @ + 1]

RefRelease ==
    /\ ref.holders > 0
    /\ ref' = [count |-> ref.count - 1, holders |-> ref.holders - 1,
               destroyed |-> IF ref.count = 1 THEN ref.destroyed + 1 ELSE ref.destroyed]

MemNext ==
    \/ \E size \in PoolSizes : CreatePool(size)
    \/ Cardinality(pieces) < MaxPieces /\ \E size \in PieceSizes :
            AllocInChain(size) \/ AllocInNewPool(size)
    \/ ResetPool \/ DestroyPool

RefNext ==
    \/ ref.holders < MaxHolders /\ (RefCreate \/ RefRetain)
    \/ RefRelease

-----------------------------------------------------------------------------
(* knishio_malloc, _calloc, _realloc and _strndup: the bytes they allocate, or none. *)

Malloc(size) == IF size = 0 THEN Missing ELSE size

\* An overflow of the product is refused.
Calloc(nmemb, size) ==
    IF nmemb = 0 \/ size = 0 \/ nmemb > SizeMax \div size THEN Missing
    ELSE (nmemb * size) % (SizeMax + 1)

\* knishio_realloc frees for a size of 0.
Realloc(size) == Malloc(size)

Strndup(length, max) == Malloc((IF length < max THEN length ELSE max) + 1)

AllocateBytes ==
    Quiet /\ \E n, m \in 0..SizeMax :
        Made([fn |-> "allocate", n |-> n, m |-> m,
              bytes |-> [calloc |-> Calloc(n, m), realloc |-> Realloc(n), strndup |-> Strndup(n, m)]])

\* Pools, references and the wrappers, which share nothing.
MemorySpec ==
    /\ MemInit /\ RefInit /\ call = NoCall
    /\ [][\/ MemNext /\ UNCHANGED <<ref, call>>
          \/ RefNext /\ UNCHANGED <<memVars, call>>
          \/ (AllocateBytes \/ Return) /\ UNCHANGED <<memVars, ref>>]_<<memVars, ref, call>>

-----------------------------------------------------------------------------
(* Properties. *)

\* Until the next reset, pieces of the pool lie inside it, are aligned and share no byte,
\* whatever sizes were asked of it in which order and however many pools it has become.
PiecesLieApart ==
    /\ \A a \in pieces :
        /\ a.at % Alignment = 0
        /\ a.at + a.size <= chain[a.pool].size
    /\ \A a, b \in pieces : a # b /\ a.pool = b.pool => a.at + a.size <= b.at \/ b.at + b.size <= a.at

\* The statistics count every piece that has been dealt out, and no more than there is.
StatsCountPieces ==
    SumFunctionOnSet([a \in pieces |-> a.size], pieces) <= Stats.used /\ Stats.used <= Stats.total

PiecesAreApart == PiecesLieApart /\ StatsCountPieces

\* The destructor has run once when the last holder has let go, and not before.
DestroyedOnce == ref.count = ref.holders /\ (ref.destroyed = 1 => ref.holders = 0)
                 /\ ref.destroyed <= 1

\* No allocation is smaller than what was asked of it.
NeverShort ==
    call.fn = "allocate" /\ call.bytes.calloc # Missing => call.bytes.calloc = call.n * call.m

MemoryIsSound == PiecesAreApart /\ DestroyedOnce /\ NeverShort

=============================================================================
