------------------------------ MODULE Shake256 ------------------------------
(***************************************************************************)
(* The sponge of shake256.c, which every hash, key and address of the      *)
(* client comes from: bytes are buffered up to the rate, full blocks are   *)
(* absorbed, the last is padded, and output is squeezed in pieces. Callers *)
(* hash in one call or feed the parts of an atom one at a time: it must    *)
(* come to the same. The permutation is ideal: its state is the sequence   *)
(* of blocks absorbed, and how often it has been applied since.            *)
(***************************************************************************)
EXTENDS Integers, Sequences, SequencesExt

CONSTANTS
    Rate,       \* ctx->rate: 136 in the code
    Bytes,      \* what is hashed
    MaxInput, MaxOutput     \* bounds on one hash

ASSUME RateAssumption == Rate \in Nat \ {0, 1}

VARIABLES
    ctx,        \* knishio_shake256_ctx_t
    fed,        \* every byte of a successful update since init
    read        \* every byte squeezed since final

shakeVars == <<ctx, fed, read>>

Blank == [initialized |-> FALSE, finalized |-> FALSE, buffer |-> <<>>,
          absorbed |-> <<>>, permuted |-> 0, squeeze_offset |-> 0]

ShakeInit == ctx = Blank /\ fed = <<>> /\ read = <<>>

\* The output bytes of the state: where they are from is all there is to tell.
Squeezed(c, i) == [absorbed |-> c.absorbed, permuted |-> c.permuted, at |-> i]

Ready == [Blank EXCEPT !.initialized = TRUE]

\* knishio_shake256_init, _reset
Begun ==
    /\ ctx' = Ready
    /\ fed' = <<>> /\ read' = <<>>

\* sha3_update over its bytes: blocks of Rate are absorbed as they fill.
AbsorbByte(c, b) ==
    LET buffer == Append(c.buffer, b) IN
    IF Len(buffer) >= Rate
    THEN [c EXCEPT !.buffer = <<>>, !.absorbed = Append(@, buffer)]
    ELSE [c EXCEPT !.buffer = buffer]

\* Mutant of Absorb: a call of update starts at the front of the buffer.
AbsorbAfresh(c, data) == FoldLeft(AbsorbByte, [c EXCEPT !.buffer = <<>>], data)

Absorb(c, data) == FoldLeft(AbsorbByte, c, data)

\* knishio_shake256_update; refused after final.
Update(data) ==
    /\ ctx.initialized /\ ~ctx.finalized
    /\ Len(fed) + Len(data) <= MaxInput
    /\ ctx' = Absorb(ctx, data)
    /\ fed' = fed \o data
    /\ UNCHANGED read

\* The padding of SHAKE: 0x1F, zeros, and the last bit of the block, which is that
\* same byte when it is the last.
Padding(n) ==
    IF n = 1 THEN <<31 + 128>>
    ELSE [i \in 1..n |-> CASE i = 1 -> 31 [] i = n -> 128 [] OTHER -> 0]

\* sha3_final
Finalized(c) ==
    LET last == c.buffer \o Padding(Rate - Len(c.buffer)) IN
    [c EXCEPT !.finalized = TRUE, !.squeeze_offset = 0, !.buffer = last,
              !.absorbed = Append(@, last)]

Final ==
    /\ ctx.initialized /\ ~ctx.finalized
    /\ ctx' = Finalized(ctx)
    /\ UNCHANGED <<fed, read>>

\* shake_out, byte by byte: the state is permuted when its rate is used up.
OutByte(r, i) ==
    LET c == IF r.ctx.squeeze_offset >= Rate
             THEN [r.ctx EXCEPT !.permuted = @ + 1, !.squeeze_offset = 0] ELSE r.ctx
    IN [ctx |-> [c EXCEPT !.squeeze_offset = @ + 1],
        out |-> Append(r.out, Squeezed(c, c.squeeze_offset))]

Out(c, n) == FoldLeft(OutByte, [ctx |-> c, out |-> <<>>], [i \in 1..n |-> i])

\* knishio_shake256_squeeze
Squeeze(n) ==
    /\ ctx.initialized /\ ctx.finalized
    /\ Len(read) + n <= MaxOutput
    /\ LET r == Out(ctx, n) IN
        /\ ctx' = r.ctx
        /\ read' = read \o r.out
    /\ UNCHANGED fed

\* knishio_shake256_cleanup
Cleanup ==
    /\ ctx' = Blank
    /\ fed' = <<>> /\ read' = <<>>

Chunks == UNION {[1..n -> Bytes] : n \in 0..Rate + 1}

ShakeNext ==
    \/ Begun
    \/ \E data \in Chunks : Update(data)
    \/ Final
    \/ \E n \in 1..Rate + 1 : Squeeze(n)
    \/ Cleanup

ShakeSpec == ShakeInit /\ [][ShakeNext]_shakeVars

-----------------------------------------------------------------------------
(* Properties. *)

ShakeTypeOK ==
    /\ Len(ctx.buffer) <= Rate
    /\ ~ctx.finalized => Len(ctx.buffer) < Rate
    /\ ctx.squeeze_offset \in 0..Rate
    /\ ctx.finalized => ctx.initialized

\* The message padded to whole blocks, cut into them: SHAKE by its definition.
Blocks(message) ==
    LET padded == message \o Padding(Rate - (Len(message) % Rate)) IN
    [k \in 1..Len(padded) \div Rate |-> SubSeq(padded, (k - 1) * Rate + 1, k * Rate)]

\* The hash is one of the message: however it was cut into calls of update, what is
\* absorbed in the end is its padded blocks ("update", "update_string", shake256.h;
\* update_sponge_with_atom of molecule.c and hash_binary must agree).
AbsorbsTheMessage == ctx.finalized => ctx.absorbed = Blocks(fed)

\* And the output is one stream: its i-th byte is the same however it is squeezed.
SqueezesOneStream ==
    \A i \in DOMAIN read :
        read[i] = [absorbed |-> Blocks(fed), permuted |-> (i - 1) \div Rate,
                   at |-> (i - 1) % Rate]

\* A hash is one of the message, however message and output are cut into calls.
HashIsOfTheMessage == ShakeTypeOK /\ AbsorbsTheMessage /\ SqueezesOneStream

=============================================================================
