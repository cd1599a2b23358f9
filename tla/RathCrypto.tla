----------------------------- MODULE RathCrypto -----------------------------
(***************************************************************************)
(* The hash blocks and transactions are named by: namespace RathCrypto.    *)
(* It computes the 32 bytes of SHA-256 and adds them up.                   *)
(*                                                                         *)
(* A message is a sequence of bytes.  A uint32_t is a pair <<high, low>>   *)
(* of 16-bit halves, for it does not fit the integers of the checker; a    *)
(* bit operation works on each half.                                       *)
(***************************************************************************)
EXTENDS Integers, Sequences, SequencesExt, Bitwise

CONSTANT Accumulator    \* what the uninitialised sum of hash() starts from

ASSUME AccumulatorAssumption == Accumulator \in Nat

K == <<
    <<\h428a, \h2f98>>, <<\h7137, \h4491>>, <<\hb5c0, \hfbcf>>, <<\he9b5, \hdba5>>,
    <<\h3956, \hc25b>>, <<\h59f1, \h11f1>>, <<\h923f, \h82a4>>, <<\hab1c, \h5ed5>>,
    <<\hd807, \haa98>>, <<\h1283, \h5b01>>, <<\h2431, \h85be>>, <<\h550c, \h7dc3>>,
    <<\h72be, \h5d74>>, <<\h80de, \hb1fe>>, <<\h9bdc, \h06a7>>, <<\hc19b, \hf174>>,
    <<\he49b, \h69c1>>, <<\hefbe, \h4786>>, <<\h0fc1, \h9dc6>>, <<\h240c, \ha1cc>>,
    <<\h2de9, \h2c6f>>, <<\h4a74, \h84aa>>, <<\h5cb0, \ha9dc>>, <<\h76f9, \h88da>>,
    <<\h983e, \h5152>>, <<\ha831, \hc66d>>, <<\hb003, \h27c8>>, <<\hbf59, \h7fc7>>,
    <<\hc6e0, \h0bf3>>, <<\hd5a7, \h9147>>, <<\h06ca, \h6351>>, <<\h1429, \h2967>>,
    <<\h27b7, \h0a85>>, <<\h2e1b, \h2138>>, <<\h4d2c, \h6dfc>>, <<\h5338, \h0d13>>,
    <<\h650a, \h7354>>, <<\h766a, \h0abb>>, <<\h81c2, \hc92e>>, <<\h9272, \h2c85>>,
    <<\ha2bf, \he8a1>>, <<\ha81a, \h664b>>, <<\hc24b, \h8b70>>, <<\hc76c, \h51a3>>,
    <<\hd192, \he819>>, <<\hd699, \h0624>>, <<\hf40e, \h3585>>, <<\h106a, \ha070>>,
    <<\h19a4, \hc116>>, <<\h1e37, \h6c08>>, <<\h2748, \h774c>>, <<\h34b0, \hbcb5>>,
    <<\h391c, \h0cb3>>, <<\h4ed8, \haa4a>>, <<\h5b9c, \hca4f>>, <<\h682e, \h6ff3>>,
    <<\h748f, \h82ee>>, <<\h78a5, \h636f>>, <<\h84c8, \h7814>>, <<\h8cc7, \h0208>>,
    <<\h90be, \hfffa>>, <<\ha450, \h6ceb>>, <<\hbef9, \ha3f7>>, <<\hc671, \h78f2>> >>

InitialState == <<
    <<\h6a09, \he667>>, <<\hbb67, \hae85>>, <<\h3c6e, \hf372>>, <<\ha54f, \hf53a>>,
    <<\h510e, \h527f>>, <<\h9b05, \h688c>>, <<\h1f83, \hd9ab>>, <<\h5be0, \hcd19>> >>

----------------------------------------------------------------------------
(* Words. *)

Half == 2^16

ExclusiveOr(x, y) == <<x[1] ^^ y[1], x[2] ^^ y[2]>>
Both(x, y) == <<x[1] & y[1], x[2] & y[2]>>
Either(x, y) == <<x[1] | y[1], x[2] | y[2]>>
Complement(x) == <<Half - 1 - x[1], Half - 1 - x[2]>>

\* x + y modulo 2^32.
Carried(high, low) == <<(high + low \div Half) % Half, low % Half>>
Plus(x, y) == Carried(x[1] + y[1], x[2] + y[2])

\* x >> n, for n < 16, and the rotation of x by n < 32.
Shifted(x, n) ==
    <<x[1] \div 2^n, x[2] \div 2^n + (x[1] % 2^n) * 2^(16 - n)>>
Rotated(x, n) ==
    <<x[1] \div 2^n + (x[2] % 2^n) * 2^(16 - n), x[2] \div 2^n + (x[1] % 2^n) * 2^(16 - n)>>
rotr(x, n) == Rotated(IF n < 16 THEN x ELSE <<x[2], x[1]>>, n % 16)

choose(e, f, g)   == ExclusiveOr(Both(e, f), Both(Complement(e), g))
majority(a, b, c) == Either(Both(a, Either(b, c)), Both(b, c))
sig0(x) == ExclusiveOr(ExclusiveOr(rotr(x, 7), rotr(x, 18)), Shifted(x, 3))
sig1(x) == ExclusiveOr(ExclusiveOr(rotr(x, 17), rotr(x, 19)), Shifted(x, 10))

----------------------------------------------------------------------------
(* Blocks of 64 bytes. *)

FirstWords(data) ==
    [i \in 1 .. 16 |-> <<data[4 * i - 3] * 256 + data[4 * i - 2],
                         data[4 * i - 1] * 256 + data[4 * i]>>]

\* The 64 words m of a block; word k is m[k - 1] in the code.  They are added
\* in groups of eight, which keeps the recursion of the folds shallow.
WithGroup(words, group) ==
    FoldLeft(LAMBDA m, k : Append(m, Plus(Plus(sig1(m[k - 2]), m[k - 7]),
                                          Plus(sig0(m[k - 15]), m[k - 16]))),
             words, [i \in 1 .. 8 |-> 8 * group + i])
Schedule(data) ==
    Last(FoldLeft(LAMBDA schedules, group : Append(schedules, WithGroup(Last(schedules), group)),
                  <<FirstWords(data)>>, <<2, 3, 4, 5, 6, 7>>))

\* One turn of the loop of transform.
Turned(s, sum) ==
    LET xorA == ExclusiveOr(ExclusiveOr(rotr(s[1], 2), rotr(s[1], 13)), rotr(s[1], 22))
        newA == Plus(Plus(xorA, majority(s[1], s[2], s[3])), sum)
        newE == Plus(s[4], sum)
    IN  <<newA, s[1], s[2], s[3], newE, s[5], s[6], s[7]>>
Round(s, w, constant) ==
    LET xorE == ExclusiveOr(ExclusiveOr(rotr(s[5], 6), rotr(s[5], 11)), rotr(s[5], 25))
    IN  Turned(s, Plus(Plus(Plus(w, constant), s[8]), Plus(choose(s[5], s[6], s[7]), xorE)))

\* Eight turns, and all 64 of them.
EightRounds(state, m, group) ==
    Last(FoldLeft(LAMBDA states, i : Append(states, Round(Last(states), m[i], K[i])),
                  <<state>>, [i \in 1 .. 8 |-> 8 * group + i]))
Rounds(state, m) ==
    Last(FoldLeft(LAMBDA states, group : Append(states, EightRounds(Last(states), m, group)),
                  <<state>>, <<0, 1, 2, 3, 4, 5, 6, 7>>))

Added(x, y) ==
    <<Plus(x[1], y[1]), Plus(x[2], y[2]), Plus(x[3], y[3]), Plus(x[4], y[4]),
      Plus(x[5], y[5]), Plus(x[6], y[6]), Plus(x[7], y[7]), Plus(x[8], y[8])>>
transform(state, data) == Added(state, Rounds(state, Schedule(data)))

----------------------------------------------------------------------------
(* Padding.  m_data is one buffer of 64 bytes: behind the m_blocklen bytes  *)
(* of the rest of a message it holds those of the block before.            *)

FullBlocks(message) == Len(message) \div 64
BlockLength(message) == Len(message) % 64

\* The buffer after the loop of hash has taken the whole message.
Buffer(message) ==
    [i \in 1 .. 64 |->
        IF i <= BlockLength(message) THEN message[64 * FullBlocks(message) + i]
        ELSE IF FullBlocks(message) > 0 THEN message[64 * (FullBlocks(message) - 1) + i]
        ELSE 0]

\* The bit 1 and the zeros that pad appends.
\* (Mutant: the zeros always end where the length begins.)
EndShort(length) == 56
End(length)      == IF length < 56 THEN 56 ELSE 64
Filled(data, length) ==
    [i \in 1 .. 64 |-> IF i <= length THEN data[i]
                       ELSE IF i = length + 1 THEN 128
                       ELSE IF i <= End(length) THEN 0
                       ELSE data[i]]

\* The last eight bytes: the length in bits, its high bytes 0 as long as it is
\* below 2^31 (bound).
WithLength(data, bits) ==
    [i \in 1 .. 64 |-> IF i <= 56 THEN data[i]
                       ELSE IF i <= 60 THEN 0
                       ELSE (bits \div 256^(64 - i)) % 256]

\* The blocks that pad hands to transform: one, or two when the length does
\* not fit behind the message.
LastBlocks(filled, length, bits) ==
    IF length < 56 THEN <<WithLength(filled, bits)>>
    ELSE <<filled, WithLength([i \in 1 .. 64 |-> IF i <= 56 THEN 0 ELSE filled[i]], bits)>>
PadBlocks(message) ==
    LastBlocks(Filled(Buffer(message), BlockLength(message)), BlockLength(message),
               FullBlocks(message) * 512 + BlockLength(message) * 8)

\* All the blocks hash() hands to transform, in their order.
Transformed(message) ==
    [n \in 1 .. FullBlocks(message) |-> SubSeq(message, 64 * n - 63, 64 * n)]
        \o PadBlocks(message)

----------------------------------------------------------------------------
(* The hash. *)

\* The 32 bytes of the state, the high byte of a word first.
revert(state) ==
    [i \in 1 .. 32 |->
        LET word == state[(i - 1) \div 4 + 1]
            half == word[((i - 1) % 4) \div 2 + 1]
        IN  IF i % 2 = 1 THEN half \div 256 ELSE half % 256]

States(message) ==
    FoldLeft(LAMBDA states, data : Append(states, transform(Last(states), data)),
             <<InitialState>>, Transformed(message))

Digest(message) == revert(Last(States(message)))

\* (Mutant: the last byte of the digest is left out.)
hashOf31(message) ==
    Accumulator + FoldLeft(LAMBDA sum, byte : sum + byte, 0, SubSeq(Digest(message), 1, 31))
hash(message) ==
    Accumulator + FoldLeft(LAMBDA sum, byte : sum + byte, 0, Digest(message))
=============================================================================
