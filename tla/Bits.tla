-------------------------------- MODULE Bits --------------------------------
(***************************************************************************)
(* The bitwise operators of Rust on u8, by arithmetic on the bits.         *)
(***************************************************************************)
EXTENDS Naturals, FiniteSets

Octet == 0 .. 255

(* A bit is known by its weight. *)
Weights == {1, 2, 4, 8, 16, 32, 64, 128}
Bit(n, w) == (n \div w) % 2
OfBits(b) ==
    b[1] + 2 * b[2] + 4 * b[4] + 8 * b[8] + 16 * b[16] + 32 * b[32] + 64 * b[64] + 128 * b[128]

One(b) == IF b THEN 1 ELSE 0

And(m, n) == OfBits([w \in Weights |-> One(Bit(m, w) = 1 /\ Bit(n, w) = 1)])
Or(m, n) == OfBits([w \in Weights |-> One(Bit(m, w) = 1 \/ Bit(n, w) = 1)])
Xor(m, n) == OfBits([w \in Weights |-> One(Bit(m, w) # Bit(n, w))])

(* The exclusive or of all octets: a bit is set in it if an odd number of   *)
(* them have it.                                                            *)
Parity(d) ==
    OfBits([w \in Weights |-> Cardinality({i \in DOMAIN d : Bit(d[i], w) = 1}) % 2])
=============================================================================
