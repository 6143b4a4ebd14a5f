---------------------------- MODULE MCFp8Numerics ----------------------------
(***************************************************************************)
(* Two jobs, one per behaviour: a primitive on one pair of operands, and   *)
(* the matrix product of one small tile.                                   *)
(***************************************************************************)
EXTENDS ContractOps, Fp8Gemm

OpsIdle == op = "idle" /\ done = FALSE /\ a = 0 /\ b = 0 /\ golden = 0 /\ array = 0
GemmIdle == /\ tile = [A |-> << >>, W |-> << >>, WS |-> << >>] /\ ash = 0 /\ pc = "idle" /\ a_q = << >> /\ j = 0 /\ k = 0
            /\ acc = << >> /\ bj = 0 /\ total = 0 /\ C = << >>

NumericsInit == (OpsInit /\ GemmIdle) \/ (GemmInit /\ OpsIdle)
NumericsNext == (OpsNext /\ UNCHANGED gemmVars) \/ (GemmNext /\ UNCHANGED opsVars)
NumericsSpec == NumericsInit /\ [][NumericsNext]_<< opsVars, gemmVars >>

(* Exponents around both ends and the bias, and far enough apart for every *)
(* alignment; mantissas at the ends, at the tie points and next to them.   *)
MCOperand == [s : {0, 1}, e : {0, 1, 2, 3, 5, 13, 14, BIAS, BIAS + 1, EMAX - 2, EMAX - 1, EMAX},
              m : {0, 1, 2, 3, 5, 7, 8, 511, 512, 513, 1020, 1021, 1023}]
MCConverted == [s : {0, 1}, e : {0, 1, EMAX - 1, EMAX} \cup BIAS - 12 .. BIAS + 10,
                m : {0, 1, 2, 3, 4, 5, 7} \cup {8 * i + r : i \in 1 .. 127, r \in {0, 3, 4, 5}}]
MCShift == {-2, 0, 3}
MCFactor == [s : {0, 1}, e : 0 .. 8, m : {0, 1, 2, 5, 7}]
MCBlockSums == {x * y : x \in -40 .. 40, y \in {1, 129, 4099, 65537}}

Num(sign, e, m) == [s |-> sign, e |-> e, m |-> m]
MCRows == {<< x, y, z >> : x \in {Num(0, BIAS, 0), Num(1, BIAS + 1, 37), Num(0, 0, 3)},
                           y \in {Num(0, BIAS + 12, 97), Num(1, BIAS + 1, 37), Num(0, 0, 0)},
                           z \in {Num(0, BIAS - 9, 100), Num(0, 0, 0)}}
MCColumns == {<< Num(0, 7, 0), Num(0, 7, 0), Num(0, 0, 1) >>, << Num(1, 5, 3), Num(0, 6, 7), Num(1, 4, 2) >>,
              << Num(0, 0, 0), Num(1, 0, 0), Num(0, 3, 5) >>}
MCScales == {Num(0, BIAS - 7, 33), Num(1, BIAS - 5, 5), Num(0, 3, 77)}
MCTile == [A : MCRows, W : {<< u, v, u >> : u \in MCColumns, v \in MCColumns},
           WS : {<< << x, y >>, << y, z >> >> : x \in MCScales, y \in MCScales, z \in MCScales}]
MCGivenShift == {-3}    \* a shift that loses the low bits of the row
=============================================================================
