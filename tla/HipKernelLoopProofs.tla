------------------------- MODULE HipKernelLoopProofs -------------------------
(***************************************************************************)
(* Facts about the launch geometry and HIP_1D_KERNEL_LOOP that every       *)
(* kernel proof rests on: a launch for a non-empty range has threads, its  *)
(* threads are exactly the residues of the loop stride, and a thread       *)
(* moving by the stride stays on its residue class and skips no item of   *)
(* it.                                                                     *)
(***************************************************************************)
EXTENDS HipKernelLoop, Integers, TLAPS

USE GeometryAssumption

(* CAFFE_GET_BLOCKS(n) for n > 0 launches at least one block, and the     *)
(* global ids of the launch are 0 .. stride - 1.                          *)
LEMMA LaunchGeometry ==
    ASSUME NEW n \in Nat \ {0}
    PROVE  /\ GetBlocks(n) \in Nat \ {0}
           /\ LoopStride(GetBlocks(n)) \in Nat \ {0}
           /\ LaunchThreads(GetBlocks(n)) = 0 .. LoopStride(GetBlocks(n)) - 1
<1>1. GetBlocks(n) \in Nat \ {0}
  BY DEF GetBlocks
<1>2. QED
  BY <1>1 DEF LoopStride, LaunchThreads

(* Two items of one residue class that differ lie a whole stride apart.    *)
LEMMA ResidueGap ==
    ASSUME NEW S \in Nat \ {0}, NEW a \in Nat, NEW b \in Nat,
           a % S = b % S, a < b
    PROVE  a + S <= b
<1>1. a = S * (a \div S) + (a % S) /\ b = S * (b \div S) + (b % S)
  BY SMT
<1>2. a \div S < b \div S
  BY <1>1, SMT
<1>3. S * (a \div S) + S <= S * (b \div S)
  BY <1>2, SMT
<1>4. QED
  BY <1>1, <1>3, SMT

(* A whole stride on, an item is in the same residue class.               *)
LEMMA ResidueShift ==
    ASSUME NEW S \in Nat \ {0}, NEW a \in Nat
    PROVE  (a + S) % S = a % S
<1>1. a % S \in 0 .. S - 1 /\ a = S * (a \div S) + (a % S)
  BY SMT
<1>2. (a + S) % S \in 0 .. S - 1
      /\ a + S = S * ((a + S) \div S) + ((a + S) % S)
  BY SMT
<1> DEFINE k == a \div S + 1 - (a + S) \div S
<1>3. k \in Int /\ S * k = ((a + S) % S) - (a % S)
  BY <1>1, <1>2, SMT
<1>4. k = 0
  <2>1. CASE k >= 1
    <3>1. S * k >= S
      BY <2>1, SMT
    <3>2. QED
      BY <1>1, <1>2, <1>3, <3>1, SMT
  <2>2. CASE k <= -1
    <3>1. S * k <= -S
      BY <2>2, SMT
    <3>2. QED
      BY <1>1, <1>2, <1>3, <3>1, SMT
  <2>3. QED
    BY <1>3, <2>1, <2>2, SMT
<1>5. QED
  BY <1>3, <1>4, SMT


(* The residue of a number is at most the number, and a number below S is *)
(* its own residue.                                                        *)
LEMMA ResidueBound ==
    ASSUME NEW S \in Nat \ {0}, NEW a \in Nat
    PROVE  /\ a % S \in 0 .. S - 1
           /\ a % S <= a
           /\ a < S => a % S = a
  BY SMT

(* A number is one multiple of S plus one remainder below S.               *)
LEMMA DivUnique ==
    ASSUME NEW S \in Nat \ {0}, NEW a \in Int, NEW b \in Int,
           NEW x \in 0 .. S - 1, NEW y \in 0 .. S - 1,
           a * S + x = b * S + y
    PROVE  a = b /\ x = y
<1>1. (a - b) * S = y - x
  BY SMT
<1>2. a - b = 0
  <2>1. CASE a - b >= 1
    <3>1. (a - b) * S >= S
      BY <2>1, SMT
    <3>2. QED
      BY <1>1, <3>1, SMT
  <2>2. CASE a - b <= -1
    <3>1. (a - b) * S <= -S
      BY <2>2, SMT
    <3>2. QED
      BY <1>1, <3>1, SMT
  <2>3. QED
    BY <2>1, <2>2, SMT
<1>3. QED
  BY <1>1, <1>2, SMT
=============================================================================
