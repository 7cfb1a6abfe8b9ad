-------------------------------- MODULE Cells --------------------------------
(***************************************************************************)
(* What a HAL cell keeps of what is written to it: the union of            *)
(* shim/hal_shim.c, which the driver reads and writes through the          *)
(* accessors of hal.h in 32 and 64 bits, and the host through doubles.     *)
(*                                                                         *)
(* A cell is its 64 bits as an unsigned number.  A double is a number of   *)
(* halves: whether it has a fraction is all the conversions tell apart     *)
(* (NaN and infinities are left out).  A conversion that C leaves          *)
(* undefined may give any result, so what a conversion may give is a set.  *)
(* Cells of reals keep the double itself and need no words here.           *)
(***************************************************************************)
EXTENDS Integers

TwoTo32 == 4294967296
TwoTo64 == 18446744073709551616
TwoTo31 == 2147483648
TwoTo63 == 9223372036854775808

Words == {n \in Int : 0 <= n /\ n < TwoTo64}
S32 == {n \in Int : -TwoTo31 <= n /\ n < TwoTo31}
U32 == {n \in Int : 0 <= n /\ n < TwoTo32}
S64 == {n \in Int : -TwoTo63 <= n /\ n < TwoTo63}

IntTypes == {"bool", "sint", "uint"}

(* The members of the union, least significant part first. *)
Sint(cell) == IF cell < TwoTo63 THEN cell ELSE cell - TwoTo64
Su(cell) == cell % TwoTo32
Ss(cell) == IF Su(cell) < TwoTo31 THEN Su(cell) ELSE Su(cell) - TwoTo32
LowByte(cell) == cell % 256

(* A number stored in 64 bits, its sign extended. *)
Word(n) == IF n < 0 THEN n + TwoTo64 ELSE n

-----------------------------------------------------------------------------
(* hal.h *)
HalSetSi32(n) == Word(n)
HalSetUi32(n) == n
HalSetSint(n) == Word(n)
HalSetUint(n) == n
HalSetBool(b) == IF b THEN 1 ELSE 0

HalGetSi32(cell) == Ss(cell)
HalGetUi32(cell) == Su(cell)
HalGetSint(cell) == Sint(cell)
HalGetUint(cell) == cell

HalGetSi32Clamped(cell) ==
  LET n == Sint(cell)
  IN  IF n <= -TwoTo31 THEN -TwoTo31
      ELSE IF n >= TwoTo31 - 1 THEN TwoTo31 - 1 ELSE Ss(cell)

HalGetUi32Clamped(cell) == IF cell >= TwoTo32 - 1 THEN TwoTo32 - 1 ELSE Su(cell)

(* Reading a bool whose byte is neither 0 nor 1 is undefined. *)
HalGetBools(cell) ==
  IF LowByte(cell) \in {0, 1} THEN {LowByte(cell) = 1} ELSE BOOLEAN

-----------------------------------------------------------------------------
(* Doubles. *)
Value(n) == 2 * n
Truncated(d) == IF d >= 0 THEN d \div 2 ELSE -((-d) \div 2)

(* To a double: exact up to 2^53, and a multiple of at most 2^11 beyond.   *)
Exact == {n \in Int : -9007199254740992 <= n /\ n <= 9007199254740992}
Doubles(n) ==
  IF n \in Exact THEN {Value(n)} ELSE Value(n - 1024) .. Value(n + 1024)

(* From a double: what does not fit is undefined. *)
Integers64(d) == IF Truncated(d) \in S64 THEN {Word(Truncated(d))} ELSE Words
Unsigned64(d) == IF Truncated(d) \in Words THEN {Truncated(d)} ELSE Words

(* hm2_shim_cell_get and hm2_shim_cell_set *)
CellGet(type, cell) ==
  CASE type = "bool" -> {IF cell = 0 THEN Value(0) ELSE Value(1)}
    [] type = "sint" -> Doubles(Sint(cell))
    [] type = "uint" -> Doubles(cell)

CellSet(type, d) ==
  CASE type = "bool" -> {IF d = 0 THEN 0 ELSE 1}
    [] type = "sint" -> Integers64(d)
    [] type = "uint" -> IF d < 0 THEN {0} ELSE Unsigned64(d)

(* new_param does not look at the sign. *)
ParamSet(type, d) ==
  CASE type = "bool" -> {IF d = 0 THEN 0 ELSE 1}
    [] type = "sint" -> Integers64(d)
    [] type = "uint" -> Unsigned64(d)

(* fix_pins: the values a pin. line may give a pin. *)
PinFits(type, d) ==
  CASE type = "bool" -> d \in {Value(0), Value(1)}
    [] type = "sint" -> d = Value(Truncated(d)) /\ Truncated(d) \in S32
    [] type = "uint" -> d = Value(Truncated(d)) /\ Truncated(d) \in U32
=============================================================================
