---------------------------- MODULE TSGenerator ----------------------------
(***************************************************************************)
(* The two test-case generators of src/lib/ts-generator.cc, as pure        *)
(* operators.  A generator hands out the ids of the injectors and says     *)
(* which injectors are active in EXEC number id of the main loop.          *)
(*                                                                         *)
(* Ids are uint64_t, but TSGenerator::enable takes its two arguments as    *)
(* int: a call converts them, so only their IntBits low bits are seen.     *)
(* Both widths are constants, so that narrow words can be model-checked.   *)
(***************************************************************************)
EXTENDS Integers

CONSTANTS
    Generator,  \* "exp" (ExpTSGenerator, the default) or "seq" (-g 1)
    MaxId,      \* the UINT64_MAX of ts-generator.h:34, 2^63
    IntBits     \* the width of int, 32

\* The number of values of an int.
IntModulus == 2 ^ IntBits

\* Bit number e of n.
Bit(n, e) == (n \div 2 ^ e) % 2

ASSUME GeneratorAssumption == Generator \in {"exp", "seq"}

ASSUME IntBitsAssumption == IntBits \in Nat \ {0}

\* 2^63 has no bit among those that survive the conversion to int.
ASSUME MaxIdAssumption ==
    /\ MaxId \in Nat \ {0}
    /\ \A e \in 0 .. IntBits - 1 : Bit(MaxId, e) = 0

-----------------------------------------------------------------------------

\* Mutant: ids are compared, not masked.
ExpEnableUpTo(id, injector_id) ==
    injector_id % IntModulus <= id % IntModulus

\* ExpTSGenerator::enable: id & injector_id, on the int conversions.
ExpEnable(id, injector_id) ==
    \E e \in 0 .. IntBits - 1 : Bit(id, e) = 1 /\ Bit(injector_id, e) = 1

\* Mutant: every injector up to number id is active.
SeqEnableUpTo(id, injector_id) == injector_id % IntModulus <= id % IntModulus

\* Mutant: EXECs are counted from 1.
SeqEnableFromOne(id, injector_id) ==
    id % IntModulus = (injector_id + 1) % IntModulus

\* SeqTSGenerator::enable: id == injector_id, on the int conversions.
SeqEnable(id, injector_id) == id % IntModulus = injector_id % IntModulus

Enable(id, injector_id) ==
    IF Generator = "exp" THEN ExpEnable(id, injector_id)
                         ELSE SeqEnable(id, injector_id)

\* Mutant: the ids of the exponential generator are counted, too.
AfterIdCounting(next) == next + 1

\* getNextInjectionId returns next and leaves AfterId(next) for the next
\* call.  The exponential generator doubles until MaxId and then sticks to
\* it; the sequential one counts.
AfterId(next) ==
    IF Generator = "exp"
    THEN IF next = MaxId THEN next ELSE 2 * next
    ELSE next + 1
=============================================================================
