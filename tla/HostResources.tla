---------------------------- MODULE HostResources ---------------------------
(* The check, before a sandbox is created, that the host has the memory and    *)
(* the disk it is to get. A size as written ("1.5GiB") is [n, unit] with n in   *)
(* fractions of 1/Scale; one GiB is Scale MiB. Sizes are unsigned integers.     *)
EXTENDS Naturals, Calculation

CONSTANTS
  Words,       \* number of unsigned integers, 2^64
  Scale,       \* 1024
  MemMargin,   \* memMarginMiB
  DiskMargin   \* diskMarginGiB

HostResourcesAssumption ==
  /\ Words \in Nat \ {0} /\ Scale \in Nat \ {0}
  /\ MemMargin \in Nat /\ DiskMargin \in Nat

Word == 0 .. Words - 1

\* Any request, and any host.
Size == [n : Nat, unit : {"", "MiB", "GiB", "other"}]
SizesInput == [of : {"sizes"}, memory : Size, disk : Size, freeMem : Word, freeDisk : Word]

\* wholeUnits: a size of num/den units, or no size at all.
WholeUnits(num, den) == IF num % den = 0 /\ num \div den \in Word THEN {num \div den} ELSE {}

ParseMiB(s) ==
  CASE s.unit \in {"", "MiB"} -> WholeUnits(s.n, Scale)
    [] s.unit = "GiB" -> WholeUnits(s.n, 1)
    [] OTHER -> {}

ParseGiB(s) ==
  CASE s.unit \in {"", "GiB"} -> WholeUnits(s.n, Scale)
    [] s.unit = "MiB" -> WholeUnits(s.n, Scale * Scale)
    [] OTHER -> {}

\* Unsigned subtraction wraps.
Minus(a, b) == (a + Words - b) % Words

Enough_Unguarded(free, want, margin) == Minus(free, want) >= margin
Enough(free, want, margin) == want <= free /\ Minus(free, want) >= margin

\* A request as the command line gives it is accepted with what it resolves to.
CheckHostResources(memory, disk, freeMem, freeDisk) ==
  {r \in ParseMiB(memory) \X ParseGiB(disk) :
     Enough(freeMem, r[1], MemMargin) /\ Enough(freeDisk, r[2], DiskMargin)}

\* (ResourcesHold) A sandbox is created only with exactly the sizes asked for, and
\* only when the host keeps its margin beside them, however large the request;
\* and a request of whole units with room for it is not turned down.
\* (ParseMiB, ParseGiB, checkHostResources.)
ResourcesHold ==
  input.of = "sizes" =>
    LET memory == input.memory
        disk   == input.disk
        mem(r) == r * Scale = IF memory.unit = "GiB" THEN memory.n * Scale ELSE memory.n
        dsk(r) == r * Scale * Scale = IF disk.unit = "MiB" THEN disk.n ELSE disk.n * Scale
        got    == CheckHostResources(memory, disk, input.freeMem, input.freeDisk)
        fits   == {r \in Word \X Word : /\ mem(r[1]) /\ dsk(r[2])
                                        /\ r[1] + MemMargin <= input.freeMem
                                        /\ r[2] + DiskMargin <= input.freeDisk}
    IN memory.unit # "other" /\ disk.unit # "other" => got = fits
=============================================================================
