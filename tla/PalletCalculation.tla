---------------------------- MODULE PalletCalculation ----------------------------
(***************************************************************************)
(* How many pallets a destination is going to fill.  It is computed twice: *)
(* by the Python worker from the lines of the workbook (worker_python/     *)
(* pallets), and by the API from the totals of the destination             *)
(* (apps/api/src/pallet-calculation), when an employee corrects it and     *)
(* when a result of a learned profile is reviewed.                         *)
(*                                                                         *)
(* Volumes and capacities are integers, in a unit fine enough for both:    *)
(* neither Decimal nor BigInt loses a digit that matters here.  A          *)
(* destination code is the set of the kinds of alias it contains; counts   *)
(* are whole or missing.  Left out: warnings about the code, the manual    *)
(* count, which replaces the result (ContainerInventory), and what only    *)
(* describes it.                                                           *)
(***************************************************************************)
EXTENDS Integers

CONSTANTS
    LowCapacity,    \* what a pallet of the lower and of the other
    OtherCapacity,  \* height holds
    Yeg1Extra,      \* pallets that YEG1 gets besides
    MinVolume,      \* what pieces without a volume count for
    NoCount,        \* the count of pieces is missing
    Lines           \* bound: the lines of workbooks that are compared

Aliases  == {"YEG1", "LOW", "OTHER"}
Packages == {"CARTON", "WOODEN_CRATE"}
LineType == [pieces : Nat \cup {NoCount}, volume : Nat, package : Packages]

ASSUME PalletCalculationAssumption ==
    /\ LowCapacity \in Nat \ {0} /\ OtherCapacity \in Nat \ {0}
    /\ Yeg1Extra \in Nat /\ MinVolume \in Nat \ {0}
    /\ NoCount \notin Nat
    /\ Lines \subseteq LineType
-----------------------------------------------------------------------------
(* The worker: every line is calculated as what it is *)

\* the capacity and the extra pallets of a destination code (classify_destination)
WorkerClass(code) ==
    IF "YEG1" \in code     THEN [capacity |-> LowCapacity, extra |-> Yeg1Extra]
    ELSE IF "LOW" \in code THEN [capacity |-> LowCapacity, extra |-> 0]
    ELSE                        [capacity |-> OtherCapacity, extra |-> 0]

Reliable(pieces) == pieces # NoCount /\ pieces > 0
Counted(pieces)  == IF Reliable(pieces) THEN pieces ELSE 0

Weighed(line) ==
    IF Reliable(line.pieces) /\ line.volume = 0 THEN MinVolume ELSE line.volume

\* one pallet for each crate, and for each piece that is on average larger than one
WorkerMode(line, capacity) ==
    IF /\ Reliable(line.pieces)
       /\ line.package = "WOODEN_CRATE" \/ Weighed(line) > capacity * line.pieces
    THEN "PIECES" ELSE "VOLUME"

\* what the pieces of a line are unreliable for
WorkerWarnings(line, capacity) ==
    IF Reliable(line.pieces)
    THEN IF line.volume = 0 THEN {"ZERO_VOLUME_WITH_CARTONS"} ELSE {}
    ELSE IF line.package = "WOODEN_CRATE" THEN {"WOODEN_CRATE_PIECE_COUNT_REQUIRED"}
    ELSE IF line.volume > capacity        THEN {"OVERSIZE_PIECE_COUNT_REQUIRED"}
    ELSE {}

\* What lines of a destination and package amount to: the volume that is divided by
\* the capacity and whether it comes in pieces, the pieces that are counted; and the
\* totals that the destination is stored with.
Load(line, capacity) ==
    LET bulk == WorkerMode(line, capacity) = "VOLUME"
    IN  [bulk    |-> IF bulk THEN Weighed(line) ELSE 0,
         loose   |-> bulk /\ Reliable(line.pieces),
         counted |-> IF bulk THEN 0 ELSE line.pieces,
         pieces  |-> Counted(line.pieces),
         volume  |-> Weighed(line)]

Merge(a, b) ==
    [bulk |-> a.bulk + b.bulk, loose |-> a.loose \/ b.loose,
     counted |-> a.counted + b.counted,
     pieces |-> a.pieces + b.pieces, volume |-> a.volume + b.volume]

Together(first, second, capacity) ==
    Merge(Load(first, capacity), Load(second, capacity))

\* the quotient, rounded towards the ceiling
Ceiling(volume, capacity) == -((-volume) \div capacity)

WorkerBase(load, capacity) ==
    LET full == Ceiling(load.bulk, capacity)
    IN  IF load.loose /\ full < 1 THEN 1 ELSE full

WorkerPallets(load, class) ==
    LET base == WorkerBase(load, class.capacity)
    IN  base + (IF base > 0 THEN class.extra ELSE 0) + load.counted
-----------------------------------------------------------------------------
(* The API: one destination from its totals *)

ApiClass(code) ==
    [capacity |-> IF code \cap {"YEG1", "LOW"} # {} THEN LowCapacity ELSE OtherCapacity,
     extra    |-> IF "YEG1" \in code THEN Yeg1Extra ELSE 0]

ApiVolume(pieces, volume) == IF pieces > 0 /\ volume = 0 THEN MinVolume ELSE volume

ApiMode(pieces, volume, package, capacity) ==
    IF pieces > 0 /\ (package = "WOODEN_CRATE" \/ volume > capacity * pieces)
    THEN "PIECES" ELSE "VOLUME"

ApiWarnings(pieces, volume, package, capacity) ==
    {w \in {"ZERO_VOLUME_WITH_CARTONS"} : pieces > 0 /\ volume = 0}
    \cup {w \in {"WOODEN_CRATE_PIECE_COUNT_REQUIRED"} :
             pieces = 0 /\ package = "WOODEN_CRATE"}
    \cup {w \in {"OVERSIZE_PIECE_COUNT_REQUIRED"} :
             pieces = 0 /\ package = "CARTON" /\ volume > capacity}

CeilDivide(volume, capacity) == (volume + capacity - 1) \div capacity

\* volumePallets
ApiBase(pieces, volume, capacity) ==
    LET full == IF volume = 0 THEN 0 ELSE CeilDivide(volume, capacity)
    IN  IF pieces > 0 /\ full < 1 THEN 1 ELSE full

ApiPallets(pieces, volume, package, class) ==
    LET v    == ApiVolume(pieces, volume)
        base == ApiBase(pieces, v, class.capacity)
    IN  IF ApiMode(pieces, v, package, class.capacity) = "PIECES" THEN pieces
        ELSE base + (IF base > 0 THEN class.extra ELSE 0)
-----------------------------------------------------------------------------
(* What is true of both.  These formulas have no state:                    *)
(* ContainerInventoryProofs proves them, and TLC evaluates them for the    *)
(* lines of MCContainerInventory.                                          *)

\* Both implementations calculate the same of the same input: the group of the
\* destination, the rule, the pallets and the warnings, at the limits of a pallet and
\* with pieces or volumes that are missing.
CalculationsAgree ==
    \A code \in SUBSET Aliases, line \in Lines :
        LET class  == WorkerClass(code)
            pieces == Counted(line.pieces)
            volume == ApiVolume(pieces, line.volume)
        IN  /\ ApiClass(code) = class
            /\ ApiMode(pieces, volume, line.package, class.capacity)
                  = WorkerMode(line, class.capacity)
            /\ ApiWarnings(pieces, line.volume, line.package, class.capacity)
                  = WorkerWarnings(line, class.capacity)
            /\ ApiPallets(pieces, line.volume, line.package, class)
                  = WorkerPallets(Load(line, class.capacity), class)

\* A correction that enters the totals of a destination again, and a review, find the
\* pallets the worker found, if the lines have counts and are of one kind.
RecalculationKeeps ==
    \A code \in SUBSET Aliases, first, second \in Lines :
        LET class == ApiClass(code)
            load  == Together(first, second, class.capacity)
        IN  /\ Reliable(first.pieces) /\ Reliable(second.pieces)
            /\ first.package = second.package
            /\ WorkerMode(first, class.capacity) = WorkerMode(second, class.capacity)
            => ApiPallets(load.pieces, load.volume, first.package, class)
                  = WorkerPallets(load, class)

\* Whatever the lines, the pallets hold what is not counted by the piece, and one less
\* would not; goods get a pallet, and what is counted gets one each.
PalletsHold ==
    \A code \in SUBSET Aliases, first, second \in Lines :
        LET class == WorkerClass(code)
            load  == Together(first, second, class.capacity)
            extra == IF load.bulk > 0 THEN class.extra ELSE 0
            base  == WorkerPallets(load, class) - extra - load.counted
        IN  /\ load.bulk <= base * class.capacity
            /\ (base - 1) * class.capacity < load.bulk \/ base = 0
            /\ load.pieces > 0 => base + load.counted > 0

(* A statement the code does not keep (README). *)

\* The kinds of cargo are calculated separately wherever a destination is calculated.
MixedKeeps ==
    \A code \in SUBSET Aliases, first, second \in Lines :
        LET class == ApiClass(code)
            load  == Together(first, second, class.capacity)
        IN  first.package = second.package
            => ApiPallets(load.pieces, load.volume, first.package, class)
                  = WorkerPallets(load, class)
=============================================================================
