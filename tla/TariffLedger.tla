---------------------------- MODULE TariffLedger ----------------------------
(***************************************************************************)
(* What the daily tariff table promises, without its storage: one reading  *)
(* per tariff boundary, and a bill for every day between four of them.     *)
(* The 00:00 reading is kept once, for both of its days; a bill is always  *)
(* the bill of the readings in the ledger.  A reading is recorded for a    *)
(* boundary that has none, from within MaxDist; a recorded one gives way   *)
(* only to a reading from within Tol or to one no farther than itself.     *)
(***************************************************************************)
EXTENDS Integers

CONSTANTS Days, Time, Registers, Loads, Tol, MaxDist, DayLen, DayStart, DayEnd,
          None

VARIABLES
    load,     \* what the registers show at each moment
    ledger,   \* boundary -> the moment its reading was taken, or None
    report    \* day -> [day, night] -> register -> amount, or None

vars == <<load, ledger, report>>

Boundary == Days \X {"0000", "0700", "2300"}

Instant(b) == b[1] * DayLen + (IF b[2] = "0000" THEN 0
                               ELSE IF b[2] = "0700" THEN DayStart ELSE DayEnd)

\* How far a reading was taken from its boundary.
Far(s, b) == IF s < Instant(b) THEN Instant(b) - s ELSE s - Instant(b)

\* The four readings a day is billed from.
Corners(d) == {<<d, "0000">>, <<d, "0700">>, <<d, "2300">>, <<d + 1, "0000">>}

Gain(book, m, from, to) == load[m][book[to]] - load[m][book[from]]

Bill(book, d) ==
    [r \in {"day", "night"} |-> [m \in Registers |->
        IF r = "day"
        THEN Gain(book, m, <<d, "0700">>, <<d, "2300">>)
        ELSE Gain(book, m, <<d, "0000">>, <<d, "0700">>)
             + Gain(book, m, <<d, "2300">>, <<d + 1, "0000">>)]]

Billable(book, d) ==
    /\ \A b \in Corners(d) : b \in Boundary /\ book[b] # None
    /\ \A r \in {"day", "night"}, m \in Registers : Bill(book, d)[r][m] >= 0

Record(b, s) ==
    /\ Far(s, b) <= MaxDist
    /\ ledger[b] # None => Far(s, b) <= Tol \/ Far(s, b) <= Far(ledger[b], b)
    /\ ledger' = [ledger EXCEPT ![b] = s]
    /\ report' = [d \in Days |-> IF Billable(ledger', d)
                                 THEN Bill(ledger', d) ELSE report[d]]
    /\ UNCHANGED load

Init ==
    /\ load \in Loads
    /\ ledger = [b \in Boundary |-> None]
    /\ report = [d \in Days |-> None]

Next == \E b \in Boundary, s \in Time : Record(b, s)

Spec == Init /\ [][Next]_vars
=============================================================================
