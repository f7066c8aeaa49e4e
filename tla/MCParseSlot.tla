---------------------------- MODULE MCParseSlot -----------------------------
(* The parser on short texts: days of every kind, hours with and without a suffix. *)
EXTENDS ParseSlot

\* Words of everyday replies, for the claims of comments and tests.
FewWords ==
    {Plain("hoy"), Plain("manana"), Plain("de"), MonthName(3), Number(15, ""),
     HourMinute(16, 30, ""), HourMinute(16, 30, "hs"), Number(15, "pm")}

\* Wednesday 2026-05-27 at 01:00, Saturday at 12:00 and Sunday at 23:00 UTC.
SomeInstants == {24 * 20600 + 1, 24 * 20603 + 12, 24 * 20604 + 23}

Local == {0 - 3}

=============================================================================
