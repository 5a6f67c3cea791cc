--------------------------- MODULE MCAdminConsole ---------------------------
(* Instances of AdminConsole for TLC.  The reports do not look at the page    *)
(* and the pages do not look at media_item: the states in which the tables    *)
(* vary are those of a tab that has used up its calls.                        *)
EXTENDS AdminConsole, TLC

\* Months 11 (December) to 25: a year with the cycles that cross its ends.
Starts == <<0, 31, 62, 90, 121, 151, 182, 212, 243, 274, 304, 335, 365, 396, 427, 455>>
MCMonthStart == [k \in 11..26 |-> Starts[k - 10]]

\* The last hour of a cycle and the first of the next, in the time zone of the
\* reports: within the year, and at its end.
MCInstants == UNION {{24 * (MCMonthStart[k] + 19) - 8, 24 * (MCMonthStart[k] + 19) - 7} : k \in {13, 23}}
MCYears == {1}
MCSchedules == {[days |-> {19, 22, 31}, hour |-> 9, zone |-> 7], [days |-> {19, 25}, hour |-> 17, zone |-> 0]}
MCConsoleMonths == {13, 14}

One == CHOOSE u \in Users : TRUE

\* Two items of any kind; and, at the last of the instants, a third that brings a user's
\* days and the failures above the limits of their queries.
Third == CHOOSE i \in Items : TRUE
ThirdRow ==
  {m \in MediaRow : /\ m.sender = One /\ m.type = "photo" /\ m.status \in {"uploaded", "failed"}
                    /\ m.date \notin {Min(MCInstants), Max(MCInstants)}}
Tables ==
  {(Third :> x) @@ r : r \in [Items \ {Third} -> MediaRow \cup {NoRow}], x \in ThirdRow \cup {NoRow}}

Reports ==
  /\ page = LoginPage(1) /\ made = MaxCalls
  /\ userStatus = [u \in Users |-> IF u = One THEN "active" ELSE "inactive"]
  /\ media \in Tables
  /\ Init
  /\ media[Third] # NoRow => now = Max(MCInstants)
  /\ \A k \in Reminders : rows[k] = None
  /\ changes = IF media = [i \in Items |-> NoRow] THEN MaxChanges ELSE 0

Browsing ==
  /\ changes = 0 /\ now = Max(MCInstants) /\ media = [i \in Items |-> NoRow]
  /\ Init
  /\ loadActiveUsers = {One} /\ \A k \in Reminders : rows[k] # None
  /\ made = 1

MCSpec == (Reports \/ Browsing) /\ [][Next]_vars /\ Fairness
=============================================================================
