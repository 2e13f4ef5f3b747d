------------------------------ MODULE MCUserModel ------------------------------
(***************************************************************************)
(* Traces shorter and longer than the 20 minutes of a session; the         *)
(* simulation begins at midnight or in the middle of a session, on each    *)
(* weekday, and lasts an hour, a day or more than a week.                  *)
(***************************************************************************)
EXTENDS UserModel

MCTrace ==
  [facebook |-> <<0, 900>>, gmailgchat |-> <<0, 1500>>, gcalgdocs |-> <<60>>,
   websearch |-> <<0, 0, 1300>>, irc |-> <<600>>, bittorrent |-> <<0, 1190>>,
   circuit1 |-> <<0>>, hour |-> <<1, 3600>>]

\* Wednesday, 26 January 2011 and the days after it.
MCStartTimes == {(15000 + d) * Day + s : d \in 0..6, s \in {0, 9 * Hour + 10}}

MCDurations == {Hour, Day, 8 * Day}

\* What the theorems about the streams assume of the traces.
ASSUME MCTraceAssumption == \A k \in DOMAIN Trace : Fits(k)
=============================================================================
