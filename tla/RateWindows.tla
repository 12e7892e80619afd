---------------------------- MODULE RateWindows ----------------------------
(***************************************************************************)
(* The four fixed windows in which the gateway counts the requests and the *)
(* tokens of an API key, shared by the two limiters (internal/server).     *)
(* Time is counted in ticks; a day is a whole number of minutes.  A window *)
(* is named by the moment it ends.                                         *)
(***************************************************************************)
EXTENDS Naturals

CONSTANTS
  Minute, Day,    \* lengths of the windows, in ticks
  Limit,          \* what the key may spend in a window; 0 is no limit
  Tokens,         \* estimates a request may carry
  MaxClock        \* bound: the clock stops here

Scopes == {"rpm", "rpd", "tpm", "tpd"}

ASSUME RateAssumption ==
  /\ Minute \in Nat \ {0} /\ Day \in Nat \ {0} /\ Day % Minute = 0
  /\ Limit \in [Scopes -> Nat]
  /\ Tokens \subseteq Nat
  /\ MaxClock \in Nat

\* What a request with t estimated tokens spends in a window of scope s.
Cost(s, t) == IF s \in {"rpm", "rpd"} THEN 1 ELSE t

\* A window without a limit, or one the request spends nothing in, is skipped.
Checked(s, t) == Limit[s] > 0 /\ Cost(s, t) > 0

Length(s) == IF s \in {"rpm", "tpm"} THEN Minute ELSE Day

\* now.Truncate(time.Minute).Add(time.Minute), and startOfNextUTCDay(now).
End(s, now) == ((now \div Length(s)) + 1) * Length(s)

Clock == 0..MaxClock
Ends == 0..(MaxClock + Day)

\* Nothing is charged to any window.
NothingSpent == [s \in Scopes |-> [e \in Ends |-> 0]]

\* The charges after a request with t tokens has been let through, where at[s]
\* is the window it was counted in.
Charged(spent, at, t) ==
  [s \in Scopes |-> IF Checked(s, t) THEN [spent[s] EXCEPT ![at[s]] = @ + Cost(s, t)]
                    ELSE spent[s]]
=============================================================================
