------------------------------ MODULE Activity ------------------------------
(* The activity of one wallet, kept for the airdrop: every event is logged,   *)
(* and the row of the wallet carries what is counted from the events that     *)
(* come in by HTTP.  The backend's own reports (track_activity_direct) are    *)
(* logged without being counted.                                              *)
EXTENDS Integers, Sequences, Functions

CONSTANTS
  Pages,
  Deposits,     \* amounts in wei
  MAX_INTEGER,  \* the largest INTEGER of SQLite, 2^63 - 1: 9.22 ETH in wei
  LastDay, MaxEvents    \* bounds

\* int() would also take a negative amount_wei, which is no deposit.
ASSUME ActivityAssumption == Deposits \subseteq Nat /\ MAX_INTEGER \in Nat

VARIABLES
  day,          \* the date
  events,       \* the log: [event, day, amount, direct]
  wallets       \* the row of the wallet, or NewWallet before there is one

activity_vars == <<day, events, wallets>>

NewWallet ==
  [first_seen |-> 0, last_seen |-> 0, total_sessions |-> 0, role |-> "visitor",
   bounties_created |-> 0, total_deposited |-> 0, agent_registered |-> FALSE,
   wins |-> 0, unique_pages |-> {}, streak_days |-> 0, last_active_date |-> 0]

ActivityInit == day = 1 /\ events = <<>> /\ wallets = NewWallet

DayPasses == day < LastDay /\ day' = day + 1 /\ UNCHANGED <<events, wallets>>

\* Mutant of _update_streak: the second connection of a day starts anew.
_update_streak_anew(row) ==
  [row EXCEPT !.last_active_date = day,
     !.streak_days = IF row.last_active_date = day - 1 THEN @ + 1 ELSE 1]

_update_streak(row) ==
  IF row.last_active_date = day THEN row
  ELSE [row EXCEPT !.last_active_date = day,
          !.streak_days = IF row.last_active_date = day - 1 THEN @ + 1 ELSE 1]

\* The row is made or seen again, whatever the event is.
SeenToday(row) ==
  [row EXCEPT !.first_seen = IF @ = 0 THEN day ELSE @, !.last_seen = day]

\* A wallet that is both keeps that role.
RoleAfter(role, new, other) ==
  IF role = other THEN "both" ELSE IF role = "visitor" THEN new ELSE role

\* The totals are kept as text.  Beyond the range of INTEGER the sum is a REAL,
\* and the next CAST of its text, "1.2e+19" say, reads the first digit.
Total(old, amount) ==
  IF old + amount <= MAX_INTEGER THEN {old + amount} ELSE {1, 9}

\* The other events change a counter, a total or nothing in the same ways.
Counted(row, event, page, amount) ==
  CASE event = "connect" -> {_update_streak([row EXCEPT !.total_sessions = @ + 1])}
    [] event = "page_view" -> {[row EXCEPT !.unique_pages = @ \cup {page}]}
    [] event = "bounty_created" ->
         {[row EXCEPT !.bounties_created = @ + 1, !.role = RoleAfter(@, "sponsor", "agent")]}
    [] event = "bounty_deposited" ->
         {[row EXCEPT !.total_deposited = t] : t \in Total(row.total_deposited, amount)}
    [] event = "agent_registered" ->
         {[row EXCEPT !.agent_registered = TRUE, !.role = RoleAfter(@, "agent", "sponsor")]}
    [] event = "bounty_won" -> {[row EXCEPT !.wins = @ + 1]}

Log(event, amount, direct) ==
  /\ Len(events) < MaxEvents
  /\ events' = Append(events, [event |-> event, day |-> day, amount |-> amount,
                              direct |-> direct])

\* POST /activity/track: the row, the log and the counters in one transaction.
track_event(event, page, amount) ==
  /\ Log(event, amount, FALSE)
  /\ wallets' \in Counted(SeenToday(wallets), event, page, amount)
  /\ UNCHANGED day

\* A winner found by the backend's puller.
track_activity_direct ==
  /\ Log("bounty_won", 0, TRUE)
  /\ wallets' = SeenToday(wallets)
  /\ UNCHANGED day

SomePage == CHOOSE p \in Pages : TRUE

ActivityNext ==
  \/ DayPasses \/ track_activity_direct
  \/ \E page \in Pages : track_event("page_view", page, 0)
  \/ \E amount \in Deposits : track_event("bounty_deposited", SomePage, amount)
  \/ \E event \in {"connect", "bounty_created", "agent_registered", "bounty_won"} :
       track_event(event, SomePage, 0)

ActivitySpec == ActivityInit /\ [][ActivityNext]_activity_vars

-----------------------------------------------------------------------------
(* Properties *)

Occurred(event) == \E i \in DOMAIN events : events[i].event = event /\ ~events[i].direct

Deposited ==
  SumFunctionOnSet([i \in DOMAIN events |-> events[i].amount], DOMAIN events)

Connected(d) == \E i \in DOMAIN events : events[i].event = "connect" /\ events[i].day = d

RoleOf(created, registered) ==
  IF created THEN IF registered THEN "both" ELSE "sponsor"
  ELSE IF registered THEN "agent" ELSE "visitor"

\* The row says what the log says: the streak is the number of days without a
\* gap, up to the last day the wallet connected, on which it did, however often
\* on one day; the role tells what the wallet has done, in whatever order; and
\* the deposits add up while they fit in an INTEGER (_update_streak and the
\* aggregates of track_event).
RowMatchesLog ==
  /\ LET last == wallets.last_active_date
         run == (last - wallets.streak_days + 1) .. last
     IN last > 0 =>
          /\ \A d \in run : Connected(d)
          /\ ~Connected(last - wallets.streak_days)
          /\ \A d \in last + 1 .. day : ~Connected(d)
  /\ Deposited <= MAX_INTEGER => wallets.total_deposited = Deposited
  /\ wallets.role = RoleOf(Occurred("bounty_created"), Occurred("agent_registered"))
=============================================================================
