---------------------------- MODULE SeasonManager ----------------------------
(***************************************************************************)
(* contracts/src/SeasonManager.sol: seasons of fixed length, the points    *)
(* rounds award, and the leaderboard, an array of bounded length that is   *)
(* kept in order by moving one entry at a time.  Addresses of other        *)
(* contracts and the list of championship rounds are left out.  One action *)
(* is one transaction; SeasonTick is the block timestamp.                  *)
(***************************************************************************)
EXTENDS Integers, Sequences, FiniteSets, FiniteSetsExt, Functions

CONSTANTS
  Competitors,           \* ids of the agents
  Rankings,              \* the rankedAgentIds a round may report
  MAX_LEADERBOARD_SIZE,
  SEASON_DURATION,
  MaxSeasons,            \* bounds: seasons started,
  MaxSeasonTime,         \* block time,
  MaxPoints,             \* points an agent may have when a round is reported,
  MaxPool                \* and contributions to a prize pool

ASSUME SeasonAssumption ==
  /\ IsFiniteSet(Competitors) /\ Rankings \subseteq Seq(Competitors)
  /\ MAX_LEADERBOARD_SIZE \in Nat \ {0} /\ SEASON_DURATION \in Nat /\ MaxSeasons \in Nat

VARIABLES
  now,
  seasons,               \* startTime is only logged
  currentSeasonId, nextSeasonId,
  championshipBountyId,  \* whether it is set
  seasonPoints,
  seasonTopAgents

season_vars == <<now, seasons, currentSeasonId, nextSeasonId, championshipBountyId,
                 seasonPoints, seasonTopAgents>>

SeasonIds == 1 .. MaxSeasons
Fresh == [endTime |-> 0, active |-> FALSE, prizePool |-> 0, championshipSpawned |-> FALSE]

SeasonInit ==
  /\ now = 0
  /\ seasons = [s \in SeasonIds |-> Fresh]
  /\ currentSeasonId = 0 /\ nextSeasonId = 1
  /\ championshipBountyId = FALSE
  /\ seasonPoints = [s \in SeasonIds |-> [a \in Competitors |-> 0]]
  /\ seasonTopAgents = [s \in SeasonIds |-> <<>>]

SeasonExists(s) == s \in 1 .. nextSeasonId - 1

-----------------------------------------------------------------------------
(* Seasons                                                                 *)

StartSeason ==
  /\ ~(currentSeasonId # 0 /\ seasons[currentSeasonId].active)
  /\ nextSeasonId <= MaxSeasons
  /\ seasons' = [seasons EXCEPT ![nextSeasonId] =
                   [endTime |-> now + SEASON_DURATION, active |-> TRUE, prizePool |-> 0,
                    championshipSpawned |-> FALSE]]
  /\ currentSeasonId' = nextSeasonId
  /\ nextSeasonId' = nextSeasonId + 1
  /\ UNCHANGED <<now, championshipBountyId, seasonPoints, seasonTopAgents>>

EndSeason(s) ==
  /\ SeasonExists(s)
  /\ seasons[s].active
  /\ now >= seasons[s].endTime
  /\ seasons' = [seasons EXCEPT ![s].active = FALSE]
  /\ currentSeasonId' = IF currentSeasonId = s THEN 0 ELSE currentSeasonId
  /\ UNCHANGED <<now, nextSeasonId, championshipBountyId, seasonPoints, seasonTopAgents>>

AddToSeasonPrizePool(s) ==
  /\ SeasonExists(s) /\ seasons[s].active
  /\ seasons[s].prizePool < MaxPool
  /\ seasons' = [seasons EXCEPT ![s].prizePool = @ + 1]
  /\ UNCHANGED <<now, currentSeasonId, nextSeasonId, championshipBountyId, seasonPoints,
                 seasonTopAgents>>

SetChampionshipBountyId ==
  /\ championshipBountyId' \in BOOLEAN
  /\ UNCHANGED <<now, seasons, currentSeasonId, nextSeasonId, seasonPoints, seasonTopAgents>>

\* Also for a season that still runs: the code does not look at active.
SpawnChampionship(s) ==
  /\ SeasonExists(s)
  /\ ~seasons[s].championshipSpawned
  /\ championshipBountyId
  /\ seasons' = [seasons EXCEPT ![s].championshipSpawned = TRUE]
  /\ UNCHANGED <<now, currentSeasonId, nextSeasonId, championshipBountyId, seasonPoints,
                 seasonTopAgents>>

-----------------------------------------------------------------------------
(* Points and the leaderboard                                              *)

_pointsForRank(rank) ==
  CASE rank = 1 -> 100 [] rank = 2 -> 75 [] rank = 3 -> 60 [] rank = 4 -> 50 [] rank = 5 -> 40
    [] rank \in 6 .. 10 -> 30 [] rank \in 11 .. 20 -> 20 [] OTHER -> 10

\* The entry at idx moves up past all it now beats, and stops at the first
\* that has as many points.
_bubbleUp(top, idx, points) ==
  LET stops == {k \in 1 .. idx - 1 : points[top[k]] >= points[top[idx]]}
      place == Max(stops \cup {0}) + 1
  IN  [k \in DOMAIN top |-> IF k = place THEN top[idx]
                            ELSE IF k \in place + 1 .. idx THEN top[k - 1] ELSE top[k]]

PlaceOf(top, agentId) == CHOOSE i \in DOMAIN top : top[i] = agentId

(* Mutant of _updateLeaderboard: the points of the round, not the total,   *)
(* are compared with the last of a full board.                             *)
UpdateByRoundPoints(top, agentId, points, pts) ==
  LET len == Len(top) IN
  CASE agentId \in Range(top) ->
         _bubbleUp(top, PlaceOf(top, agentId), points)
    [] agentId \notin Range(top) /\ len < MAX_LEADERBOARD_SIZE ->
         _bubbleUp(Append(top, agentId), len + 1, points)
    [] agentId \notin Range(top) /\ len >= MAX_LEADERBOARD_SIZE ->
         IF pts > points[top[len]]
         THEN _bubbleUp([top EXCEPT ![len] = agentId], len, points) ELSE top

\* The board after agentId came to points[agentId], pts of them in this round.
_updateLeaderboard(top, agentId, points, pts) ==
  LET len == Len(top) IN
  CASE agentId \in Range(top) ->
         _bubbleUp(top, PlaceOf(top, agentId), points)
    [] agentId \notin Range(top) /\ len < MAX_LEADERBOARD_SIZE ->
         _bubbleUp(Append(top, agentId), len + 1, points)
    [] agentId \notin Range(top) /\ len >= MAX_LEADERBOARD_SIZE ->
         IF points[agentId] > points[top[len]]
         THEN _bubbleUp([top EXCEPT ![len] = agentId], len, points) ELSE top

\* One turn of the loop over the ranked agents.
AwardPoints(board, ranking, i) ==
  LET pts    == _pointsForRank(i)
      points == [board.points EXCEPT ![ranking[i]] = @ + pts]
  IN  [points |-> points, top |-> _updateLeaderboard(board.top, ranking[i], points, pts)]

\* The loop: boards[k] is what the first k agents leave.
AwardAll(start, ranking) ==
  LET boards[k \in 0 .. Len(ranking)] ==
        IF k = 0 THEN start ELSE AwardPoints(boards[k - 1], ranking, k)
  IN  boards[Len(ranking)]

RecordRoundResult(s, ranking) ==
  /\ SeasonExists(s) /\ seasons[s].active
  /\ ranking # <<>>
  /\ \A a \in Competitors : seasonPoints[s][a] <= MaxPoints
  /\ LET board == AwardAll([points |-> seasonPoints[s], top |-> seasonTopAgents[s]], ranking)
     IN  /\ seasonPoints' = [seasonPoints EXCEPT ![s] = board.points]
         /\ seasonTopAgents' = [seasonTopAgents EXCEPT ![s] = board.top]
  /\ UNCHANGED <<now, seasons, currentSeasonId, nextSeasonId, championshipBountyId>>

SeasonTick ==
  /\ now < MaxSeasonTime
  /\ now' = now + 1
  /\ UNCHANGED <<seasons, currentSeasonId, nextSeasonId, championshipBountyId, seasonPoints,
                 seasonTopAgents>>

SeasonNext ==
  \/ StartSeason \/ SetChampionshipBountyId \/ SeasonTick
  \/ \E s \in SeasonIds :
       \/ EndSeason(s) \/ AddToSeasonPrizePool(s) \/ SpawnChampionship(s)
       \/ \E r \in Rankings : RecordRoundResult(s, r)

SeasonSpec == SeasonInit /\ [][SeasonNext]_season_vars

-----------------------------------------------------------------------------
(* After every round the board of a season holds its best agents, best     *)
(* first: nobody twice, as many as there are or fit, and nobody outside    *)
(* who has more points than the last inside, although each call moves only *)
(* the agents of its round; and at most one season runs, the current one   *)
(* (SeasonManager.sol, _updateLeaderboard and startSeason).                *)
BoardIsTop ==
  /\ \A s \in SeasonIds :
       LET top    == seasonTopAgents[s]
           points == seasonPoints[s]
           rated  == {a \in Competitors : points[a] > 0}
       IN  /\ IsInjective(top)
           /\ \A i, j \in DOMAIN top : i < j => points[top[i]] >= points[top[j]]
           /\ Len(top) = Min({MAX_LEADERBOARD_SIZE, Cardinality(rated)})
           /\ \A a \in rated \ Range(top), i \in DOMAIN top : points[a] <= points[top[i]]
  /\ \A s \in SeasonIds : seasons[s].active <=> s = currentSeasonId
=============================================================================
