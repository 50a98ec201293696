CONSTANTS
  q1 = q1
  q2 = q2
  q3 = q3
  ana = ana
  olga = olga
  People <- PeopleMC
  Unowned = Unowned
  Absent = Absent
  Items <- ItemsMC
  MaxTime = 2
  MaxEvents = 4
  Rank <- RankMC
  NameRank <- NameRankMC
  Loads <- LoadsMC
SPECIFICATION BrowseSpec
INVARIANTS TypeOK HandoffWritable HistoryTellsState ReadingIsComplete
PROPERTY EveryChangeAudited
CHECK_DEADLOCK FALSE
