SPECIFICATION FairSpec
CONSTANTS
  Conn = {c1, c2, c3}
  NoConn = noconn
  Room = {r1, r2}
  NoRoom = noroom
  Main = r1
  MaxPlayer = 5
  Tab = {t1, t2}
  MaxMoves = 4
INVARIANTS TypeOK RoomsAreApart TabKnowsItself KeysArrive
PROPERTIES Settles
CHECK_DEADLOCK FALSE
