\* Three addresses and two proposed IDs that are neighbours, so that players
\* take each other's IDs; two seats, so that the session is full at times.
CONSTANTS
  Addrs = {a1, a2, a3}
  Uids = {4, 5}
  Tries = 2
  MaxPlayers = 3
  MaxCreates = 5
  Nobody = Nobody
SPECIFICATION FairSpec
INVARIANTS TypeOK Accounted BooksAgree
PROPERTIES KickedGoes EventuallyTold
CHECK_DEADLOCK FALSE
