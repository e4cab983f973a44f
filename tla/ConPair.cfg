SPECIFICATION FairSpec
CONSTANTS
  Packet = {p1, p2}
  maxChDepth = 1
  MaxPackets <- MCMaxPackets
  Timed <- MCTimed
INVARIANTS ConPairTypeOK NoStaleTimeout EndIsFinal PanicsOnlyAfterOwnClose
PROPERTIES DeadlineEnds ImplementsPacketQueue
