\* Two events of a reaction, a write of the switch and a failure.
SPECIFICATION FairSpec
CHECK_DEADLOCK FALSE
CONSTANTS
  Shapes <- MCShapes
  MaxInputs = 1
  MaxFlips = 1
  MaxFaults = 1
  MaxEvents = 2
INVARIANT TypeOK
PROPERTIES EffectAuthorized SeenReactionAborts WarnedBeforeClose LetsGo AbandonedIsClosed
