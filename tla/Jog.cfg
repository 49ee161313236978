SPECIFICATION FairSpec
CONSTANTS
  Robots = {r0, r1}
  Motions = {m0, m1}
  NoPress = NoPress
INVARIANTS TypeOK NoForgottenPress 
PROPERTIES PressEnds
