CONSTANTS
    Right = 9
    Bottom = 6
    Reach = 3
    RightZone = 7
    Height = 2
    Arm = 2
    StartX = 5
    StartY = 3
    StartPaddle = 2
    MaxLift = 2
SPECIFICATION PongSpec
INVARIANT BallOnScreen
 
CHECK_DEADLOCK FALSE
