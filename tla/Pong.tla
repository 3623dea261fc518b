-------------------------------- MODULE Pong --------------------------------
(***************************************************************************)
(* The Pong game (pong.rs).  Its loop drains the key events, updates the   *)
(* ball and the paddles, yields and waits, and looks for a winner.  Key    *)
(* events arrive while the game is suspended in yield_now; as any number   *)
(* of them may, a drain leaves the four key states at any values.          *)
(***************************************************************************)
EXTENDS Integers

CONSTANTS
    Right,     \* last column the ball may be in without a win (79)
    Bottom,    \* last row (24)
    Reach,     \* columns of the left paddle's zone (5)
    RightZone, \* first column of the right paddle's zone (76)
    Height,    \* paddle_height (5)
    Arm,       \* rows above and below a paddle's top that return the ball (4)
    StartX, StartY, StartPaddle,  \* 40, 12 and 10
    MaxLift    \* bound: how far above the screen a paddle is followed

MinPaddle == -MaxLift

ASSUME PongConstants ==
    /\ Right \in Nat /\ Bottom \in Nat /\ Reach \in Nat /\ RightZone \in Nat
    /\ Height \in Nat /\ Arm \in Nat /\ MaxLift \in Nat
    /\ 1 <= StartX /\ StartX <= Right /\ StartX \in Nat
    /\ 0 < StartY /\ StartY < Bottom /\ StartY \in Nat
    /\ StartPaddle \in Int /\ MinPaddle <= StartPaddle /\ StartPaddle <= Bottom - Height
    /\ Reach < RightZone

VARIABLES ball_x, ball_y, dx, dy, paddle1_y, paddle2_y,
          w_pressed, s_pressed, up_pressed, down_pressed,
          ppc   \* "keys", "update", "check", or "over"

paddles == <<paddle1_y, paddle2_y>>
keys == <<w_pressed, s_pressed, up_pressed, down_pressed>>
ball == <<ball_x, ball_y, dx, dy>>
pvars == <<ball, paddles, keys, ppc>>

PongInit ==
    /\ ball_x = StartX /\ ball_y = StartY /\ dx = 1 /\ dy = 1
    /\ paddle1_y = StartPaddle /\ paddle2_y = StartPaddle
    /\ w_pressed = FALSE /\ s_pressed = FALSE
    /\ up_pressed = FALSE /\ down_pressed = FALSE
    /\ ppc = "keys"

\* The drain: key presses and releases, or Escape, which ends the game.
Keys ==
    /\ ppc = "keys"
    /\ w_pressed' \in BOOLEAN /\ s_pressed' \in BOOLEAN
    /\ up_pressed' \in BOOLEAN /\ down_pressed' \in BOOLEAN
    /\ ppc' \in {"update", "over"}
    /\ UNCHANGED <<ball, paddles>>

\* saturating_sub of an isize saturates far below 0, not at 0: going up has no
\* limit that the game reaches.  Going down stops a paddle's height above the
\* last row.
Moved(y, up, down) ==
    LET risen == IF up THEN y - 1 ELSE y
    IN  IF down /\ risen < Bottom - Height THEN risen + 1 ELSE risen

Covers(paddle, y) == paddle - Arm <= y /\ y < paddle + Arm

\* A bug: the walls reflect the ball one row too late.
update_LateWall ==
    /\ ppc = "update"
    /\ paddle1_y' = Moved(paddle1_y, w_pressed, s_pressed)
    /\ paddle2_y' = Moved(paddle2_y, up_pressed, down_pressed)
    /\ paddle1_y' >= MinPaddle /\ paddle2_y' >= MinPaddle
    /\ ball_x' = ball_x + dx
    /\ ball_y' = ball_y + dy
    /\ dy' = IF ball_y' < 0 \/ ball_y' > Bottom THEN -dy ELSE dy
    /\ LET left  == 0 <= ball_x' /\ ball_x' < Reach /\ Covers(paddle1_y', ball_y') /\ dx < 0
           back  == IF left THEN -dx ELSE dx
           right == RightZone <= ball_x' /\ ball_x' <= Right
                    /\ Covers(paddle2_y', ball_y') /\ back > 0
       IN  dx' = IF right THEN -back ELSE back
    /\ ppc' = "check"
    /\ UNCHANGED keys

\* A bug: a paddle turns the ball whichever way it flies.
update_TwoWay ==
    /\ ppc = "update"
    /\ paddle1_y' = Moved(paddle1_y, w_pressed, s_pressed)
    /\ paddle2_y' = Moved(paddle2_y, up_pressed, down_pressed)
    /\ paddle1_y' >= MinPaddle /\ paddle2_y' >= MinPaddle
    /\ ball_x' = ball_x + dx
    /\ ball_y' = ball_y + dy
    /\ dy' = IF ball_y' <= 0 \/ ball_y' >= Bottom THEN -dy ELSE dy
    /\ LET left  == 0 <= ball_x' /\ ball_x' < Reach /\ Covers(paddle1_y', ball_y')
           right == RightZone <= ball_x' /\ ball_x' <= Right /\ Covers(paddle2_y', ball_y')
       IN  dx' = IF left \/ right THEN -dx ELSE dx
    /\ ppc' = "check"
    /\ UNCHANGED keys

\* update: the paddles move, then the ball, then the walls and the paddles turn it.
update ==
    /\ ppc = "update"
    /\ paddle1_y' = Moved(paddle1_y, w_pressed, s_pressed)
    /\ paddle2_y' = Moved(paddle2_y, up_pressed, down_pressed)
    /\ paddle1_y' >= MinPaddle /\ paddle2_y' >= MinPaddle
    /\ ball_x' = ball_x + dx
    /\ ball_y' = ball_y + dy
    /\ dy' = IF ball_y' <= 0 \/ ball_y' >= Bottom THEN -dy ELSE dy
    /\ LET left  == 0 <= ball_x' /\ ball_x' < Reach /\ Covers(paddle1_y', ball_y') /\ dx < 0
           back  == IF left THEN -dx ELSE dx
           right == RightZone <= ball_x' /\ ball_x' <= Right
                    /\ Covers(paddle2_y', ball_y') /\ back > 0
       IN  dx' = IF right THEN -back ELSE back
    /\ ppc' = "check"
    /\ UNCHANGED keys

\* After the wait: player 2 wins on the left, player 1 on the right.
CheckWin ==
    /\ ppc = "check"
    /\ ppc' = IF ball_x < 1 \/ ball_x > Right THEN "over" ELSE "keys"
    /\ UNCHANGED <<ball, paddles, keys>>

PongNext == Keys \/ update \/ CheckWin

PongSpec == PongInit /\ [][PongNext]_pvars
-----------------------------------------------------------------------------
\* The ball moves by one and the paddles stay a paddle's height above the bottom.
PongTypeOK ==
    /\ ball_x \in Int /\ ball_y \in Int
    /\ dx \in {-1, 1} /\ dy \in {-1, 1}
    /\ paddle1_y \in MinPaddle .. Bottom - Height
    /\ paddle2_y \in MinPaddle .. Bottom - Height
    /\ w_pressed \in BOOLEAN /\ s_pressed \in BOOLEAN
    /\ up_pressed \in BOOLEAN /\ down_pressed \in BOOLEAN
    /\ ppc \in {"keys", "update", "check", "over"}

\* The ball is drawn on the screen: update sees it in columns 1 to 79 and rows 0
\* to 24, so the casts to usize of its coordinates never wrap, and it leaves by
\* the sides only, one column past them when the winner is found.
BallOnScreen ==
    /\ ball_y \in 0 .. Bottom
    /\ ball_x \in 0 .. Right + 1
    /\ ppc \in {"keys", "update"} => ball_x \in 1 .. Right

\* A ball that a paddle has returned crosses to the other side: between the two
\* zones nothing turns it, and no paddle catches it again on its way out.
ReturnedBallCrosses ==
    [][/\ dx = 1 /\ ball_x + 1 < RightZone => dx' = 1
       /\ dx = -1 /\ ball_x - 1 >= Reach => dx' = -1]_pvars
=============================================================================
