---------------------------- MODULE MCTimerQueue ----------------------------
(***************************************************************************)
(* TimerQueue with the time stamps the code builds.  The constructor       *)
(* TimeStamp(microSec) initialises microSecondsSinceEpoch_ with 0 and      *)
(* ignores its argument, and now() and addTime() both end in it.           *)
(***************************************************************************)
EXTENDS TimerQueue

CodeTimeStamp(microSec) == 0

=============================================================================
