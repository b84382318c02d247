---------------------------- MODULE Presentation ----------------------------
(***************************************************************************)
(* What UIKit does when a view controller is asked to present something.   *)
(* UIKit is not part of this repository: this is the behaviour its         *)
(* controllers rely on.  A controller presents at most one thing; asking   *)
(* it to present another one meanwhile is logged and dropped.              *)
(***************************************************************************)

\* What is on top of a controller that had cur on top and presents new.
Present(cur, new) == IF cur = "none" THEN new ELSE cur

\* The same, from a view that is being (re)built by viewDidLoad: it may not
\* be in the window yet, and then the alert is dropped.
PresentFromViewDidLoad(cur, new) == {cur, Present(cur, new)}
=============================================================================
