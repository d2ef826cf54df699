------------------------- MODULE MCNotificationLog -------------------------
(* Instances of NotificationLog for TLC: rows and workers are model values *)
(* and interchangeable.                                                    *)
EXTENDS NotificationLog, TLC

CONSTANTS l1, l2, w1, w2

Symmetry == Permutations(Logs) \cup Permutations(Workers)
=============================================================================
