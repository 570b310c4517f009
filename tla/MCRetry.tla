--------------------------------- MODULE MCRetry --------------------------------
(* The retry loop with retry.py's own constants.                              *)
EXTENDS InvokeWithRetry

\* One hint below the one-second minimum and one above MaxDelay, which the code
\* does not cap.
MCHints == {340, 45000}
================================================================================
