------------------------------ MODULE Predictions ------------------------------
(***************************************************************************)
(* What the program predicts from stored readings: how long quotas last    *)
(* and what their use costs (Forecasts), and which accounts are ready,     *)
(* which to use next, and what the other providers count after a reset     *)
(* (AccountAdvice).  Nothing here changes a reading.                       *)
(***************************************************************************)
EXTENDS Forecasts, AccountAdvice

PredictionsInit ==
  /\ ForecastInit \/ usage = NoUsage
  /\ AdviceInit \/ fleet = NoFleet

\* What is predicted from stored readings: forecasts (forecast.go), and the
\* readiness, advice and estimates of module AccountAdvice.
PredictionsHold == ForecastsHold /\ AdviceHolds
=============================================================================
