------------------------------- MODULE MCSmoother -------------------------------
(***************************************************************************)
(* InkStrokePathSmoother for TLC.  The smoother never asks for predictions,*)
(* so one predictor stands for all: one construction with parameters that  *)
(* the core accepts, one with parameters that it refuses.  Of the caller's *)
(* points two are too close for a Float to tell apart and one is too large.*)
(***************************************************************************)
EXTENDS InkStrokePathSmoother, TLC

CONSTANTS standard, dense, zeroRate, spot, origin, inf, near, nearby, zero, huge

MCConfigs ==
  {[motion |-> standard, sampling |-> s, prediction |-> [case |-> "strokeEnd"]] :
     s \in {dense, zeroRate}}

MCAsFloat == (near :> spot) @@ (nearby :> spot) @@ (zero :> origin) @@ (huge :> inf)
================================================================================
