--------------------------- MODULE DisplayImages ---------------------------
(***************************************************************************)
(* The firmware images that drive the panel.  An image is built for one    *)
(* profile: the live display (profile "none"), where DisplaySession runs,  *)
(* or one of the benchmarks.  Both share the publisher and the panel code, *)
(* but never run together.                                                 *)
(***************************************************************************)
EXTENDS DisplaySession, BenchmarkProfiles

imageVars == <<sessionVars, benchVars>>

ImagesInit == SessionInit /\ BenchInit

Live == profile = "none" /\ UNCHANGED benchVars
Benchmark == profile # "none" /\ UNCHANGED sessionVars

ImagesNext ==
    \/ Live /\ SessionNext
    \/ Benchmark /\ BenchNext

\* The main task and the guest of the live display are as fair as in FairSession.  The
\* tasks of a benchmark run on cores of their own and every wait of theirs has a timeout
\* or an end; the engine is only as fair as a blocking driver call makes it.
FairImages ==
    /\ ImagesInit /\ [][ImagesNext]_imageVars
    /\ WF_imageVars(Live /\ MainSteps)
    /\ WF_imageVars(Live /\ GuestSteps)
    /\ WF_imageVars(Benchmark /\ RunnerSteps)
    /\ WF_imageVars(Benchmark /\ BenchSteps)
    /\ WF_imageVars(Benchmark /\ BlockingDone)
=============================================================================
