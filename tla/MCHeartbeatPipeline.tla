------------------------ MODULE MCHeartbeatPipeline ------------------------
(* A small instance of HeartbeatPipeline. *)
EXTENDS HeartbeatPipeline, TLC

CONSTANTS p1, p2, gpuA, gpuB

\* No GPU found, or two of different types.
GpusMC == {<<>>, <<gpuB, gpuA>>}

\* Days of four seconds and one bucket: both ends of the first day, and one
\* instant of the third and of the fourth.
TimesMC == {0, 7, 16, 24}
=============================================================================
