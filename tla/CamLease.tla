------------------------------ MODULE CamLease ------------------------------
(***************************************************************************)
(* What the camera layer promises, without pump, fences or statistics: a   *)
(* capture buffer is lent by the driver to the application, the GPU reads  *)
(* it only while it is on loan, and it goes back only when no read of it   *)
(* is outstanding (camera/cam_stream.h, "Two facts drive the design").     *)
(* CamStream implements this module.                                       *)
(***************************************************************************)
EXTENDS Integers, Sequences

CONSTANT Buffers

VARIABLES
  driver,   \* buffers the driver may write into
  ready,    \* captured frames, oldest first
  reading   \* buffers the GPU is reading

leaseVars == <<driver, ready, reading>>

InReady == {ready[i] : i \in 1 .. Len(ready)}
OnLoan == Buffers \ (driver \cup InReady)

LeaseInit == driver = Buffers /\ ready = <<>> /\ reading = {}

Fill(b) ==
  /\ b \in driver
  /\ driver' = driver \ {b} /\ ready' = Append(ready, b)
  /\ UNCHANGED reading

\* the application takes the oldest frame; in the same breath it may hand back
\* buffers that nobody reads
Take(back) ==
  /\ ready # <<>>
  /\ back \subseteq OnLoan \ reading
  /\ ready' = Tail(ready) /\ driver' = driver \cup back
  /\ UNCHANGED reading

Return(back) ==
  /\ back \subseteq OnLoan \ reading
  /\ driver' = driver \cup back
  /\ UNCHANGED <<ready, reading>>

StartReading(b) ==
  /\ b \in OnLoan
  /\ reading' = reading \cup {b}
  /\ UNCHANGED <<driver, ready>>

StopReading(b) ==
  /\ reading' = reading \ {b}
  /\ UNCHANGED <<driver, ready>>

\* streaming ends: the driver owns nothing any more
Stop == driver' = {} /\ ready' = <<>> /\ UNCHANGED reading

LeaseNext ==
  \/ \E b \in Buffers : Fill(b) \/ StartReading(b) \/ StopReading(b)
  \/ \E back \in SUBSET Buffers : Take(back) \/ Return(back)
  \/ Stop

LeaseSpec == LeaseInit /\ [][LeaseNext]_leaseVars
==============================================================================
