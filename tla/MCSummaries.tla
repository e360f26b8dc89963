----------------------------- MODULE MCSummaries -----------------------------
(* Instances of Summaries for TLC. *)
EXTENDS Summaries, TLC

CONSTANTS t1, t2, p1, r1, phone, laptop

\* A turn on either device.
OneEach == (t1 :> phone) @@ (t2 :> laptop)

\* The turns may trade places together with their devices.
Mirror == {(t1 :> t2) @@ (t2 :> t1) @@ (phone :> laptop) @@ (laptop :> phone)}
=============================================================================
