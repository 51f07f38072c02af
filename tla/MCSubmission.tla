---------------------------- MODULE MCSubmission ----------------------------
(* Instances of Submission for TLC. *)
EXTENDS Submission, TLC

CONSTANTS r0, r1, r2, r3, r4, r5, k0, k1, u1, u2

\* r0 is a legacy request; r5 reuses its key with another body.  r1 and its
\* retransmission r2; r3 reuses their key with another body; r4 is another
\* user's request for r3's address under r1's VM name.
MCKey == (r0 :> k0) @@ (r1 :> k1) @@ (r2 :> k1) @@ (r3 :> k1) @@ (r4 :> NoKey) @@ (r5 :> k0)
MCVmName == (r0 :> "web") @@ (r1 :> "srv") @@ (r2 :> "srv") @@ (r3 :> "web") @@ (r4 :> "srv") @@ (r5 :> "db")
MCIpv4 == (r0 :> NoIpv4) @@ (r1 :> NoIpv4) @@ (r2 :> NoIpv4) @@ (r3 :> "addr") @@ (r4 :> "addr") @@ (r5 :> NoIpv4)
MCUser == (r0 :> u1) @@ (r1 :> u1) @@ (r2 :> u1) @@ (r3 :> u1) @@ (r4 :> u2) @@ (r5 :> u1)
MCBody == (r0 :> "b0") @@ (r1 :> "b1") @@ (r2 :> "b1") @@ (r3 :> "b3") @@ (r4 :> "b4") @@ (r5 :> "b5")
=============================================================================
