---------------------------- MODULE MCRingFifo ----------------------------
(* A ring of four slots, three usable, and write calls of up to five bytes:*)
(* calls that fit, calls one byte too long, and calls that are refused.    *)
EXTENDS RingFifo

\* The mask in the code is the remainder only for powers of two; every size
\* the code uses is one (128, 512, 1024).
ASSUME PowerOfTwo == Size \in {2, 4, 8, 16, 32, 64, 128, 256, 512, 1024}
=============================================================================
