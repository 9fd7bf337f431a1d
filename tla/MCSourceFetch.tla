---------------------------- MODULE MCSourceFetch ----------------------------
(* Two states with two series, or two batches or tables; one retry.          *)
EXTENDS SourceFetch

=============================================================================
