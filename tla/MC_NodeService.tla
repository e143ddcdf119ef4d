--------------------------- MODULE MC_NodeService ---------------------------
(* Model-checking instance of NodeService: two block heights around the    *)
(* start height, so that the filter both admits and drops blocks.          *)
EXTENDS NodeService

MC_Heights == {1, 2}
MC_StartBlock == 2

=============================================================================
