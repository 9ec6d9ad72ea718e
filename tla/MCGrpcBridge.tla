---------------------------- MODULE MCGrpcBridge ----------------------------
(***************************************************************************)
(* Instances of the bridge for TLC.  The configurations make calls and     *)
(* pings model values and choose the platforms: the Kotlin module          *)
(* ("android"), the Swift module ("ios") or either.                        *)
(***************************************************************************)
EXTENDS GrpcBridgeRefinement

=============================================================================
