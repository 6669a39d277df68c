---------------------------- MODULE MC_WideFrame ----------------------------
(***************************************************************************)
(* A frame of 1200 pixels and a screen of 900: at this width the frame is  *)
(* 675 tall by its aspect ratio and at most 800.  One turn of fullscreen.  *)
(***************************************************************************)
EXTENDS FrameHeight

MC_Pages == {[screen |-> 900, beside |-> 300, cap |-> 800, base |-> 675, games |-> {500},
              rounding |-> {0}, layouts |-> 0, turns |-> 1]}

WideFrameSpec == FrameInit /\ [][FrameNext]_frameVars /\ FrameFairness
=============================================================================
