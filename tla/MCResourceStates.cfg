SPECIFICATION Spec
CONSTANTS
  Colors = {hdr, normal}
  BackBuffers = {back1, back2}
  Depths = {depth}
  Nothing = Nothing
  MaxBarriers = 8
INVARIANTS TypeOK TrackedIsReal
PROPERTIES TargetsReady PresentedInPresent
