SPECIFICATION Spec
CONSTANTS
  Colors = {hdr}
  BackBuffers = {back1, back2}
  Depths = {depth}
  Nothing = Nothing
  MaxBarriers = 8
INVARIANT RaysReadDepth
