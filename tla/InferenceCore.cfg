SPECIFICATION Spec
CONSTANTS
  Profiles <- MCProfiles
  Requests <- MCRequests
  Strides <- MCStrides
  ModelWidth = 3
  ModelHeight = 5
  Models <- MCModels
  Cells <- MCCells
  ClassScale <- MCClassScale
  Saturated = 3
  Classes = {0, 1}
  Outputs = {0, 1, 2}
  MaxDetections = 2
  Thresholds <- MCThresholds
  Sides = {2, 3, 5}
  Edges <- MCEdges
  RoiScale <- MCRoiScale
  Points = {p1, p2, p3}
  MaxRaw = 3
  DepthMin = 1
  DepthMax = 2
INVARIANTS LowestProfile TensorContract LetterboxFits KeepsTheBest RoiIsNeverEmpty DistanceIsRobust
