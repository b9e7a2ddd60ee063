SPECIFICATION Spec
CONSTANTS
  c1 = c1
  c2 = c2
  NoBall = NoBall
  Obstacle = Obstacle
  Garbage = Garbage
  Views <- MCViews
  MESSAGE_BUF_MAX = 11
  MSG_INTERVAL = 1
  FrameWrap = 2
  BallSightings = 1
  ObsSightings = 1
  WIFI_MAXIMUM_RETRY = 1
INVARIANTS RoomForMessage
