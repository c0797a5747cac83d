SPECIFICATION Spec
CONSTANTS
  Parts = {"body", "relay", "whole"}
  Upstreams = {"responses", "anthropic", "chat", "gemini"}
  Clients = {"responses", "chat", "anthropic"}
  MaxBody = 5
  MaxFrameBytes = 3
  MaxBodyFrames = 1
  MaxFrames = 5
  MaxChunk = 2
  Capacity = 2
  MaxOutput = 2
  MaxItems = 3
   
PROPERTY RelayEnds
CHECK_DEADLOCK FALSE
