SPECIFICATION UFairSpec
CONSTANTS
  Units = {"alu", "mul", "div"}
  LoadOuts = {"load"}
  Latency <- MCLatency
  Pipelined <- MCPipelined
  WbPorts = 1
  MaxOps = 4
INVARIANTS
  NoneLostOrDoubled
  WbReadyExact
PROPERTIES
  RefinesDelayLines
  EveryOpLeaves
