CONSTANTS
  NoTask = NoTask
  KeyTasks = {k1}
  TcpTasks = {t1}
  MqttTasks = {m1}
  Codes = {c1}
  MaxFails = 1
SPECIFICATION Spec
INVARIANTS NoOrphanBit MutualExclusion ReportIsHeard
PROPERTIES SendShutsOut SentBufferStable
