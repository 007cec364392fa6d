CONSTANTS
  NoTask = NoTask
  KeyTasks = {k1}
  TcpTasks = {t1}
  MqttTasks = {}
  Codes = {c1}
  MaxFails = 2
SPECIFICATION FairSpec
INVARIANT ReportIsWhole
PROPERTY RequestsEnd
