SPECIFICATION Spec
CONSTANTS
  Keys = {"k"}
  Payloads = {"v"}
  Patterns = {"p", "q"}
  Addresses = {a1, a2}
  Null = Null
  LLAMA_CPP_MAX_DEVICES = 2
  LlamaMaxDevices = 1
  DeviceCount = 1
  MaxBuft = 1
  I32_MAX = 0
  MaxCalls = 3
INVARIANT
  AppendNeverPanics
