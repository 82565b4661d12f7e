SPECIFICATION FairSpec
CONSTANTS
  Modes <- MCModes
  ThreadNums = {1, 2}
  MAX_THREAD_NUM = 2
  outstanding_cmd_num = 2
  cmd_cnt_per_thread = 3
  CHECK_CORRECTNESS = TRUE
  MaxErrors = 1
  MaxPrints = 1
  MaxRand = 3
INVARIANTS  CountsExact HandleDrained KeysFirst ChecksPass 
PROPERTIES CiphertextSettles 
