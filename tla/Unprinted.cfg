\* a letter that is not ASCII
SPECIFICATION TextsSpec
CONSTANTS
  SHORT_MSG_SIZE = 4
  Narrow = {"a", "b"}
  Wide = {"w"}
  Typed <- Texts5
  Files <- Names4
CHECK_DEADLOCK FALSE
INVARIANT ReadIsPrinted
