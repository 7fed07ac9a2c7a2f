\* every text of up to two characters more than a field holds
SPECIFICATION TextsSpec
CONSTANTS
  SHORT_MSG_SIZE = 4
  Narrow = {"a", "b"}
  Wide = {"w"}
  Typed <- Texts5
  Files <- Names4
CHECK_DEADLOCK FALSE
INVARIANTS TextsTypeOK PlainIsPrinted
