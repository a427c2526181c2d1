\* One tab: somebody subscribes in the footer while the card's timer runs.
SPECIFICATION PopupSpec
CONSTANTS
  Screen = {t1}
PROPERTY NeverAskedAgain
CHECK_DEADLOCK FALSE
