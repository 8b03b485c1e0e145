SPECIFICATION ExchangeSpec
CONSTANTS
  KeyPad = {"+", "1", "9", "*", "#"}
  Chars <- TheChars
  MaxNumber = 4
  MaxText <- TheLengths
  MaxHeaded = 4
  MaxElement = 7
INVARIANTS SentIsRead HeaderIsSkipped PackedInBits
CHECK_DEADLOCK FALSE
