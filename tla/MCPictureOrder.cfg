CONSTANTS
  Configs <- MCAll
  MaxIn = 41
  Gaps = {0, 1, 8, 9}
  Jump = 5
  MaxGopLen = 8
  None = None
SPECIFICATION OSpec
INVARIANT NoPictureLost RefsDecodable DisplayOrder RandomAccess
PROPERTY DecodingTimes AllComeOut Implements
