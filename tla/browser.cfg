CONSTANTS
  Root = {"panel", "child", "leaf"}
  Parent <- Nesting
  Page = Page
  Fields <- FieldSeq
  Typed <- Texts
  MaxPosts = 3
  Sizes <- SizeSeq
  Specs <- Ranges
  Blank = Blank
  Other = Other
  Malformed = Malformed
  MaxOffset = 4
  Rel = {"file", "outside"}
  Slot = {1}
CHECK_DEADLOCK FALSE
SPECIFICATION MCSpec
INVARIANTS NothingLost LoadingEnds NotModifiedRight RangeRight
